----------------------------- MODULE DoorProofs -----------------------------
(***************************************************************************)
(* Theorems about Door, for every number of threads, tokens, seconds and   *)
(* lives of the daemon, with overlapping invites or without.               *)
(***************************************************************************)
EXTENDS Door, TLAPS

\* A thread that is yet to end has an attempt left, and one that serves a
\* connection knows its token.
MayTry(t) == /\ t.pc \in {"start", "accept", "handle"} => t.left > 0
             /\ t.pc = "handle" => t.conn # 0

ThreadsOK == \A s \in Server : srv[s] # NoThread => MayTry(srv[s])

\* An invite in progress has a token number left to print.
Room == op = "inviting" => token < MaxToken

\* A tick that is to start a server has read a window.
HasRead == tick = "start" => seen # NoWindow

\* DoorTypeOK alone is not inductive: attempts_left stays a natural only
\* because the loop ends at zero.
DoorInv == DoorTypeOK /\ ThreadsOK /\ Room /\ HasRead

USE ServerNonEmpty, KindsType, LengthPositive, DoorBounds

LEMMA NoThreadIsNone == NoThread \notin Thread
BY DEF NoThread, Thread

LEMMA HaltKeeps ==
  ASSUME DoorInv
  PROVE  /\ Halt \in [Server -> Thread \cup {NoThread}]
         /\ \A s \in Server : /\ (Halt[s] = NoThread) <=> (srv[s] = NoThread)
                              /\ Halt[s] # NoThread => MayTry(Halt[s])
<1>1. CASE slot \in Server /\ srv[slot] # NoThread
  <2>1. srv[slot] \in Thread
    BY <1>1 DEF DoorInv, DoorTypeOK
  <2> DEFINE h == [srv[slot] EXCEPT !.halted = TRUE]
  <2>2. h \in Thread /\ h.pc = srv[slot].pc /\ h.left = srv[slot].left /\ h.conn = srv[slot].conn
    BY <2>1 DEF Thread
  <2>3. Halt = [srv EXCEPT ![slot] = h]
    BY <1>1 DEF Halt, DoorInv, DoorTypeOK
  <2>4. h # NoThread
    BY <2>2, NoThreadIsNone
  <2> HIDE DEF h
  <2>5. MayTry(h)
    BY <1>1, <2>2 DEF DoorInv, ThreadsOK, MayTry
  <2> QED
    BY <1>1, <2>2, <2>3, <2>4, <2>5 DEF DoorInv, DoorTypeOK, ThreadsOK
<1>2. CASE ~(slot \in Server /\ srv[slot] # NoThread)
  BY <1>2 DEF Halt, DoorInv, DoorTypeOK, ThreadsOK
<1> QED
  BY <1>1, <1>2

\* Replacing one thread by a good one keeps all threads good.
LEMMA PutThread ==
  ASSUME NEW f \in [Server -> Thread \cup {NoThread}],
         \A r \in Server : f[r] # NoThread => MayTry(f[r]),
         NEW s \in Server, NEW t \in Thread \cup {NoThread},
         t # NoThread => MayTry(t), srv' = [f EXCEPT ![s] = t]
  PROVE  srv' \in [Server -> Thread \cup {NoThread}] /\ ThreadsOK'
<1>1. \A r \in Server : srv'[r] = IF r = s THEN t ELSE f[r]
  OBVIOUS
<1> QED
  BY <1>1 DEF ThreadsOK, MayTry

\* What the steps of a thread make of it.
LEMMA ThreadSteps ==
  ASSUME DoorInv, NEW t \in Thread, MayTry(t)
  PROVE  /\ \A pc \in {"closing", "unlink", "free"} :
              [t EXCEPT !.pc = pc] \in Thread /\ MayTry([t EXCEPT !.pc = pc])
         /\ t.pc = "handle" =>
              /\ AfterFailure(t) \in Thread /\ MayTry(AfterFailure(t))
              /\ AfterSuccess(t) \in Thread /\ MayTry(AfterSuccess(t))
<1>1. \A pc \in {"closing", "unlink", "free"} :
         [t EXCEPT !.pc = pc] \in Thread /\ MayTry([t EXCEPT !.pc = pc])
  BY DEF Thread, MayTry
<1>2. ASSUME t.pc = "handle"
      PROVE  /\ AfterFailure(t) \in Thread /\ MayTry(AfterFailure(t))
             /\ AfterSuccess(t) \in Thread /\ MayTry(AfterSuccess(t))
  <2>1. t.left \in 1..MaxAttempts
    BY <1>2 DEF Thread, MayTry
  <2>2. AfterFailure(t) \in Thread /\ MayTry(AfterFailure(t))
    <3> DEFINE left == IF t.win.standing THEN t.left ELSE t.left - 1
               pc == IF t.halted \/ left = 0 THEN "closing" ELSE "accept"
    <3>1. left \in 0..MaxAttempts /\ (pc = "accept" => left > 0)
      BY <2>1
    <3>2. pc \in {"closing", "accept"}
      OBVIOUS
    <3>3. AfterFailure(t) = [t EXCEPT !.left = left, !.conn = 0, !.pc = pc]
      BY DEF AfterFailure
    <3> HIDE DEF left, pc
    <3> QED
      BY <3>1, <3>2, <3>3 DEF Thread, MayTry
  <2>3. AfterSuccess(t) \in Thread /\ MayTry(AfterSuccess(t))
    <3> DEFINE pc == IF t.win.standing /\ ~t.halted THEN "accept" ELSE "closing"
    <3>1. pc \in {"closing", "accept"}
      OBVIOUS
    <3>2. AfterSuccess(t) = [t EXCEPT !.conn = 0, !.pc = pc]
      BY DEF AfterSuccess
    <3> HIDE DEF pc
    <3>3. /\ AfterSuccess(t) \in Thread
          /\ AfterSuccess(t).pc = pc /\ AfterSuccess(t).left = t.left
      BY <3>1, <3>2 DEF Thread
    <3> QED
      BY <2>1, <3>1, <3>3 DEF MayTry
  <2> QED
    BY <2>2, <2>3
<1> QED
  BY <1>1, <1>2

-----------------------------------------------------------------------------
(* Every action keeps the types *)

LEMMA OperatorKeeps == DoorInv /\ Operator => DoorInv'
<1> SUFFICES ASSUME DoorInv, Operator
             PROVE  DoorInv'
  OBVIOUS
<1> USE DEF DoorInv, DoorTypeOK, ThreadsOK, Room, HasRead, MayTry, command, watcher, history
<1>1. CASE Erect
  BY <1>1 DEF Erect
<1>2. ASSUME NEW standing \in Kinds, NEW caps \in Caps, Publish(standing, caps)
      PROVE  DoorInv'
  <2> DEFINE w == [standing |-> standing,
                   expires |-> IF standing THEN 0 ELSE now + Length,
                   caps |-> caps,
                   secret |-> IF standing THEN token + 1 ELSE 0]
  <2>1. token + 1 \in Token
    BY <1>2 DEF Publish, Token
  <2>2. w \in Window
    BY <2>1 DEF Window
  <2>3. window' = w /\ invite' = [invite EXCEPT ![token + 1] = w]
    BY <1>2 DEF Publish
  <2> HIDE DEF w
  <2>4. token' \in 0..MaxToken /\ op' = "idle"
    BY <1>2, <2>1 DEF Publish, Token
  <2>5. invite' \in [Token -> Window \cup {NoWindow}] /\ window' \in Window \cup {NoWindow}
    BY <2>1, <2>2, <2>3
  <2>6. UNCHANGED <<now, iface, tick, seen, fp, slot, srv, lives, uses, fails, granted>>
    BY <1>2 DEF Publish
  <2> QED
    BY <2>4, <2>5, <2>6
<1>3. CASE CloseWindow
  BY <1>3 DEF CloseWindow
<1>4. CASE CloseDoor
  BY <1>4 DEF CloseDoor
<1> QED
  BY <1>1, <1>2, <1>3, <1>4 DEF Operator

LEMMA WatcherKeeps == DoorInv /\ Watcher => DoorInv'
<1> SUFFICES ASSUME DoorInv, Watcher
             PROVE  DoorInv'
  OBVIOUS
<1> USE DEF DoorTypeOK, Room, HasRead, command, history
<1>1. CASE Look \/ Destroy \/ UnlinkExpired \/ StartSkipped
  BY <1>1 DEF Look, Destroy, UnlinkExpired, StartSkipped, Live,
              DoorInv, ThreadsOK, MayTry
<1>2. CASE Clear \/ StartFails
  <2>1. srv' \in [Server -> Thread \cup {NoThread}] /\ ThreadsOK'
    BY <1>2, HaltKeeps DEF Clear, StartFails, ThreadsOK, MayTry
  <2> QED
    BY <1>2, <2>1 DEF Clear, StartFails, DoorInv
<1>3. ASSUME NEW s \in Server, Start(s)
      PROVE  DoorInv'
  <2> DEFINE t == [pc |-> "start", win |-> seen, left |-> MaxAttempts,
                   halted |-> FALSE, conn |-> 0]
  <2>1. seen \in Window
    BY <1>3 DEF Start, DoorInv
  <2>2. t \in Thread /\ MayTry(t)
    BY <2>1 DEF Thread, MayTry
  <2>3. srv' = [Halt EXCEPT ![s] = t]
    BY <1>3 DEF Start
  <2> HIDE DEF t
  <2>4. srv' \in [Server -> Thread \cup {NoThread}] /\ ThreadsOK'
    BY <2>2, <2>3, HaltKeeps, PutThread
  <2>5. iface' \in 0..MaxToken
    BY <1>3, <2>1 DEF Start, DoorInv, Window, Token
  <2> QED
    BY <1>3, <2>1, <2>4, <2>5 DEF Start, DoorInv
<1> QED
  BY <1>1, <1>2, <1>3 DEF Watcher

LEMMA WorkKeeps == ASSUME DoorInv, NEW s \in Server, Work(s) PROVE DoorInv'
<1> USE DEF DoorTypeOK, Room, HasRead, command, watcher, history
<1> DEFINE t == srv[s]
<1>1. t \in Thread /\ MayTry(t)
  BY DEF Work, Bind, Accept, Refuse, Admit, Leave, Finish, Unlink, Free,
         DoorInv, ThreadsOK
<1>2. /\ srv \in [Server -> Thread \cup {NoThread}]
      /\ \A r \in Server : srv[r] # NoThread => MayTry(srv[r])
  BY DEF DoorInv, ThreadsOK
<1>3. ASSUME NEW u \in Thread, MayTry(u), OnlyThread(s, u),
             uses' \in [Token -> Nat], fails' \in [Token -> Nat],
             granted' \subseteq Token \X Caps
      PROVE  DoorInv'
  <2>1. srv' \in [Server -> Thread \cup {NoThread}] /\ ThreadsOK'
    BY <1>2, <1>3, PutThread DEF OnlyThread
  <2> QED
    BY <1>3, <2>1 DEF OnlyThread, DoorInv
<1>4. t.win \in Window /\ t.conn \in Token \cup {0} /\ t.win.caps \in Caps
  BY <1>1 DEF Thread, Window
<1>5. uses \in [Token -> Nat] /\ fails \in [Token -> Nat] /\ granted \subseteq Token \X Caps
  BY DEF DoorInv
<1> HIDE DEF t
<1>6. CASE Bind(s)
  <2> DEFINE u == [t EXCEPT !.pc = IF iface # 0 /\ PortFree(s) THEN "accept" ELSE "closing"]
  <2>1. t.pc = "start" /\ OnlyThread(s, u) /\ UNCHANGED <<uses, fails, granted>>
    BY <1>6 DEF Bind, t
  <2>2. u \in Thread /\ MayTry(u)
    BY <1>1, <2>1 DEF Thread, MayTry
  <2> QED
    BY <1>3, <1>5, <2>1, <2>2
<1>7. CASE Accept(s)
  <2> DEFINE u == [t EXCEPT !.pc = "handle", !.conn = iface]
  <2>1. t.pc = "accept" /\ OnlyThread(s, u) /\ UNCHANGED <<uses, fails, granted>>
    BY <1>7 DEF Accept, t
  <2>2. iface \in Token
    BY <1>7 DEF Accept, Token, DoorInv
  <2>3. u \in Thread /\ u.pc = "handle" /\ u.conn = iface /\ u.left = t.left
    BY <1>1, <2>2 DEF Thread
  <2> HIDE DEF u
  <2>4. MayTry(u)
    BY <1>1, <2>1, <2>2, <2>3 DEF MayTry, Token
  <2> QED
    BY <1>3, <1>5, <2>1, <2>3, <2>4
<1>8. CASE Refuse(s)
  <2>1. /\ t.pc = "handle" /\ OnlyThread(s, AfterFailure(t)) /\ UNCHANGED <<uses, granted>>
        /\ fails' = IF t.win.standing THEN fails ELSE [fails EXCEPT ![t.conn] = @ + 1]
    BY <1>8 DEF Refuse, t
  <2>2. fails' \in [Token -> Nat]
    <3>1. fails[t.conn] + 1 \in Nat
      BY <1>1, <1>4, <1>5, <2>1 DEF MayTry
    <3> QED
      BY <1>5, <2>1, <3>1
  <2> QED
    BY <1>1, <1>3, <1>5, <2>1, <2>2, ThreadSteps
<1>9. CASE Admit(s)
  <2>1. /\ t.pc = "handle" /\ OnlyThread(s, AfterSuccess(t)) /\ UNCHANGED fails
        /\ uses' = IF invite[t.conn].standing THEN uses ELSE [uses EXCEPT ![t.conn] = @ + 1]
        /\ granted' = granted \cup {<<t.conn, t.win.caps>>}
    BY <1>9 DEF Admit, t
  <2>2. uses' \in [Token -> Nat]
    <3>1. uses[t.conn] + 1 \in Nat
      BY <1>1, <1>4, <1>5, <2>1 DEF MayTry
    <3> QED
      BY <1>5, <2>1, <3>1
  <2>3. granted' \subseteq Token \X Caps
    BY <1>1, <1>4, <1>5, <2>1 DEF MayTry
  <2> QED
    BY <1>1, <1>3, <1>5, <2>1, <2>2, <2>3, ThreadSteps
<1>10. CASE Leave(s)
  BY <1>1, <1>3, <1>5, <1>10, ThreadSteps DEF Leave, t
<1>11. CASE Finish(s)
  <2> DEFINE pc == IF EndsWindow(t) THEN "unlink" ELSE "free"
  <2>1. OnlyThread(s, [t EXCEPT !.pc = pc]) /\ UNCHANGED <<uses, fails, granted>>
    BY <1>11 DEF Finish, t
  <2>2. pc \in {"unlink", "free"}
    OBVIOUS
  <2> HIDE DEF pc
  <2> QED
    BY <1>1, <1>3, <1>5, <2>1, <2>2, ThreadSteps
<1>12. CASE Unlink(s)
  <2>1. srv' = [srv EXCEPT ![s] = [t EXCEPT !.pc = "free"]]
    BY <1>12 DEF Unlink, t
  <2>2. srv' \in [Server -> Thread \cup {NoThread}] /\ ThreadsOK'
    BY <1>1, <1>2, <2>1, PutThread, ThreadSteps
  <2> QED
    BY <1>12, <2>2 DEF Unlink, DoorInv
<1>13. CASE Free(s)
  <2>1. srv' \in [Server -> Thread \cup {NoThread}] /\ ThreadsOK'
    BY <1>2, <1>13, PutThread DEF Free
  <2> QED
    BY <1>13, <2>1 DEF Free, DoorInv
<1> QED
  BY <1>6, <1>7, <1>8, <1>9, <1>10, <1>11, <1>12, <1>13 DEF Work

LEMMA DoorStep == ASSUME DoorInv, [Next]_vars PROVE DoorInv'
<1>1. CASE Operator
  BY <1>1, OperatorKeeps
<1>2. CASE Watcher
  BY <1>2, WatcherKeeps
<1>3. ASSUME NEW s \in Server, Work(s)
      PROVE  DoorInv'
  BY <1>3, WorkKeeps
<1>4. CASE Restart \/ Tick
  BY <1>4 DEF Restart, Tick, DoorInv, DoorTypeOK, ThreadsOK, Room, HasRead,
              MayTry, command, watcher, history
<1>5. CASE UNCHANGED vars
  BY <1>5 DEF vars, DoorInv, DoorTypeOK, ThreadsOK, Room, HasRead, MayTry
<1> QED
  BY <1>1, <1>2, <1>3, <1>4, <1>5 DEF Next

\* The variables of the door keep their types, whatever operators, ticks,
\* threads, joiners and restarts do: in particular no server goes on with
\* less than one attempt left (EnrollServer._serve counts them down).
THEOREM DoorTypeCorrect == Spec => []DoorTypeOK
<1>1. Init => DoorInv
  BY DEF Init, DoorInv, DoorTypeOK, ThreadsOK, Room, HasRead
<1>2. DoorInv /\ [Next]_vars => DoorInv'
  BY DoorStep
<1>3. DoorInv => DoorTypeOK
  BY DEF DoorInv
<1> QED
  BY <1>1, <1>2, <1>3, PTL DEF Spec

-----------------------------------------------------------------------------
(***************************************************************************)
(* Without overlapping invites the door serves one token at a time.        *)
(***************************************************************************)

\* The window of the last token printed.
Last == IF token = 0 THEN NoWindow ELSE invite[token]

Empty == \A s \in Server : srv[s] = NoThread

\* While an invite is in progress nothing of the door is left or comes back.
Cleared == op = "inviting" =>
             /\ window = NoWindow /\ slot = 0 /\ Empty
             /\ tick \in {"idle", "clear", "destroy"}
             /\ tick # "idle" => seen = NoWindow

\* File, tick and interface are about the last token.
Current ==
  /\ window \in {NoWindow, Last}
  /\ Last # NoWindow /\ Last.standing => Last.secret = token
  /\ tick # "idle" => seen \in {NoWindow, Last}
  /\ tick \in {"start", "unlink"} => seen # NoWindow
  /\ tick \in {"clear", "destroy", "unlink"} /\ seen # NoWindow => Late(seen)
  /\ tick \in {"destroy", "unlink"} => slot = 0
  /\ iface \in {0, IF op = "inviting" THEN token + 1 ELSE token}

\* A thread serves the last token, and is in the slot until its window is
\* dead and no tick is about to start another one.
ServesLast(s) ==
  /\ Last # NoWindow /\ srv[s].win = Last /\ srv[s].conn \in {0, token}
  /\ srv[s].pc = "unlink" => ~Last.standing
  /\ srv[s].halted => slot = 0
  /\ slot = 0 => tick # "start" /\ ~Live(window)
  /\ tick \in {"clear", "destroy", "unlink"} => ~Live(window)

Single == \A s, t \in Server : srv[s] # NoThread /\ srv[t] # NoThread => s = t

OneThread ==
  /\ Single
  /\ \A s \in Server : srv[s] # NoThread => ServesLast(s)
  /\ slot # 0 => srv[slot] # NoThread /\ fp = Last

Alone == Cleared /\ Current /\ OneThread

\* A step of one thread that neither stops it nor gives it another window.
LEMMA ThreadAlone ==
  ASSUME DoorInv, Alone, NEW s \in Server, srv[s] # NoThread,
         NEW u \in Thread, OnlyThread(s, u),
         u.win = srv[s].win, u.halted = srv[s].halted, u.conn \in {0, token},
         u.pc = "unlink" => ~u.win.standing
  PROVE  Alone'
<1>1. /\ UNCHANGED <<now, token, invite, op, window, iface, tick, seen, fp, slot>>
      /\ srv' = [srv EXCEPT ![s] = u]
  BY DEF OnlyThread, command, watcher
<1>2. \A r \in Server : /\ srv'[r] = IF r = s THEN u ELSE srv[r]
                        /\ srv'[r] # NoThread <=> srv[r] # NoThread
  BY <1>1, NoThreadIsNone DEF DoorInv, DoorTypeOK
<1>3. Last' = Last /\ Live(window)' = Live(window) /\ (\A w : Late(w)' = Late(w))
  BY <1>1 DEF Last, Live, Late
<1>4. Cleared' /\ Current'
  BY <1>1, <1>3 DEF Alone, Cleared, Empty, Current, Late
<1>5. Single' /\ (slot' # 0 => srv'[slot'] # NoThread /\ fp' = Last')
  BY <1>1, <1>2, <1>3 DEF Alone, OneThread, Single, DoorInv, DoorTypeOK
<1>6. ASSUME NEW r \in Server, srv'[r] # NoThread PROVE ServesLast(r)'
  <2>1. r = s
    BY <1>2, <1>6 DEF Alone, OneThread, Single
  <2>2. srv'[r] = u
    BY <1>2, <2>1
  <2> QED
    BY <1>1, <1>3, <2>1, <2>2 DEF Alone, OneThread, ServesLast
<1> QED
  BY <1>4, <1>5, <1>6 DEF Alone, OneThread

LEMMA WorkAlone ==
  ASSUME DoorInv, Alone, NEW s \in Server, Work(s)
  PROVE  Alone'
<1> DEFINE t == srv[s]
<1>1. t # NoThread /\ t \in Thread /\ ServesLast(s)
  BY DEF Work, Bind, Accept, Refuse, Admit, Leave, Finish, Unlink, Free,
         DoorInv, DoorTypeOK, Alone, OneThread
<1>2. op # "inviting" /\ iface \in {0, token} /\ t.conn \in {0, token}
  BY <1>1 DEF Alone, Cleared, Empty, Current, ServesLast
<1>3. ASSUME NEW u \in Thread, OnlyThread(s, u), u.win = t.win, u.halted = t.halted,
             u.conn \in {0, token}, u.pc = "unlink" => ~t.win.standing
      PROVE  Alone'
  BY <1>1, <1>3, ThreadAlone
<1>4. ASSUME NEW pc \in {"accept", "closing", "unlink", "free"},
             OnlyThread(s, [t EXCEPT !.pc = pc]), pc = "unlink" => ~t.win.standing
      PROVE  Alone'
  <2>1. /\ [t EXCEPT !.pc = pc] \in Thread
        /\ [t EXCEPT !.pc = pc].win = t.win /\ [t EXCEPT !.pc = pc].halted = t.halted
        /\ [t EXCEPT !.pc = pc].conn = t.conn /\ [t EXCEPT !.pc = pc].pc = pc
    BY <1>1 DEF Thread
  <2> QED
    BY <1>2, <1>3, <1>4, <2>1
<1> HIDE DEF t
<1>5. CASE Bind(s) \/ Leave(s) \/ Finish(s)
  BY <1>4, <1>5 DEF Bind, Leave, Finish, EndsWindow, t
<1>6. CASE Accept(s)
  <2> DEFINE u == [t EXCEPT !.pc = "handle", !.conn = iface]
  <2>1. OnlyThread(s, u) /\ iface \in Token
    BY <1>6 DEF Accept, t, Token, DoorInv, DoorTypeOK
  <2>2. u \in Thread /\ u.win = t.win /\ u.halted = t.halted /\ u.conn = iface
        /\ u.pc = "handle"
    BY <1>1, <2>1 DEF Thread
  <2> HIDE DEF u
  <2> QED
    BY <1>2, <1>3, <2>1, <2>2
<1>7. CASE Refuse(s) \/ Admit(s)
  <2>1. PICK u \in {AfterFailure(t), AfterSuccess(t)} : t.pc = "handle" /\ OnlyThread(s, u)
    BY <1>7 DEF Refuse, Admit, t
  <2>2. MayTry(t)
    BY <1>1 DEF t, DoorInv, ThreadsOK
  <2>3. u \in Thread
    BY <1>1, <2>1, <2>2, ThreadSteps
  <2>4. u.win = t.win /\ u.halted = t.halted /\ u.conn = 0 /\ u.pc # "unlink"
    BY <1>1, <2>1 DEF AfterFailure, AfterSuccess, Thread
  <2> QED
    BY <1>3, <2>1, <2>3, <2>4
<1>8. CASE Unlink(s)
  <2>1. /\ window' = NoWindow
        /\ srv' = [srv EXCEPT ![s] = [t EXCEPT !.pc = "free"]]
        /\ UNCHANGED <<now, token, invite, op, iface, tick, seen, fp, slot>>
    BY <1>8 DEF Unlink, t, command, watcher
  <2>2. [t EXCEPT !.pc = "free"] \in Thread
    BY <1>1 DEF Thread
  <2> DEFINE u == [t EXCEPT !.pc = "free"]
  <2>3. u # NoThread /\ u.win = t.win /\ u.halted = t.halted /\ u.conn = t.conn
        /\ u.pc = "free"
    BY <1>1, <2>2, NoThreadIsNone DEF Thread
  <2>4. \A r \in Server : /\ srv'[r] = IF r = s THEN u ELSE srv[r]
                          /\ srv'[r] # NoThread <=> srv[r] # NoThread
    BY <1>1, <2>1, <2>3 DEF DoorInv, DoorTypeOK, t
  <2> HIDE DEF u
  <2>5. Last' = Last /\ ~Live(window)' /\ (\A w : Late(w)' = Late(w))
    BY <2>1 DEF Last, Live, Late
  <2>6. Cleared' /\ Current'
    BY <1>2, <2>1, <2>5 DEF Alone, Cleared, Current
  <2>7. Single' /\ (slot' # 0 => srv'[slot'] # NoThread /\ fp' = Last')
    BY <2>1, <2>4, <2>5 DEF Alone, OneThread, Single, DoorInv, DoorTypeOK
  <2>8. ASSUME NEW r \in Server, srv'[r] # NoThread PROVE ServesLast(r)'
    <3>1. srv'[r] = u /\ r = s
      BY <1>1, <2>4, <2>8 DEF Alone, OneThread, Single, t
    <3>2. slot = 0 => tick # "start"
      BY <1>1 DEF ServesLast
    <3> QED
      BY <1>1, <1>2, <2>1, <2>3, <2>5, <3>1, <3>2 DEF ServesLast, t
  <2> QED
    BY <2>6, <2>7, <2>8 DEF Alone, OneThread
<1>9. CASE Free(s)
  <2>1. /\ slot' = 0 /\ srv' = [srv EXCEPT ![s] = NoThread]
        /\ UNCHANGED <<now, token, invite, op, window, iface, tick, seen, fp>>
    BY <1>9 DEF Free, command
  <2>2. Empty'
    BY <1>1, <2>1 DEF Empty, Alone, OneThread, Single, DoorInv, DoorTypeOK, t
  <2>3. Last' = Last /\ (\A w : Late(w)' = Late(w))
    BY <2>1 DEF Last, Late
  <2> QED
    BY <1>2, <2>1, <2>2, <2>3 DEF Alone, Cleared, Current, OneThread, Single, Empty
<1> QED
  BY <1>5, <1>6, <1>7, <1>8, <1>9 DEF Work

LEMMA OperatorAlone ==
  ASSUME ~Overlap, DoorInv, Alone, Operator
  PROVE  Alone'
<1>1. CASE Erect
  BY <1>1 DEF Erect, Quiet, Alone, Cleared, Empty, Current, OneThread, Single,
              Last, Late, Live, watcher
<1>2. ASSUME NEW standing \in Kinds, NEW caps \in Caps, Publish(standing, caps)
      PROVE  Alone'
  <2>1. /\ op = "inviting" /\ op' = "idle" /\ token' = token + 1
        /\ window' = invite'[token + 1]
        /\ window'.standing => window'.secret = token + 1
        /\ UNCHANGED <<now, iface, tick, seen, fp, slot, srv>>
    <3>1. token + 1 \in Token
      BY <1>2 DEF Publish, DoorInv, DoorTypeOK, Room, Token
    <3>2. invite' = [invite EXCEPT ![token + 1] = window']
      BY <1>2 DEF Publish
    <3>3. window'.standing = standing /\ (standing => window'.secret = token + 1)
      BY <1>2 DEF Publish
    <3> QED
      BY <1>2, <3>1, <3>2, <3>3 DEF Publish, DoorInv, DoorTypeOK, watcher
  <2>2. Last' = window'
    BY <2>1 DEF Last, DoorInv, DoorTypeOK
  <2> QED
    BY <2>1, <2>2 DEF Alone, Cleared, Empty, Current, OneThread, Single
<1>3. CASE CloseWindow \/ CloseDoor
  <2>1. /\ UNCHANGED <<now, token, invite, watcher, srv>>
        /\ window' \in {window, NoWindow} /\ iface' \in {0, iface}
        /\ op # "inviting" /\ op' # "inviting"
    BY <1>3 DEF CloseWindow, CloseDoor
  <2>2. Last' = Last /\ (Live(window)' => Live(window)) /\ (\A w : Late(w)' = Late(w))
    BY <2>1 DEF Last, Live, Late
  <2> QED
    BY <2>1, <2>2 DEF Alone, Cleared, Current, OneThread, Single, ServesLast, watcher
<1> QED
  BY <1>1, <1>2, <1>3 DEF Operator

\* A tick starts a server only when there is none.
LEMMA StartsAlone ==
  ASSUME DoorInv, Alone, tick = "start", ~Serving
  PROVE  slot = 0 /\ Empty /\ Halt = srv /\ op # "inviting" /\ seen = Last /\ Last # NoWindow
<1>1. seen = Last /\ Last # NoWindow /\ op # "inviting"
  BY DEF Alone, Current, Cleared
<1>2. slot = 0 /\ Empty
  BY <1>1 DEF Serving, Alone, OneThread, ServesLast, Empty
<1> QED
  BY <1>1, <1>2 DEF Halt

LEMMA WatcherAlone ==
  ASSUME DoorInv, Alone, Watcher
  PROVE  Alone'
<1> USE DEF command, history
<1>1. CASE Look
  <2>1. /\ seen' = window /\ tick' = IF Live(window) THEN "start" ELSE "clear"
        /\ UNCHANGED <<now, token, invite, op, window, iface, fp, slot, srv>>
    BY <1>1 DEF Look
  <2>2. Last' = Last /\ Live(window)' = Live(window) /\ (\A w : Late(w)' = Late(w))
    BY <2>1 DEF Last, Live, Late
  <2>3. (Live(window) => window # NoWindow) /\ (window # NoWindow /\ ~Live(window) => Late(window))
    BY DEF Live, Late, DoorInv, DoorTypeOK, Window
  <2> QED
    BY <2>1, <2>2, <2>3 DEF Alone, Cleared, Empty, Current, OneThread, Single, ServesLast
<1>2. CASE Clear
  <2>1. /\ tick = "clear" /\ srv' = Halt /\ slot' = 0 /\ tick' = "destroy"
        /\ UNCHANGED <<now, token, invite, op, window, iface, seen, fp>>
    BY <1>2 DEF Clear
  <2>2. Last' = Last /\ Live(window)' = Live(window) /\ (\A w : Late(w)' = Late(w))
    BY <2>1 DEF Last, Live, Late
  <2>3. \A s \in Server : /\ srv'[s] # NoThread <=> srv[s] # NoThread
                          /\ srv[s] # NoThread =>
                               /\ srv'[s].win = srv[s].win /\ srv'[s].conn = srv[s].conn
                               /\ srv'[s].pc = srv[s].pc
    <3>1. CASE slot \in Server /\ srv[slot] # NoThread
      <4> DEFINE h == [srv[slot] EXCEPT !.halted = TRUE]
      <4>1. srv' = [srv EXCEPT ![slot] = h]
        BY <2>1, <3>1 DEF Halt, DoorInv, DoorTypeOK
      <4>2. srv[slot] \in Thread
        BY <3>1 DEF DoorInv, DoorTypeOK
      <4>3. /\ h \in Thread /\ h.win = srv[slot].win /\ h.conn = srv[slot].conn
            /\ h.pc = srv[slot].pc
        BY <4>2 DEF Thread
      <4>4. h # NoThread
        BY <4>3, NoThreadIsNone
      <4> HIDE DEF h
      <4> QED
        BY <3>1, <4>1, <4>3, <4>4 DEF DoorInv, DoorTypeOK
    <3>2. CASE ~(slot \in Server /\ srv[slot] # NoThread)
      BY <2>1, <3>2 DEF Halt
    <3> QED
      BY <3>1, <3>2
  <2>4. Cleared' /\ Current'
    BY <2>1, <2>2, <2>3 DEF Alone, Cleared, Empty, Current
  <2>5. OneThread'
    BY <2>1, <2>2, <2>3 DEF Alone, OneThread, Single, ServesLast
  <2> QED
    BY <2>4, <2>5 DEF Alone
<1>3. CASE Destroy \/ StartSkipped
  <2>1. /\ UNCHANGED <<now, token, invite, op, window, seen, slot, srv>>
        /\ \/ tick = "destroy" /\ iface' = 0 /\ tick' = IF seen = NoWindow THEN "idle" ELSE "unlink"
           \/ tick = "start" /\ Serving /\ tick' = "idle" /\ UNCHANGED <<iface, fp>>
    BY <1>3 DEF Destroy, StartSkipped
  <2>2. Last' = Last /\ Live(window)' = Live(window) /\ (\A w : Late(w)' = Late(w))
    BY <2>1 DEF Last, Live, Late
  <2> QED
    BY <2>1, <2>2 DEF Alone, Cleared, Empty, Current, OneThread, Single, ServesLast, Serving
<1>4. CASE UnlinkExpired
  <2>1. /\ tick = "unlink" /\ window' = NoWindow /\ tick' = "idle"
        /\ UNCHANGED <<now, token, invite, op, iface, seen, fp, slot, srv>>
    BY <1>4 DEF UnlinkExpired
  <2>2. Last' = Last /\ ~Live(window)'
    BY <2>1 DEF Last, Live
  <2> QED
    BY <2>1, <2>2 DEF Alone, Cleared, Empty, Current, OneThread, Single, ServesLast
<1>5. ASSUME NEW s \in Server, Start(s) PROVE Alone'
  <2>1. slot = 0 /\ Empty /\ Halt = srv /\ op # "inviting" /\ seen = Last /\ Last # NoWindow
    BY <1>5, StartsAlone DEF Start
  <2> DEFINE t == [pc |-> "start", win |-> seen, left |-> MaxAttempts,
                   halted |-> FALSE, conn |-> 0]
  <2>2. /\ srv' = [srv EXCEPT ![s] = t] /\ slot' = s /\ fp' = seen /\ tick' = "idle"
        /\ iface' = IF seen.standing /\ iface = 0 THEN seen.secret ELSE iface
        /\ UNCHANGED <<now, token, invite, op, window, seen>>
    BY <1>5, <2>1 DEF Start
  <2>3. t \in Thread
    BY <2>1 DEF Thread, Last, DoorInv, DoorTypeOK
  <2>4. t # NoThread /\ t.win = seen /\ ~t.halted /\ t.conn = 0 /\ t.pc = "start"
    BY <2>3, NoThreadIsNone
  <2> HIDE DEF t
  <2>5. \A r \in Server : srv'[r] = IF r = s THEN t ELSE NoThread
    BY <2>1, <2>2 DEF Empty, DoorInv, DoorTypeOK
  <2>6. Last' = Last
    BY <2>2 DEF Last
  <2>7. Cleared' /\ Current'
    BY <2>1, <2>2, <2>6 DEF Alone, Cleared, Current
  <2>8. OneThread'
    BY <2>1, <2>2, <2>4, <2>5, <2>6 DEF OneThread, Single, ServesLast
  <2> QED
    BY <2>7, <2>8 DEF Alone
<1>6. CASE StartFails
  <2>1. slot = 0 /\ Empty /\ Halt = srv /\ op # "inviting"
    BY <1>6, StartsAlone DEF StartFails
  <2>2. /\ srv' = srv /\ slot' = 0 /\ tick' = "idle"
        /\ UNCHANGED <<now, token, invite, op, window, iface, seen>>
    BY <1>6, <2>1 DEF StartFails
  <2> QED
    BY <2>1, <2>2 DEF Alone, Cleared, Empty, Current, OneThread, Single, Last
<1> QED
  BY <1>1, <1>2, <1>3, <1>4, <1>5, <1>6 DEF Watcher

LEMMA RestAlone ==
  ASSUME DoorInv, Alone, Restart \/ Tick \/ UNCHANGED vars
  PROVE  Alone'
<1>1. CASE Restart
  <2>1. /\ window' \in {window, NoWindow} /\ slot' = 0 /\ tick' = "idle" /\ Empty'
        /\ \/ UNCHANGED <<iface, op>>
           \/ iface' = 0 /\ op' = "idle"
        /\ UNCHANGED <<now, token, invite>>
    BY <1>1 DEF Restart, Empty
  <2> QED
    BY <2>1 DEF Alone, Cleared, Current, OneThread, Single, Empty, Last
<1>2. CASE Tick \/ UNCHANGED vars
  <2>1. /\ now' \in {now, now + 1} /\ now \in Nat
        /\ UNCHANGED <<token, invite, op, window, iface, tick, seen, fp, slot, srv>>
    BY <1>2 DEF Tick, vars, command, watcher, DoorInv, DoorTypeOK
  <2>2. Last' = Last
    BY <2>1 DEF Last
  <2>3. (Live(window)' => Live(window)) /\ (seen # NoWindow /\ Late(seen) => Late(seen)')
    BY <2>1 DEF Live, Late, DoorInv, DoorTypeOK, Window
  <2> QED
    BY <2>1, <2>2, <2>3 DEF Alone, Cleared, Empty, Current, OneThread, Single, ServesLast
<1> QED
  BY <1>1, <1>2

-----------------------------------------------------------------------------
(***************************************************************************)
(* What a timed token may still cost: one server, and one more while the   *)
(* window is there or a tick has read it.                                  *)
(***************************************************************************)
Again == tick = "start" \/ window # NoWindow

Timed == Last # NoWindow /\ ~Last.standing

\* No token is over its bounds, and one not yet printed has cost nothing.
Spent == \A i \in Token :
           /\ uses[i] <= 2 /\ fails[i] <= 2 * MaxAttempts
           /\ i > token => uses[i] = 0 /\ fails[i] = 0

\* A thread that may still enroll somebody.
Trying(s) ==
  /\ uses[token] <= 1 /\ fails[token] + srv[s].left <= 2 * MaxAttempts
  /\ Again => uses[token] = 0 /\ fails[token] + srv[s].left = MaxAttempts

\* A thread that ends while the window is there has a reason, and removes it.
Ending(s) ==
  window # NoWindow =>
    /\ srv[s].pc # "free"
    /\ \/ Late(window) \/ uses[token] > 0
       \/ fails[token] >= MaxAttempts \/ iface # token

Budget ==
  Timed =>
    /\ Again => uses[token] <= 1 /\ fails[token] <= MaxAttempts
    /\ Empty /\ window # NoWindow => uses[token] = 0 /\ fails[token] = 0
    /\ \A s \in Server : srv[s] # NoThread =>
         IF srv[s].pc \in {"start", "accept", "handle"} THEN Trying(s) ELSE Ending(s)

SafeInv == DoorInv /\ Alone /\ Spent /\ Budget

LEMMA LastTyped ==
  ASSUME DoorInv
  PROVE  /\ now \in Nat /\ token \in Nat
         /\ Last # NoWindow => /\ Last \in Window /\ token \in Token
                              /\ uses[token] \in Nat /\ fails[token] \in Nat
BY DEF DoorInv, DoorTypeOK, Last, Token

LEMMA OperatorSafe ==
  ASSUME ~Overlap, SafeInv, Operator
  PROVE  Spent' /\ Budget'
<1> USE DEF SafeInv
<1>1. UNCHANGED <<now, uses, fails, srv, tick>>
  BY DEF Operator, Erect, Publish, CloseWindow, CloseDoor, history, watcher
<1>2. CASE Erect
  <2>1. Empty /\ UNCHANGED <<token, invite, window>>
    BY <1>2 DEF Erect, Quiet, Empty
  <2>2. Spent'
    BY <1>1, <2>1 DEF Spent
  <2>3. Budget'
    BY <1>1, <2>1 DEF Budget, Timed, Again, Last, Empty
  <2> QED
    BY <2>2, <2>3
<1>3. ASSUME NEW standing \in Kinds, NEW caps \in Caps, Publish(standing, caps)
      PROVE  Spent' /\ Budget'
  <2>1. op = "inviting" /\ token' = token + 1 /\ token \in Nat /\ token' \in Token
    BY <1>3, LastTyped DEF Publish, DoorInv, DoorTypeOK, Room, Token
  <2>2. Empty'
    BY <1>1, <2>1 DEF Alone, Cleared, Empty
  <2>3. uses'[token'] = 0 /\ fails'[token'] = 0
    BY <1>1, <2>1 DEF Spent
  <2>4. Spent'
    BY <1>1, <2>1 DEF Spent, Token
  <2>5. Budget'
    BY <2>2, <2>3 DEF Budget, Empty
  <2> QED
    BY <2>4, <2>5
<1>4. CASE CloseWindow \/ CloseDoor
  <2>1. UNCHANGED <<token, invite>> /\ window' \in {window, NoWindow} /\ iface' \in {iface, 0}
    BY <1>4 DEF CloseWindow, CloseDoor
  <2>2. Last' = Last /\ (Again' => Again) /\ (\A w : Late(w)' = Late(w))
    BY <1>1, <2>1 DEF Last, Again, Late
  <2>3. Spent'
    BY <1>1, <2>1 DEF Spent
  <2>4. ASSUME Timed PROVE token # 0
    BY <2>4 DEF Timed, Last
  <2>5. Budget'
    BY <1>1, <2>1, <2>2, <2>4 DEF Budget, Timed, Empty, Trying, Ending
  <2> QED
    BY <2>3, <2>5
<1> QED
  BY <1>2, <1>3, <1>4 DEF Operator

LEMMA WatcherSafe ==
  ASSUME SafeInv, Watcher
  PROVE  Spent' /\ Budget'
<1> USE DEF SafeInv
<1>1. UNCHANGED <<now, uses, fails, token, invite>>
  BY DEF Watcher, Look, Clear, Destroy, UnlinkExpired, StartSkipped, StartFails, Start,
         history, command
<1>2. Spent'
  BY <1>1 DEF Spent
<1>3. Last' = Last /\ (\A w : Late(w)' = Late(w)) /\ (Timed => token # 0)
  BY <1>1 DEF Last, Late, Timed
<1>4. CASE Look \/ Destroy \/ UnlinkExpired \/ StartSkipped
  <2>1. /\ UNCHANGED srv /\ window' \in {window, NoWindow} /\ iface' \in {iface, 0}
        /\ Again' => Again
    BY <1>4 DEF Look, Destroy, UnlinkExpired, StartSkipped, Again, Live
  <2> QED
    BY <1>1, <1>2, <1>3, <2>1 DEF Budget, Timed, Empty, Trying, Ending
<1>5. CASE Clear
  <2>1. /\ srv' = Halt /\ UNCHANGED <<window, iface>> /\ (Again' => Again)
    BY <1>5 DEF Clear, Again
  <2>2. \A s \in Server : /\ srv'[s] # NoThread <=> srv[s] # NoThread
                          /\ srv[s] # NoThread =>
                               srv'[s].pc = srv[s].pc /\ srv'[s].left = srv[s].left
    <3>1. CASE slot \in Server /\ srv[slot] # NoThread
      <4> DEFINE h == [srv[slot] EXCEPT !.halted = TRUE]
      <4>1. srv' = [srv EXCEPT ![slot] = h]
        BY <2>1, <3>1 DEF Halt, DoorInv, DoorTypeOK
      <4>2. srv[slot] \in Thread
        BY <3>1 DEF DoorInv, DoorTypeOK
      <4>3. h \in Thread /\ h.pc = srv[slot].pc /\ h.left = srv[slot].left
        BY <4>2 DEF Thread
      <4>4. h # NoThread
        BY <4>3, NoThreadIsNone
      <4> HIDE DEF h
      <4> QED
        BY <3>1, <4>1, <4>3, <4>4 DEF DoorInv, DoorTypeOK
    <3>2. CASE ~(slot \in Server /\ srv[slot] # NoThread)
      BY <2>1, <3>2 DEF Halt
    <3> QED
      BY <3>1, <3>2
  <2>3. Budget'
    BY <1>1, <1>3, <2>1, <2>2 DEF Budget, Timed, Empty, Trying, Ending
  <2> QED
    BY <1>2, <2>3
<1>6. ASSUME NEW s \in Server, Start(s) PROVE Budget'
  <2>1. Empty /\ Halt = srv /\ Last # NoWindow /\ Again
    BY <1>6, StartsAlone DEF Start, Again
  <2> DEFINE t == [pc |-> "start", win |-> seen, left |-> MaxAttempts,
                   halted |-> FALSE, conn |-> 0]
  <2>2. srv' = [srv EXCEPT ![s] = t] /\ tick' = "idle" /\ UNCHANGED window
    BY <1>6, <2>1 DEF Start
  <2>3. t.pc = "start" /\ t.left = MaxAttempts
    OBVIOUS
  <2> HIDE DEF t
  <2>4. \A r \in Server : srv'[r] = IF r = s THEN t ELSE NoThread
    BY <2>1, <2>2 DEF Empty, DoorInv, DoorTypeOK
  <2>5. uses[token] \in Nat /\ fails[token] \in Nat /\ MaxAttempts \in Nat
    BY <2>1, LastTyped
  <2>6. ASSUME Timed PROVE /\ uses[token] <= 1 /\ fails[token] <= MaxAttempts
                           /\ window # NoWindow => uses[token] = 0 /\ fails[token] = 0
    BY <2>1, <2>6 DEF Budget
  <2>7. ASSUME Timed PROVE Trying(s)'
    BY <1>1, <2>2, <2>3, <2>4, <2>5, <2>6, <2>7 DEF Trying, Again
  <2>8. ASSUME Timed
        PROVE  /\ Again' => uses'[token'] <= 1 /\ fails'[token'] <= MaxAttempts
               /\ Empty' /\ window' # NoWindow => uses'[token'] = 0 /\ fails'[token'] = 0
    BY <1>1, <2>2, <2>6, <2>8 DEF Again
  <2>9. ASSUME Timed, NEW r \in Server, srv'[r] # NoThread
        PROVE  srv'[r].pc \in {"start", "accept", "handle"} /\ Trying(r)'
    <3>1. r = s
      BY <2>4, <2>9
    <3> QED
      BY <2>3, <2>4, <2>7, <2>9, <3>1
  <2> QED
    BY <1>3, <2>8, <2>9 DEF Budget, Timed
<1>7. CASE StartFails
  <2>1. seen = Last /\ seen.standing
    BY <1>7, StartsAlone DEF StartFails
  <2> QED
    BY <1>2, <1>3, <2>1 DEF Budget, Timed
<1> QED
  BY <1>2, <1>4, <1>5, <1>6, <1>7 DEF Watcher

LEMMA WorkSafe ==
  ASSUME SafeInv, NEW s \in Server, Work(s)
  PROVE  Spent' /\ Budget'
<1> USE DEF SafeInv
<1> DEFINE t == srv[s]
<1>1. /\ t \in Thread /\ t # NoThread /\ MayTry(t) /\ ServesLast(s)
      /\ \A r \in Server : srv[r] # NoThread => r = s
  BY DEF Work, Bind, Accept, Refuse, Admit, Leave, Finish, Unlink, Free,
         DoorInv, DoorTypeOK, ThreadsOK, Alone, OneThread, Single
<1>2. UNCHANGED <<now, token, invite, iface, tick>> /\ window' \in {window, NoWindow}
  BY DEF Work, Bind, Accept, Refuse, Admit, Leave, Finish, Unlink, Free, OnlyThread,
         command, watcher
<1>3. Last' = Last /\ (\A w : Late(w)' = Late(w)) /\ (Again' => Again)
  BY <1>2 DEF Last, Late, Again
<1>4. /\ Last # NoWindow /\ Last \in Window /\ token \in Token /\ token # 0
      /\ t.win = Last /\ t.left \in Nat /\ MaxAttempts \in Nat
      /\ uses[token] \in Nat /\ fails[token] \in Nat
  BY <1>1, LastTyped DEF ServesLast, Thread, Token
<1>5. t.halted /\ window # NoWindow => Late(window)
  BY <1>1, <1>4 DEF ServesLast, Live, Late, DoorInv, DoorTypeOK, Window
<1>6. window # NoWindow => window = Last
  BY DEF Alone, Current
<1>7. /\ \A r \in Server : srv'[r] # NoThread => r = s
      /\ \A u \in Thread : OnlyThread(s, u) => srv'[s] = u
  BY <1>1, NoThreadIsNone DEF Work, Bind, Accept, Refuse, Admit, Leave, Finish, Unlink,
         Free, OnlyThread, DoorInv, DoorTypeOK
\* It is enough to look at the thread itself.
<1>8. ASSUME Timed, srv'[s] # NoThread,
             Again' => uses'[token] <= 1 /\ fails'[token] <= MaxAttempts,
             IF srv'[s].pc \in {"start", "accept", "handle"} THEN Trying(s)' ELSE Ending(s)'
      PROVE  Budget'
  BY <1>2, <1>3, <1>7, <1>8 DEF Budget, Timed, Empty
<1>9. ASSUME ~Timed PROVE Budget'
  BY <1>3, <1>9 DEF Budget, Timed
<1>10. UNCHANGED <<uses, fails>> => Spent'
  BY <1>2 DEF Spent
<1>11. ASSUME Timed
       PROVE  /\ Again => uses[token] <= 1 /\ fails[token] <= MaxAttempts
              /\ t.pc \in {"start", "accept", "handle"} => Trying(s)
              /\ t.pc \notin {"start", "accept", "handle"} => Ending(s)
  BY <1>1, <1>11 DEF Budget
<1> HIDE DEF t
<1>12. CASE Bind(s)
  <2> DEFINE pc == IF iface # 0 /\ PortFree(s) THEN "accept" ELSE "closing"
  <2>1. /\ OnlyThread(s, [t EXCEPT !.pc = pc]) /\ UNCHANGED <<window, uses, fails>>
        /\ t.pc = "start"
    BY <1>12 DEF Bind, OnlyThread, history, t
  <2>2. PortFree(s)
    BY <1>1 DEF PortFree, Holds, NoThread
  <2>3. pc \in {"accept", "closing"} /\ (pc = "closing" => iface = 0)
    BY <2>2
  <2> HIDE DEF pc
  <2>4. [t EXCEPT !.pc = pc] \in Thread
    BY <1>1, <2>3 DEF Thread
  <2>5. srv'[s] = [t EXCEPT !.pc = pc]
    BY <1>7, <2>1, <2>4
  <2>6. srv'[s].pc = pc /\ srv'[s].left = t.left /\ srv'[s] # NoThread
    BY <1>1, <2>4, <2>5, NoThreadIsNone DEF Thread
  <2>7. ASSUME Timed PROVE IF pc = "accept" THEN Trying(s)' ELSE Ending(s)'
    <3>1. Trying(s)
      BY <1>11, <2>1, <2>7
    <3> QED
      BY <1>2, <1>3, <1>4, <2>1, <2>3, <2>6, <3>1 DEF Trying, Ending, t
  <2> QED
    BY <1>2, <1>3, <1>8, <1>9, <1>10, <1>11, <2>1, <2>3, <2>6, <2>7
<1>13. CASE Accept(s)
  <2> DEFINE u == [t EXCEPT !.pc = "handle", !.conn = iface]
  <2>1. /\ OnlyThread(s, u) /\ UNCHANGED <<window, uses, fails>>
        /\ t.pc = "accept" /\ iface \in Token
    BY <1>13 DEF Accept, OnlyThread, history, t, Token, DoorInv, DoorTypeOK
  <2>2. u \in Thread /\ u.pc = "handle" /\ u.left = t.left
    BY <1>1, <2>1 DEF Thread
  <2> HIDE DEF u
  <2>3. srv'[s] = u /\ u # NoThread
    BY <1>7, <2>1, <2>2, NoThreadIsNone
  <2>4. Timed => Trying(s)'
    BY <1>2, <1>3, <1>11, <2>1, <2>2, <2>3 DEF Trying, t
  <2> QED
    BY <1>2, <1>3, <1>8, <1>9, <1>10, <1>11, <2>1, <2>2, <2>3, <2>4
<1>14. CASE Leave(s) \/ Finish(s)
  <2>1. PICK pc \in {"closing", "unlink", "free"} :
          /\ OnlyThread(s, [t EXCEPT !.pc = pc]) /\ UNCHANGED <<window, uses, fails>>
          /\ \/ t.pc = "accept" /\ pc = "closing" /\ (t.halted \/ Late(t.win))
             \/ /\ t.pc = "closing"
                /\ pc = IF EndsWindow(t) THEN "unlink" ELSE "free"
    BY <1>14 DEF Leave, Finish, OnlyThread, history, t
  <2>2. [t EXCEPT !.pc = pc] \in Thread
    BY <1>1 DEF Thread
  <2>3. srv'[s] = [t EXCEPT !.pc = pc]
    BY <1>7, <2>1, <2>2
  <2>4. srv'[s].pc = pc /\ srv'[s] # NoThread
    BY <1>1, <2>2, <2>3, NoThreadIsNone DEF Thread
  <2>5. ASSUME Timed PROVE Ending(s)'
    <3>1. ASSUME window # NoWindow
          PROVE  /\ pc # "free"
                 /\ \/ Late(window) \/ uses[token] > 0
                    \/ fails[token] >= MaxAttempts \/ iface # token
      <4>1. CASE t.pc = "accept"
        BY <1>4, <1>5, <1>6, <2>1, <3>1, <4>1
      <4>2. CASE t.pc = "closing"
        <5>1. EndsWindow(t)
          BY <1>4, <1>6, <2>5, <3>1 DEF EndsWindow, Timed
        <5> QED
          BY <1>11, <2>1, <2>5, <3>1, <4>2, <5>1 DEF Ending
      <4> QED
        BY <2>1, <4>1, <4>2
    <3> QED
      BY <1>2, <1>3, <2>1, <2>4, <3>1 DEF Ending
  <2> QED
    BY <1>2, <1>3, <1>8, <1>9, <1>10, <1>11, <2>1, <2>4, <2>5
<1>15. CASE Unlink(s)
  <2>1. window' = NoWindow /\ UNCHANGED <<uses, fails>>
        /\ srv' = [srv EXCEPT ![s] = [t EXCEPT !.pc = "free"]]
    BY <1>15 DEF Unlink, history, t
  <2>2. [t EXCEPT !.pc = "free"] \in Thread /\ [t EXCEPT !.pc = "free"].pc = "free"
    BY <1>1 DEF Thread
  <2>3. srv'[s] = [t EXCEPT !.pc = "free"]
    BY <2>1, <2>2 DEF DoorInv, DoorTypeOK
  <2>4. srv'[s].pc = "free" /\ srv'[s] # NoThread /\ Ending(s)'
    BY <2>1, <2>2, <2>3, NoThreadIsNone DEF Ending
  <2> QED
    BY <1>2, <1>3, <1>8, <1>9, <1>10, <1>11, <2>1, <2>4
<1>16. CASE Free(s)
  <2>1. /\ UNCHANGED <<window, uses, fails>> /\ t.pc = "free"
        /\ srv' = [srv EXCEPT ![s] = NoThread]
    BY <1>16 DEF Free, history, t
  <2>2. Empty'
    BY <1>1, <2>1 DEF Empty, DoorInv, DoorTypeOK, t
  <2>3. Timed => window = NoWindow
    BY <1>11, <2>1 DEF Ending, t
  <2> QED
    BY <1>2, <1>3, <1>10, <1>11, <2>1, <2>2, <2>3 DEF Budget, Timed, Empty
<1>17. CASE Refuse(s)
  <2>1. /\ OnlyThread(s, AfterFailure(t)) /\ UNCHANGED <<window, uses>> /\ t.pc = "handle"
        /\ fails' = IF t.win.standing THEN fails ELSE [fails EXCEPT ![t.conn] = @ + 1]
    BY <1>17 DEF Refuse, OnlyThread, t
  <2>2. AfterFailure(t) \in Thread /\ t.conn = token /\ t.left > 0
    BY <1>1, <2>1, ThreadSteps DEF MayTry, ServesLast, t
  <2>3. srv'[s] = AfterFailure(t) /\ srv'[s] # NoThread
    BY <1>7, <2>1, <2>2, NoThreadIsNone
  <2>4. CASE ~Timed
    <3>1. UNCHANGED fails
      BY <1>4, <2>1, <2>4 DEF Timed
    <3> QED
      BY <1>9, <1>10, <2>1, <2>4, <3>1
  <2>5. CASE Timed
    <3>1. /\ fails' = [fails EXCEPT ![token] = @ + 1] /\ Trying(s)
      BY <1>4, <1>11, <2>1, <2>2, <2>5 DEF Timed
    <3>2. fails'[token] = fails[token] + 1 /\ (\A i \in Token \ {token} : fails'[i] = fails[i])
      BY <1>4, <3>1 DEF DoorInv, DoorTypeOK
    <3>3. /\ srv'[s].left = t.left - 1
          /\ srv'[s].pc = IF t.halted \/ t.left - 1 = 0 THEN "closing" ELSE "accept"
      BY <1>1, <1>4, <2>3, <2>5 DEF AfterFailure, Timed, Thread
    <3>4. Spent'
      <4>1. fails[token] + 1 <= 2 * MaxAttempts
        BY <1>4, <2>2, <3>1 DEF Trying, t
      <4> QED
        BY <1>2, <2>1, <3>2, <4>1, LastTyped DEF Spent, Token
    <3>5. Again' => uses'[token] <= 1 /\ fails'[token] <= MaxAttempts
      BY <1>3, <1>4, <2>1, <2>2, <3>1, <3>2 DEF Trying, t
    <3>6. CASE srv'[s].pc = "accept"
      <4>1. Trying(s)'
        BY <1>2, <1>3, <1>4, <2>1, <2>2, <3>1, <3>2, <3>3 DEF Trying, t
      <4> QED
        BY <1>8, <2>3, <2>5, <3>4, <3>5, <3>6, <4>1
    <3>7. CASE srv'[s].pc = "closing"
      <4>1. t.halted \/ t.left = 1
        BY <1>4, <3>3, <3>7
      <4>2. window # NoWindow => Late(window) \/ fails'[token] >= MaxAttempts
        BY <1>4, <1>5, <3>1, <3>2, <4>1 DEF Trying, Again, t
      <4>3. Ending(s)'
        BY <1>2, <1>3, <2>1, <3>7, <4>2 DEF Ending
      <4> QED
        BY <1>8, <2>3, <2>5, <3>4, <3>5, <3>7, <4>3
    <3> QED
      BY <3>3, <3>6, <3>7
  <2> QED
    BY <2>4, <2>5
<1>18. CASE Admit(s)
  <2>1. /\ OnlyThread(s, AfterSuccess(t)) /\ UNCHANGED <<window, fails>> /\ t.pc = "handle"
        /\ uses' = IF invite[t.conn].standing THEN uses ELSE [uses EXCEPT ![t.conn] = @ + 1]
    BY <1>18 DEF Admit, OnlyThread, t
  <2>2. AfterSuccess(t) \in Thread /\ t.conn = token /\ invite[token] = Last
    BY <1>1, <1>4, <2>1, ThreadSteps DEF MayTry, ServesLast, t, Last
  <2>3. srv'[s] = AfterSuccess(t) /\ srv'[s] # NoThread
    BY <1>7, <2>1, <2>2, NoThreadIsNone
  <2>4. CASE ~Timed
    <3>1. UNCHANGED uses
      BY <1>4, <2>1, <2>2, <2>4 DEF Timed
    <3> QED
      BY <1>9, <1>10, <2>1, <2>4, <3>1
  <2>5. CASE Timed
    <3>1. /\ uses' = [uses EXCEPT ![token] = @ + 1] /\ Trying(s)
      BY <1>11, <2>1, <2>2, <2>5 DEF Timed
    <3>2. uses'[token] = uses[token] + 1 /\ (\A i \in Token \ {token} : uses'[i] = uses[i])
      BY <1>4, <3>1 DEF DoorInv, DoorTypeOK
    <3>3. srv'[s].pc = "closing"
      BY <1>1, <1>4, <2>3, <2>5 DEF AfterSuccess, Timed, Thread
    <3>4. Spent'
      <4>1. uses[token] + 1 <= 2
        BY <1>4, <3>1 DEF Trying
      <4> QED
        BY <1>2, <2>1, <3>2, <4>1, LastTyped DEF Spent, Token
    <3>5. Again' => uses'[token] <= 1 /\ fails'[token] <= MaxAttempts
      BY <1>3, <1>4, <1>11, <2>1, <2>5, <3>1, <3>2 DEF Trying
    <3>6. Ending(s)'
      BY <1>2, <1>4, <3>2, <3>3 DEF Ending
    <3> QED
      BY <1>8, <2>3, <2>5, <3>3, <3>4, <3>5, <3>6
  <2> QED
    BY <2>4, <2>5
<1> QED
  BY <1>12, <1>13, <1>14, <1>15, <1>16, <1>17, <1>18 DEF Work

LEMMA RestSafe ==
  ASSUME SafeInv, Restart \/ Tick \/ UNCHANGED vars
  PROVE  Spent' /\ Budget'
<1> USE DEF SafeInv
<1>1. CASE Restart
  <2>1. /\ Empty' /\ UNCHANGED token
        /\ uses' = [i \in Token |-> 0] /\ fails' = [i \in Token |-> 0]
    BY <1>1 DEF Restart, Empty
  <2>2. Spent'
    BY <2>1 DEF Spent
  <2>3. Timed' => token' \in Token
    BY <1>1, LastTyped DEF Restart, Timed, Last
  <2> QED
    BY <2>1, <2>2, <2>3 DEF Budget, Empty
<1>2. CASE Tick \/ UNCHANGED vars
  <2>1. /\ now' \in {now, now + 1} /\ now \in Nat
        /\ UNCHANGED <<token, invite, window, iface, tick, srv, uses, fails>>
    BY <1>2 DEF Tick, vars, command, watcher, history, DoorInv, DoorTypeOK
  <2>2. window # NoWindow /\ Late(window) => Late(window)'
    BY <2>1 DEF Late, DoorInv, DoorTypeOK, Window
  <2>3. Last' = Last /\ Again' = Again
    BY <2>1 DEF Last, Again
  <2> QED
    BY <2>1, <2>2, <2>3 DEF Spent, Budget, Timed, Empty, Trying, Ending
<1> QED
  BY <1>1, <1>2

LEMMA SafeStep == ASSUME ~Overlap, SafeInv, [Next]_vars PROVE SafeInv'
<1>1. DoorInv'
  BY DoorStep DEF SafeInv
<1>2. CASE Operator
  BY <1>1, <1>2, OperatorAlone, OperatorSafe DEF SafeInv
<1>3. CASE Watcher
  BY <1>1, <1>3, WatcherAlone, WatcherSafe DEF SafeInv
<1>4. ASSUME NEW s \in Server, Work(s) PROVE SafeInv'
  BY <1>1, <1>4, WorkAlone, WorkSafe DEF SafeInv
<1>5. CASE Restart \/ Tick \/ UNCHANGED vars
  BY <1>1, <1>5, RestAlone, RestSafe DEF SafeInv
<1> QED
  BY <1>2, <1>3, <1>4, <1>5 DEF Next

LEMMA SafeInit == Init => SafeInv
BY DEF Init, SafeInv, DoorInv, DoorTypeOK, ThreadsOK, Room, HasRead, Alone, Cleared,
       Current, OneThread, Single, Empty, Spent, Budget, Timed, Last

LEMMA SafeInvariant == Spec => [](~Overlap => SafeInv)
<1> DEFINE I == ~Overlap => SafeInv
<1>1. Init => I
  BY SafeInit
<1>2. I /\ [Next]_vars => I'
  BY SafeStep
<1> QED
  BY <1>1, <1>2, PTL DEF Spec

\* Where an invite waits until nothing is left of the one before, a timed token
\* enrolls one node and one more at most in one life of the daemon, whatever the
\* watcher, the threads and the commands do meanwhile (EnrollServer closes on the
\* first success).  Each life counts for itself.
THEOREM TokenUsedUp == Spec => [](~Overlap => UsedUp)
<1>1. (~Overlap => SafeInv) => (~Overlap => UsedUp)
  BY DEF SafeInv, Spent, UsedUp
<1> QED
  BY <1>1, SafeInvariant, PTL

\* Under the same condition a token costs at most twice MaxAttempts failures in
\* one life of the daemon, although attempts_left is kept by each server for itself.
THEOREM TokenAttemptsBounded == Spec => [](~Overlap => AttemptsBounded)
<1>1. (~Overlap => SafeInv) => (~Overlap => AttemptsBounded)
  BY DEF SafeInv, Spent, AttemptsBounded
<1> QED
  BY <1>1, SafeInvariant, PTL

\* Under the same condition one server thread exists at a time.
THEOREM ServersExclude == Spec => [](~Overlap => Single)
<1>1. (~Overlap => SafeInv) => (~Overlap => Single)
  BY DEF SafeInv, Alone, OneThread
<1> QED
  BY <1>1, SafeInvariant, PTL

\* Under the same condition a window goes only by the operator's hand, with
\* the daemon, or because its own server or the clock ended it: no thread and
\* no tick of an earlier token removes it (on_done compares the expiry only).
THEOREM WindowsKept == ~Overlap /\ Spec => WindowKept
<1> SUFFICES ASSUME ~Overlap PROVE Spec => WindowKept
  OBVIOUS
<1>1. ASSUME SafeInv, [Next]_vars, window # NoWindow, window' = NoWindow
      PROVE  MayGo
  <2> USE DEF SafeInv
  <2>1. window = Last /\ Last # NoWindow
    BY <1>1 DEF Alone, Current
  <2>2. CASE Operator
    BY <1>1, <2>2 DEF Operator, Erect, Publish, CloseWindow, CloseDoor, NoWindow, MayGo
  <2>3. CASE Watcher
    <3>1. UnlinkExpired
      BY <1>1, <2>3 DEF Watcher, Look, Clear, Destroy, UnlinkExpired, StartSkipped,
                        StartFails, Start
    <3>2. seen = Last /\ Late(seen)
      BY <1>1, <3>1 DEF UnlinkExpired, Alone, Current
    <3> QED
      BY <2>1, <3>2 DEF MayGo, Late
  <2>4. ASSUME NEW s \in Server, Work(s) PROVE MayGo
    <3>1. Unlink(s)
      BY <1>1, <2>4 DEF Work, Bind, Accept, Refuse, Admit, Leave, Finish, Unlink, Free,
                        OnlyThread
    <3>2. srv[s] # NoThread /\ srv[s].pc = "unlink" /\ Timed
      BY <1>1, <2>1, <3>1 DEF Unlink, Timed, Alone, OneThread, ServesLast
    <3> QED
      BY <1>1, <2>1, <3>2 DEF Budget, Ending, Timed, MayGo
  <2>5. CASE Restart
    <3>1. lives' # lives
      BY <1>1, <2>5 DEF Restart, DoorInv, DoorTypeOK
    <3>2. ~window.standing
      BY <1>1, <2>1, <2>5 DEF Restart, EndsWindow, Alone, OneThread, ServesLast,
                              DoorInv, DoorTypeOK
    <3> QED
      BY <3>1, <3>2 DEF MayGo
  <2>6. CASE Tick \/ UNCHANGED vars
    BY <1>1, <2>6 DEF Tick, vars
  <2> QED
    BY <1>1, <2>2, <2>3, <2>4, <2>5, <2>6 DEF Next
<1>2. SafeInv /\ [Next]_vars
        => [(window # NoWindow /\ window' = NoWindow) => MayGo]_vars
  BY <1>1
<1>3. (~Overlap => SafeInv) => SafeInv
  OBVIOUS
<1> QED
  BY <1>2, <1>3, SafeInvariant, PTL DEF Spec, WindowKept
=============================================================================
