-------------------------------- MODULE Door --------------------------------
(***************************************************************************)
(* The enrollment door of a holder: the window file that gw invite writes  *)
(* and gw close-door removes, the DoorWatcher that polls it, the           *)
(* EnrollServer threads it starts, and the gw-door interface all of them   *)
(* raise and destroy.  Nothing but the watcher's lock orders them, and the *)
(* commands run in processes of their own.                                 *)
(*                                                                         *)
(* Tokens are numbered in the order they are issued.  One unit of "now" is *)
(* one second, the granularity of a window's expiry.  What an attempt does *)
(* to the membership is Membership's Enroll; here it succeeds or fails.    *)
(***************************************************************************)
EXTENDS Integers, FiniteSets

CONSTANTS
  Server,       \* EnrollServer threads that can exist at once
  Caps,         \* what an invite grants
  Kinds,        \* subset of BOOLEAN: is an invite standing
  Length,       \* cfg.door_window, in seconds
  MaxAttempts,  \* failed attempts that close a timed window
  Overlap,      \* may an invite be issued while an earlier one is not over
  MaxToken, MaxTime, MaxLives   \* bounds: tokens, clock, lives of the daemon

ASSUME ServerNonEmpty == Server # {} /\ 0 \notin Server
ASSUME KindsType == Kinds \subseteq BOOLEAN /\ Overlap \in BOOLEAN
ASSUME LengthPositive == Length \in Nat \ {0} /\ MaxAttempts \in Nat \ {0}
ASSUME DoorBounds == MaxToken \in Nat /\ MaxTime \in Nat /\ MaxLives \in Nat

Token == 1..MaxToken

\* door_window.json.  A standing window carries the guest key of its token
\* (its secret) and no expiry; a timed one carries an expiry and no key.
Window == [standing : BOOLEAN, expires : Nat, caps : Caps, secret : Token \cup {0}]

NoWindow == [absent |-> TRUE]

\* An EnrollServer: where its thread is, the window it was started for, the
\* attempts left, whether stop() was called, the token of its connection.
Thread == [pc : {"start", "accept", "handle", "closing", "unlink", "free"},
           win : Window, left : 0..MaxAttempts, halted : BOOLEAN,
           conn : Token \cup {0}]

NoThread == [pc |-> "none"]

VARIABLES
  now,      \* the clock
  token,    \* number of tokens printed so far
  invite,   \* history: token -> the window it was printed for
  window,   \* door_window.json
  iface,    \* gw-door: the token whose guest key it accepts, 0 when down
  op,       \* the operator's command in progress: invite or close-door
  tick,     \* DoorWatcher: what its tick does next
  seen,     \* DoorWatcher: the window this tick read
  fp,       \* DoorWatcher._window_fp
  slot,     \* DoorWatcher._enroll, 0 when None
  srv,      \* server -> its thread
  lives,    \* starts of the daemon
  uses,     \* history: token -> enrollments through it, in this life
  fails,    \* history: token -> failed attempts through it, in this life
  granted   \* history: pairs of a token and the caps it enrolled with

vars == <<now, token, invite, window, iface, op, tick, seen, fp, slot, srv,
          lives, uses, fails, granted>>
command == <<token, invite, op>>
watcher == <<tick, seen, fp, slot>>
history == <<uses, fails, granted>>

-----------------------------------------------------------------------------
(* Windows and ports *)

\* Window.live
Live(w) == w # NoWindow /\ (w.standing \/ now < w.expires)

\* EnrollServer._serve: the deadline of a timed window has passed.
Late(w) == ~w.standing /\ now >= w.expires

\* The listening socket of a thread exists.  close() does not free the port
\* while the thread still polls accept(), for up to two seconds.
Holds(t) == t.pc = "accept" \/ (t.pc = "handle" /\ ~t.halted)

PortFree(s) == \A t \in Server \ {s} : ~Holds(srv[t])

\* EnrollServer.stop of the server in the slot.
Halt == IF slot \in Server /\ srv[slot] # NoThread
          THEN [srv EXCEPT ![slot].halted = TRUE]
          ELSE srv

\* Faulty variant: on_done never takes the window for its own session's.
EndsNoWindow(t) == FALSE

\* on_done of a timed session recognizes its own window by the expiry.
EndsWindow(t) == /\ ~t.win.standing
                 /\ window # NoWindow
                 /\ window.expires = t.win.expires

-----------------------------------------------------------------------------
(* The operator's commands *)

\* Nothing is left of the door's earlier sessions.
Quiet == /\ window = NoWindow
         /\ tick = "idle"
         /\ slot = 0
         /\ \A s \in Server : srv[s] = NoThread

\* gw invite raises a fresh gw-door for the new token's guest key ...
Erect == /\ op = "idle"
         /\ token < MaxToken
         /\ Overlap \/ Quiet
         /\ iface' = token + 1
         /\ op' = "inviting"
         /\ UNCHANGED <<now, token, invite, window, watcher, srv, lives, history>>

\* ... then writes the window over whatever is there, and prints the token.
Publish(standing, caps) ==
  /\ op = "inviting"
  /\ LET w == [standing |-> standing,
               expires |-> IF standing THEN 0 ELSE now + Length,
               caps |-> caps,
               secret |-> IF standing THEN token + 1 ELSE 0]
     IN /\ window' = w
        /\ invite' = [invite EXCEPT ![token + 1] = w]
  /\ token' = token + 1
  /\ op' = "idle"
  /\ UNCHANGED <<now, iface, watcher, srv, lives, history>>

\* gw close-door removes the window file ...
CloseWindow == /\ op = "idle"
               /\ window' = NoWindow
               /\ op' = "closing"
               /\ UNCHANGED <<now, token, invite, iface, watcher, srv, lives, history>>

\* ... then takes the interface down.
CloseDoor == /\ op = "closing"
             /\ iface' = 0
             /\ op' = "idle"
             /\ UNCHANGED <<now, token, invite, window, watcher, srv, lives, history>>

-----------------------------------------------------------------------------
(* DoorWatcher *)

\* Faulty variant: without a window there is nothing to do.
LookIgnoresMissing ==
  /\ tick = "idle"
  /\ seen' = window
  /\ tick' = IF window = NoWindow THEN "idle" ELSE IF Live(window) THEN "start" ELSE "clear"
  /\ UNCHANGED <<now, command, window, iface, fp, slot, srv, lives, history>>

\* A tick reads the window file.  (A file that goes between exists() and the
\* read, or does not parse, ends the tick without an effect.)
Look == /\ tick = "idle"
        /\ seen' = window
        /\ tick' = IF Live(window) THEN "start" ELSE "clear"
        /\ UNCHANGED <<now, command, window, iface, fp, slot, srv, lives, history>>

\* No live window: _clear_enroll stops the server ...
Clear == /\ tick = "clear"
         /\ srv' = Halt
         /\ slot' = 0
         /\ tick' = "destroy"
         /\ UNCHANGED <<now, command, window, iface, seen, fp, lives, history>>

\* ... and destroys gw-door, whoever raised it.
Destroy == /\ tick = "destroy"
           /\ iface' = 0
           /\ fp' = NoWindow
           /\ tick' = IF seen = NoWindow THEN "idle" ELSE "unlink"
           /\ UNCHANGED <<now, command, window, seen, slot, srv, lives, history>>

\* An expired window is then removed, by its path.
UnlinkExpired == /\ tick = "unlink"
                 /\ window' = NoWindow
                 /\ tick' = "idle"
                 /\ UNCHANGED <<now, command, iface, seen, fp, slot, srv, lives, history>>

\* Faulty variant: the fingerprint alone tells that a window is served.
SeenBefore == seen = fp

\* A server runs, and the window it runs for is not superseded.
Serving == slot # 0 /\ seen = fp

StartSkipped == /\ tick = "start"
                /\ Serving
                /\ tick' = "idle"
                /\ UNCHANGED <<now, command, window, iface, seen, fp, slot, srv, lives, history>>

\* _stop_server of a superseded session and _start_server for the window read
\* at the beginning of the tick.  A standing door is raised again when a
\* reboot took gw-door.
Start(s) == /\ tick = "start"
            /\ ~Serving
            /\ srv[s] = NoThread
            /\ srv' = [Halt EXCEPT ![s] =
                 [pc |-> "start", win |-> seen, left |-> MaxAttempts,
                  halted |-> FALSE, conn |-> 0]]
            /\ slot' = s
            /\ fp' = seen
            /\ iface' = IF seen.standing /\ iface = 0 THEN seen.secret ELSE iface
            /\ tick' = "idle"
            /\ UNCHANGED <<now, command, window, seen, lives, history>>

\* Raising it fails: no server, although the fingerprint is taken.
StartFails == /\ tick = "start"
              /\ ~Serving
              /\ seen.standing /\ iface = 0
              /\ srv' = Halt
              /\ slot' = 0
              /\ fp' = seen
              /\ tick' = "idle"
              /\ UNCHANGED <<now, command, window, iface, seen, lives, history>>

-----------------------------------------------------------------------------
(* EnrollServer *)

OnlyThread(s, t) ==
  /\ srv' = [srv EXCEPT ![s] = t]
  /\ UNCHANGED <<now, command, window, iface, watcher, lives>>

\* bind and listen: they need the address of gw-door, and the port.
Bind(s) == /\ srv[s] # NoThread /\ srv[s].pc = "start"
           /\ OnlyThread(s, [srv[s] EXCEPT !.pc =
                IF iface # 0 /\ PortFree(s) THEN "accept" ELSE "closing"])
           /\ UNCHANGED history

\* A joiner with a printed token connects over gw-door, within the deadline.
Accept(s) == /\ srv[s] # NoThread /\ srv[s].pc = "accept"
             /\ ~srv[s].halted
             /\ ~Late(srv[s].win)
             /\ iface \in 1..token
             /\ OnlyThread(s, [srv[s] EXCEPT !.pc = "handle", !.conn = iface])
             /\ UNCHANGED history

\* Faulty variant: the first failed attempt ends the window.
FirstFailureEnds(t) == [t EXCEPT !.left = @ - 1, !.conn = 0, !.pc = "closing"]

\* Faulty variant: a failed attempt costs nothing.
FailureIsFree(t) == [t EXCEPT !.conn = 0, !.pc = IF t.halted THEN "closing" ELSE "accept"]

\* Faulty variant: a standing door counts failures without an end.
CountsForEver(t) == [t EXCEPT !.left = @ - 1, !.conn = 0, !.pc =
  IF t.halted \/ (~t.win.standing /\ t.left = 1) THEN "closing" ELSE "accept"]

\* A thread after a failed attempt: only a timed window counts it.
AfterFailure(t) ==
  LET left == IF t.win.standing THEN t.left ELSE t.left - 1
  IN [t EXCEPT !.left = left, !.conn = 0,
               !.pc = IF t.halted \/ left = 0 THEN "closing" ELSE "accept"]

\* A thread after an enrollment: a standing door stays open.
AfterSuccess(t) ==
  [t EXCEPT !.conn = 0,
            !.pc = IF t.win.standing /\ ~t.halted THEN "accept" ELSE "closing"]

\* The attempt fails: malformed, refused by the CA, not installable, or an
\* error on the connection.
Refuse(s) == /\ srv[s] # NoThread /\ srv[s].pc = "handle"
             /\ fails' = IF srv[s].win.standing THEN fails
                         ELSE [fails EXCEPT ![srv[s].conn] = @ + 1]
             /\ OnlyThread(s, AfterFailure(srv[s]))
             /\ UNCHANGED <<uses, granted>>

\* The attempt succeeds: a credential with the caps of the server's window.
Admit(s) == /\ srv[s] # NoThread /\ srv[s].pc = "handle"
            /\ uses' = IF invite[srv[s].conn].standing THEN uses
                       ELSE [uses EXCEPT ![srv[s].conn] = @ + 1]
            /\ granted' = granted \cup {<<srv[s].conn, srv[s].win.caps>>}
            /\ OnlyThread(s, AfterSuccess(srv[s]))
            /\ UNCHANGED fails

\* The accept loop sees that it is stopped, or past its deadline.
Leave(s) == /\ srv[s] # NoThread /\ srv[s].pc = "accept"
            /\ srv[s].halted \/ Late(srv[s].win)
            /\ OnlyThread(s, [srv[s] EXCEPT !.pc = "closing"])
            /\ UNCHANGED history

\* The thread ends: on_done reads the window file ...
Finish(s) == /\ srv[s] # NoThread /\ srv[s].pc = "closing"
             /\ OnlyThread(s, [srv[s] EXCEPT !.pc =
                  IF EndsWindow(srv[s]) THEN "unlink" ELSE "free"])
             /\ UNCHANGED history

\* ... removes it, by its path ...
Unlink(s) == /\ srv[s] # NoThread /\ srv[s].pc = "unlink"
             /\ window' = NoWindow
             /\ srv' = [srv EXCEPT ![s].pc = "free"]
             /\ UNCHANGED <<now, command, iface, watcher, lives, history>>

\* ... and empties the slot, whoever is in it.
Free(s) == /\ srv[s] # NoThread /\ srv[s].pc = "free"
           /\ slot' = 0
           /\ srv' = [srv EXCEPT ![s] = NoThread]
           /\ UNCHANGED <<now, command, window, iface, tick, seen, fp, lives, history>>

-----------------------------------------------------------------------------
(* The daemon and the clock *)

\* The daemon stops and starts again, with or without a reboot, which takes
\* gw-door and the operator's command with it.  A server stopped at shutdown
\* may or may not reach on_done.
Restart == /\ lives < MaxLives
           /\ lives' = lives + 1
           /\ \/ UNCHANGED window
              \/ /\ slot # 0 /\ srv[slot] # NoThread /\ EndsWindow(srv[slot])
                 /\ window' = NoWindow
           /\ \/ UNCHANGED <<iface, op>>
              \/ iface' = 0 /\ op' = "idle"
           /\ srv' = [s \in Server |-> NoThread]
           /\ slot' = 0 /\ tick' = "idle" /\ seen' = NoWindow /\ fp' = NoWindow
           /\ uses' = [i \in Token |-> 0] /\ fails' = [i \in Token |-> 0]
           /\ UNCHANGED <<now, token, invite, granted>>

Tick == /\ now < MaxTime
        /\ now' = now + 1
        /\ UNCHANGED <<command, window, iface, watcher, srv, lives, history>>

Init == /\ now = 0 /\ token = 0 /\ op = "idle"
        /\ invite = [i \in Token |-> NoWindow]
        /\ window = NoWindow /\ iface = 0
        /\ tick = "idle" /\ seen = NoWindow /\ fp = NoWindow /\ slot = 0
        /\ srv = [s \in Server |-> NoThread]
        /\ lives = 0
        /\ uses = [i \in Token |-> 0] /\ fails = [i \in Token |-> 0]
        /\ granted = {}

Operator == \/ Erect
            \/ \E standing \in Kinds, caps \in Caps : Publish(standing, caps)
            \/ CloseWindow
            \/ CloseDoor

Watcher == \/ Look \/ Clear \/ Destroy \/ UnlinkExpired
           \/ StartSkipped \/ StartFails
           \/ \E s \in Server : Start(s)

Work(s) == \/ Bind(s) \/ Accept(s) \/ Refuse(s) \/ Admit(s) \/ Leave(s)
           \/ Finish(s) \/ Unlink(s) \/ Free(s)

Next == \/ Operator
        \/ Watcher
        \/ \E s \in Server : Work(s)
        \/ Restart
        \/ Tick

Spec == Init /\ [][Next]_vars

\* The watcher's loop ticks for ever, raising gw-door does not fail for ever,
\* a thread goes on except that a joiner may never come, and a command that
\* began ends.
Fairness ==
  /\ WF_vars(Look) /\ WF_vars(Clear) /\ WF_vars(Destroy) /\ WF_vars(UnlinkExpired)
  /\ WF_vars(StartSkipped)
  /\ SF_vars(\E s \in Server : Start(s))
  /\ \A s \in Server : /\ WF_vars(Bind(s)) /\ WF_vars(Refuse(s) \/ Admit(s))
                       /\ WF_vars(Leave(s)) /\ WF_vars(Finish(s))
                       /\ WF_vars(Unlink(s)) /\ WF_vars(Free(s))
  /\ WF_vars(CloseDoor)
  /\ WF_vars(\E standing \in Kinds, caps \in Caps : Publish(standing, caps))

FairSpec == Spec /\ Fairness

-----------------------------------------------------------------------------
(* Properties *)

\* Types of all variables (door.py and enroll.py keep these shapes).
DoorTypeOK ==
  /\ now \in 0..MaxTime /\ token \in 0..MaxToken
  /\ invite \in [Token -> Window \cup {NoWindow}]
  /\ window \in Window \cup {NoWindow}
  /\ iface \in 0..MaxToken
  /\ op \in {"idle", "inviting", "closing"}
  /\ tick \in {"idle", "start", "clear", "destroy", "unlink"}
  /\ seen \in Window \cup {NoWindow} /\ fp \in Window \cup {NoWindow}
  /\ slot \in Server \cup {0}
  /\ srv \in [Server -> Thread \cup {NoThread}]
  /\ lives \in 0..MaxLives
  /\ uses \in [Token -> Nat] /\ fails \in [Token -> Nat]
  /\ granted \subseteq Token \X Caps

\* In one life of the daemon a single-use token enrolls one node (EnrollServer
\* closes the window on the first success), and one more at most: a tick that
\* read the window before on_done removed it may serve it once again after on_done
\* emptied the slot.  A daemon that dies between an enrollment and the removal of
\* the window leaves the token to the next life: Restart counts anew.
UsedUp == \A i \in Token : uses[i] <= 2

\* The same for failed attempts in one life of the daemon: attempts_left is per
\* server.
AttemptsBounded == \A i \in Token : fails[i] <= 2 * MaxAttempts

\* A window goes before its expiry only when the operator removes it, the
\* daemon stops, or its server ended it: after an enrollment, after
\* MaxAttempts failures, or because gw-door is not the one of its token.
\* A standing one only by the operator's hand (on_done, UnlinkExpired).
MayGo == \/ op' = "closing"
         \/ /\ ~window.standing
            /\ \/ Late(window)
               \/ uses[token] > 0
               \/ fails[token] >= MaxAttempts
               \/ iface # token
               \/ lives' # lives
WindowKept == [][(window # NoWindow /\ window' = NoWindow) => MayGo]_vars

\* A server listens on gw-door raised for token i.
Answers(i) == iface = i /\ \E s \in Server : srv[s] # NoThread /\ srv[s].pc = "accept"

\* A token whose window is gone is dead in the end, for good, whichever of
\* the commands, ticks and threads still ran (close-door promises it at once;
\* a tick that read the window before may raise the door again).
DeadForGood == \A i \in Token : (token = i /\ ~Live(window)) ~> [](~Answers(i))

\* A live window is being served in the end, by a server of its own, or it is
\* gone (the watcher retries what failed and survives restarts).
Served == \A i \in Token :
  (token = i /\ Live(window)) ~>
    \/ token # i \/ ~Live(window)
    \/ iface = i /\ \E s \in Server :
         srv[s] # NoThread /\ srv[s].pc = "accept" /\ srv[s].win = window

\* What CHANGELOG.md:300 says: when an invite supersedes the window, the
\* watcher rebinds the server: a server it starts gets the port as long as
\* gw-door is up.
RebindWorks ==
  [][\A s \in Server :
       (srv[s] # NoThread /\ srv[s].pc = "start" /\ iface # 0)
         => (srv'[s] # NoThread => srv'[s].pc # "closing")]_vars

\* What cmd_invite says (bootstrap.py:375): the caps decided at the invite are
\* issued to whoever redeems its token.
TermsMatch == \A i \in Token, c \in Caps : <<i, c>> \in granted => c = invite[i].caps
=============================================================================
