----------------------------- MODULE HostProofs -----------------------------
(***************************************************************************)
(* Theorems about Host, for any number of commands, faults and renames of  *)
(* foreign meshes: what the commands leave behind is whole, is known by    *)
(* one identity, and is nobody else's.  One lemma per action of Host.      *)
(***************************************************************************)
EXTENDS Host, FiniteSetTheorems, TLAPS

\* What the operator is asked for (Careful), no cut in the middle of a rename,
\* and no two meshes of one name to begin with.
Kept ==
    /\ Careful
    /\ {"rename link", "rename config", "rename drop"} \subseteq Frail
    /\ \A c, d \in Foreign : Called[c] = Called[d] => c = d

\* A command in progress.
Op == [pc : {"create keys", "create config", "create issue", "enable",
             "join keys", "join door", "join config",
             "leave ask", "leave stop", "leave link", "leave hosts",
             "purge stop", "purge stray", "purge link", "purge data",
             "purge config", "purge hosts",
             "rename stop", "rename data", "rename link", "rename config",
             "rename drop", "rename grace"},
       at : Names, cfg : Conf, new : Names]

\* The config c is of the membership whose file carries the name n; only the mesh
\* made here has its anchor here.
Fits(c, n) ==
    /\ c.name = n /\ c.dir = n /\ c.link = LinkOf[n]
    /\ c.anchor => c.mesh = Own

In(pcs) == op # Idle /\ op.pc \in pcs
Has(n) == data[n] # NoDir

\* Everything of a membership carries the name of its config file.
Named ==
    /\ \A n \in Names : Exists(n) => Fits(conf[n], n)
    /\ \A n \in Names : run[n] # NotRunning => Fits(run[n], n)
    /\ \A n \in Names : hand[n] # NotRunning => Fits(hand[n], n)

\* A unit is whole, a daemon has a config, an interface has an owner.
Whole ==
    /\ \A n \in Names : unit[n] => Exists(n) /\ Has(n)
    /\ \A n \in Names : run[n] # NotRunning \/ hand[n] # NotRunning => Exists(n)
    /\ \A m, n \in Names : m # n /\ Exists(m) /\ Exists(n) => LinkOf[m] # LinkOf[n]
    /\ \A l \in links : \/ \E n \in Names : Exists(n) /\ LinkOf[n] = l
                        \/ In({"rename config"}) /\ l = LinkOf[op.new]

\* The identities: one in a directory, and one directory with the anchor file.
Identities ==
    /\ ids \in 0..MaxIds
    /\ \A n \in Names : Has(n) => data[n].id <= ids /\ data[n].id \notin gone
    /\ \A i \in gone : i <= ids
    /\ \A p \in known : p[2] <= ids
    /\ \A m, n \in Names : Has(m) /\ Has(n) /\ data[m].id = data[n].id => m = n
    /\ \A m, n \in Names : Has(m) /\ Has(n) /\ data[m].root /\ data[n].root => m = n

\* The directory in which the identity that c knows as i is kept: of a membership
\* of c, of a join of c that did not end, or of an anchor that was made on top.
Seat(c, d) ==
    IF In({"rename link", "rename config"}) /\ d = op.new
    THEN op.cfg.mesh = c \/ data[d].root
    ELSE \/ Exists(d) /\ (conf[d].mesh = c \/ data[d].root)
         \/ ~Exists(d) /\ title[c] = d

\* Every identity a mesh knows and no purge erased is kept here, and is its only
\* one, if no join of it was overtaken by a new name.
Seated ==
    /\ \A p \in known : p[1] \notin strayed /\ p[2] \notin gone =>
         \E d \in Names : /\ Has(d) /\ data[d].id = p[2]
                          /\ IF p[1] = Own THEN data[d].root ELSE Seat(p[1], d)
    /\ \A c \in Meshes \ strayed, i, j \in 1..MaxIds :
         <<c, i>> \in known /\ i \notin gone /\ <<c, j>> \in known /\ j \notin gone => i = j
    /\ \A m, n \in Names :
         Exists(m) /\ Exists(n) /\ conf[m].mesh = conf[n].mesh /\ conf[m].mesh # Own
           => m = n \/ (In({"rename drop"}) /\ op.at \in {m, n})

\* No two meshes have one name.
Titles ==
    /\ \A c \in Foreign : title[c] \in Names
    /\ \A c, d \in Foreign : title[c] = title[d] => c = d

\* The interface of n is nobody else's.
Alone(n) == \A m \in Names \ {n} : Exists(m) => LinkOf[m] # LinkOf[n]
\* No unit and no daemon of one; none run by hand either.
Stopped(n) == ~unit[n] /\ run[n] = NotRunning
Quiet(n) == Stopped(n) /\ hand[n] = NotRunning

\* What the command in progress relies on, step by step.
CreateOK ==
    /\ In({"create keys", "create config", "create issue"}) =>
         /\ op.cfg.mesh = Own /\ op.new = op.at /\ Alone(op.at)
         /\ \A m \in Names \ {op.at} : Has(m) => ~data[m].root
    /\ In({"create config", "create issue"}) => Has(op.at) /\ data[op.at].root
    /\ In({"create issue"}) => Exists(op.at)
    /\ In({"enable"}) => Exists(op.new) /\ Has(op.new)
JoinOK ==
    /\ In({"join keys", "join door", "join config"}) =>
         /\ op.cfg.mesh \in Foreign /\ op.new = op.at /\ Alone(op.at)
         /\ op.cfg.mesh \in strayed \/ title[op.cfg.mesh] = op.at
         /\ \A m \in Names : Exists(m) => /\ conf[m].mesh = op.cfg.mesh <=> m = op.at
                                          /\ Has(m) => ~data[m].root
         /\ Has(op.at) /\ ~Exists(op.at) =>
              \A c \in Foreign \ (strayed \cup {op.cfg.mesh}) : <<c, data[op.at].id>> \notin known
    /\ In({"join door", "join config"}) => Has(op.at)
LeaveOK ==
    In({"leave ask", "leave stop", "leave link", "leave hosts"}) => Exists(op.at)
PurgeOK ==
    /\ In({"purge stop", "purge stray", "purge link", "purge data", "purge config"}) =>
         Exists(op.at)
    /\ In({"purge stray"}) => Stopped(op.at)
    /\ In({"purge link", "purge data", "purge config"}) => Quiet(op.at)
    /\ In({"purge data", "purge config"}) => LinkOf[op.at] \notin links
    /\ In({"purge config"}) => ~Has(op.at)
RenameOK ==
    /\ In({"rename stop", "rename data", "rename link", "rename config", "rename drop"}) =>
         /\ op.new # op.at /\ Exists(op.at) /\ conf[op.at] = op.cfg
    /\ In({"rename stop", "rename data", "rename link", "rename config"}) =>
         ~Exists(op.new) /\ Alone(op.new)
    /\ In({"rename stop", "rename data"}) => ~Has(op.new)
    /\ In({"rename stop"}) => hand[op.at] = NotRunning
    /\ In({"rename data", "rename link", "rename config", "rename drop"}) => Quiet(op.at)
    /\ In({"rename link", "rename config", "rename drop", "rename grace"}) => Has(op.new)
    /\ In({"rename link", "rename config", "rename drop"}) => ~Has(op.at)
    /\ In({"rename config", "rename drop"}) => LinkOf[op.at] \notin links
    /\ In({"rename drop", "rename grace"}) => Exists(op.new)
OpOK ==
    /\ op = Idle \/ (op \in Op /\ Fits(op.cfg, op.at))
    /\ CreateOK /\ JoinOK /\ LeaveOK /\ PurgeOK /\ RenameOK

HostInv == HostTypeOK /\ Named /\ Whole /\ Identities /\ Seated /\ Titles /\ OpOK

USE LinksAssumption, MeshesAssumption, HostBounds

-----------------------------------------------------------------------------
(* What the parts of an action do *)

LEMMA Distinct ==
  /\ \A c \in Conf : c # NoConf /\ c # NotRunning
  /\ \A d \in Dir : d # NoDir
  /\ \A o \in Op : o # Idle
<1>1. \A c \in Conf : c # NoConf /\ c # NotRunning
  BY DEF Conf, NoConf, NotRunning
<1>2. \A d \in Dir : d # NoDir
  BY DEF Dir, NoDir
<1>3. ASSUME NEW o \in Op PROVE o # Idle
  <2>1. o.pc # "idle"
    BY DEF Op
  <2> QED
    BY <2>1 DEF Idle
<1> QED
  BY <1>1, <1>2, <1>3

\* The command at a step of its own: its name, its config, its new name.
LEMMA AtStep ==
  ASSUME HostInv, NEW p, op.pc = p, p # "idle"
  PROVE  /\ op \in Op /\ op # Idle /\ Fits(op.cfg, op.at)
         /\ op.at \in Names /\ op.new \in Names /\ op.cfg \in Conf
         /\ In({p})
<1>1. op # Idle
  BY DEF Idle
<1>2. op \in Op /\ Fits(op.cfg, op.at)
  BY <1>1 DEF HostInv, OpOK
<1> QED
  BY <1>1, <1>2 DEF Op, In

LEMMA GotoDoes ==
  ASSUME op \in Op, NEW p, Goto(p), [op EXCEPT !.pc = p] \in Op
  PROVE  /\ op' \in Op /\ op' # Idle /\ op'.pc = p
         /\ op'.at = op.at /\ op'.cfg = op.cfg /\ op'.new = op.new
BY Distinct DEF Goto, Op

LEMMA KeysInDoes ==
  ASSUME HostInv, NEW d \in Names, NEW root \in BOOLEAN, KeysIn(d, root)
  PROVE  /\ data' \in [Names -> Dir \cup {NoDir}]
         /\ \A n \in Names \ {d} : data'[n] = data[n]
         /\ data'[d] # NoDir
         /\ Has(d) => /\ data'[d].id = data[d].id /\ ids' = ids
                      /\ data'[d].root = (data[d].root \/ root)
         /\ ~Has(d) => /\ data'[d].id = ids + 1 /\ ids' = ids + 1 /\ ids < MaxIds
                       /\ data'[d].root = root
<1>1. data \in [Names -> Dir \cup {NoDir}] /\ ids \in 0..MaxIds
  BY DEF HostInv, HostTypeOK, Identities
<1>2. CASE Has(d)
  <2>1. data[d] \in Dir
    BY <1>1, <1>2 DEF Has
  <2>2. /\ [data[d] EXCEPT !.root = data[d].root \/ root] \in Dir
        /\ [data[d] EXCEPT !.root = data[d].root \/ root].id = data[d].id
        /\ [data[d] EXCEPT !.root = data[d].root \/ root].root = (data[d].root \/ root)
    BY <2>1 DEF Dir
  <2>3. /\ ids' = ids
        /\ data' = [data EXCEPT ![d] = [data[d] EXCEPT !.root = data[d].root \/ root]]
    <3>1. ids' = ids
      BY <1>2 DEF KeysIn, Has
    <3>2. data' = [data EXCEPT ![d] = [data[d] EXCEPT !.root = data[d].root \/ root]]
      BY <1>2 DEF KeysIn, Has
    <3> QED
      BY <3>1, <3>2
  <2> QED
    BY <1>1, <1>2, <2>2, <2>3, Distinct
<1>3. CASE ~Has(d)
  <2>1. ids < MaxIds /\ ids' = ids + 1
    BY <1>3 DEF KeysIn, Has
  <2>2. [id |-> ids + 1, root |-> root, grace |-> Nothing] \in Dir
    BY <1>1, <2>1 DEF Dir
  <2>3. data' = [data EXCEPT ![d] = [id |-> ids + 1, root |-> root, grace |-> Nothing]]
    BY <1>3 DEF KeysIn, Has
  <2> QED
    BY <1>1, <1>3, <2>1, <2>2, <2>3, Distinct
<1> QED
  BY <1>2, <1>3

LEMMA BeginDoes ==
  ASSUME NEW p \in {"create keys", "join keys", "leave ask", "purge stop", "rename stop"},
         NEW n \in Names, NEW c \in Conf, NEW new \in Names, Begin(p, n, c, new)
  PROVE  /\ op = Idle /\ op' \in Op /\ op' # Idle
         /\ op'.pc = p /\ op'.at = n /\ op'.cfg = c /\ op'.new = new
<1>1. [pc |-> p, at |-> n, cfg |-> c, new |-> new] \in Op
  BY DEF Op
<1> QED
  BY <1>1, Distinct DEF Begin

\* Data directories, their identities and their anchor files are as before.
SameData ==
    /\ ids' = ids
    /\ \A n \in Names : /\ Has(n)' = Has(n)
                        /\ Has(n) => data'[n].id = data[n].id /\ data'[n].root = data[n].root

\* Units and daemons only went down.
Down == \A n \in Names : /\ unit'[n] => unit[n]
                         /\ run'[n] \in {run[n], NotRunning}
                         /\ hand'[n] \in {hand[n], NotRunning}

Moving == In({"rename link", "rename config", "rename drop"})

-----------------------------------------------------------------------------
(* The parts of the invariant, where an action leaves alone what they read *)

LEMMA IdentitiesFrame ==
  ASSUME HostInv, SameData, gone' = gone, known' \subseteq known
  PROVE  Identities'
BY DEF SameData, HostInv, Identities, Has

\* The command does not get between the two names of a rename.
OpStays ==
    IF Moving
    THEN /\ op' # Idle /\ op'.at = op.at /\ op'.new = op.new /\ op'.cfg = op.cfg
         /\ In({"rename link", "rename config"}) => In({"rename link", "rename config"})'
         /\ In({"rename drop"}) => In({"rename drop"})'
    ELSE ~Moving'

LEMMA SeatedFrame ==
  ASSUME HostInv, SameData, gone' = gone, known' \subseteq known, conf' = conf,
         strayed' = strayed, \A c \in Foreign : title'[c] = title[c], OpStays
  PROVE  Seated'
<1>1. ASSUME NEW p \in known, p[1] \notin strayed, p[2] \notin gone
      PROVE  \E d \in Names : /\ Has(d)' /\ data'[d].id = p[2]
                              /\ IF p[1] = Own THEN data'[d].root ELSE Seat(p[1], d)'
  <2>1. PICK d \in Names : /\ Has(d) /\ data[d].id = p[2]
                           /\ IF p[1] = Own THEN data[d].root ELSE Seat(p[1], d)
    BY <1>1 DEF HostInv, Seated
  <2>2. Has(d)' /\ data'[d].id = p[2] /\ data'[d].root = data[d].root
    BY <2>1 DEF SameData
  <2>3. p[1] \in Meshes
    BY <1>1 DEF HostInv, HostTypeOK
  <2>4. ASSUME p[1] # Own PROVE Seat(p[1], d)'
    BY <2>1, <2>2, <2>3, <2>4 DEF Seat, Exists, OpStays, Moving, In, Meshes
  <2> QED
    BY <2>1, <2>2, <2>4
<1>2. \A c \in Meshes \ strayed', i, j \in 1..MaxIds :
        <<c, i>> \in known' /\ i \notin gone' /\ <<c, j>> \in known' /\ j \notin gone' => i = j
  BY DEF HostInv, Seated
<1>3. \A m, n \in Names :
        Exists(m)' /\ Exists(n)' /\ conf'[m].mesh = conf'[n].mesh /\ conf'[m].mesh # Own
          => m = n \/ (In({"rename drop"})' /\ op'.at \in {m, n})
  BY DEF HostInv, Seated, Exists, OpStays, Moving, In
<1> QED
  BY <1>1, <1>2, <1>3 DEF Seated

LEMMA WholeFrame ==
  ASSUME HostInv, SameData, Down, conf' = conf,
         \A l \in links' : l \in links \/ \E n \in Names : Exists(n) /\ LinkOf[n] = l,
         In({"rename config"}) =>
           \/ In({"rename config"})' /\ op'.new = op.new
           \/ LinkOf[op.new] \notin links'
  PROVE  Whole'
<1>1. \A n \in Names : unit'[n] => Exists(n)' /\ Has(n)'
  BY DEF Down, SameData, HostInv, Whole, Exists
<1>2. \A n \in Names : run'[n] # NotRunning \/ hand'[n] # NotRunning => Exists(n)'
  <2>1. \A n \in Names : /\ run'[n] # NotRunning => run[n] # NotRunning
                         /\ hand'[n] # NotRunning => hand[n] # NotRunning
    BY DEF Down
  <2>2. \A n \in Names : Exists(n)' = Exists(n)
    BY DEF Exists
  <2> QED
    BY <2>1, <2>2 DEF HostInv, Whole
<1>3. \A m, n \in Names : m # n /\ Exists(m)' /\ Exists(n)' => LinkOf[m] # LinkOf[n]
  BY DEF HostInv, Whole, Exists
<1>4. \A l \in links' : \/ \E n \in Names : Exists(n)' /\ LinkOf[n] = l
                        \/ In({"rename config"})' /\ l = LinkOf[op'.new]
  BY DEF HostInv, Whole, Exists
<1> QED
  BY <1>1, <1>2, <1>3, <1>4 DEF Whole

LEMMA NamedFrame ==
  ASSUME HostInv, Down, conf' = conf
  PROVE  Named'
<1>1. \A n \in Names : /\ run'[n] # NotRunning => run[n] # NotRunning /\ run'[n] = run[n]
                       /\ hand'[n] # NotRunning => hand[n] # NotRunning /\ hand'[n] = hand[n]
  BY DEF Down
<1>2. \A n \in Names : Exists(n)' = Exists(n)
  BY DEF Exists
<1> QED
  BY <1>1, <1>2 DEF HostInv, Named

LEMMA TitlesFrame ==
  ASSUME HostInv, \A c \in Foreign : title'[c] = title[c]
  PROVE  Titles'
BY DEF HostInv, Titles

-----------------------------------------------------------------------------
(* Steps that leave the files alone *)

LEMMA Unchanged ==
  ASSUME UNCHANGED <<data, ids>>
  PROVE  SameData
BY DEF SameData, Has

\* The type of everything but what the caller names.
LEMMA DownTypes ==
  ASSUME HostInv, Down, unit' \in [Names -> BOOLEAN], run' \in [Names -> Conf \cup {NotRunning}],
         hand' \in [Names -> Conf \cup {NotRunning}], links' \subseteq Links, blocks' \subseteq Names, tables' \subseteq Names,
         known' \subseteq known, UNCHANGED <<files, title, strayed, gone>>
  PROVE  HostTypeOK'
BY DEF HostInv, HostTypeOK, files

\* A command ends, or never begins: nothing depends on it any more.
LEMMA Ends ==
  ASSUME HostInv, op' = Idle, ~Moving, Down, HostTypeOK',
         UNCHANGED <<files, mesh, history>>, links' \subseteq links
  PROVE  HostInv'
<1>1. /\ SameData /\ gone' = gone /\ known' = known /\ conf' = conf /\ title' = title
      /\ strayed' = strayed
  BY Unchanged DEF files, mesh, history
<1>2. OpStays /\ ~In({"rename config"})
  BY DEF OpStays, Moving, In
<1>3. Named' /\ Identities' /\ Titles'
  BY <1>1, NamedFrame, IdentitiesFrame, TitlesFrame
<1>4. Whole' /\ Seated'
  BY <1>1, <1>2, WholeFrame, SeatedFrame
<1>5. OpOK'
  BY DEF OpOK, CreateOK, JoinOK, LeaveOK, PurgeOK, RenameOK, In
<1> QED
  BY <1>3, <1>4, <1>5 DEF HostInv

LEMMA EndingSteps ==
  ASSUME Kept, HostInv, GiveUp \/ LeaveHosts \/ PurgeHosts \/ CutOff \/ Reboot
  PROVE  HostInv'
<1>1. op' = Idle /\ UNCHANGED <<files, mesh, history>> /\ links' \subseteq links
  BY DEF GiveUp, LeaveHosts, PurgeHosts, CutOff, Reboot, End, kernel
<1>2. ~Moving
  BY DEF GiveUp, LeaveHosts, PurgeHosts, CutOff, Reboot, At, Moving, In, Kept, Idle
<1>3. /\ unit' = unit /\ run' \in {run, [n \in Names |-> NotRunning]}
      /\ hand' \in {hand, [n \in Names |-> NotRunning]}
  BY DEF GiveUp, LeaveHosts, PurgeHosts, CutOff, Reboot, service
<1>4. Down
  BY <1>3 DEF Down
<1>5. HostTypeOK'
  <2>1. /\ run' \in [Names -> Conf \cup {NotRunning}] /\ unit' \in [Names -> BOOLEAN]
        /\ hand' \in [Names -> Conf \cup {NotRunning}]
    BY <1>3 DEF HostInv, HostTypeOK
  <2>2. links' \subseteq Links
    BY <1>1 DEF HostInv, HostTypeOK
  <2>3. blocks' \subseteq Names /\ tables' \subseteq Names
    BY DEF GiveUp, LeaveHosts, PurgeHosts, CutOff, Reboot, kernel, HostInv, HostTypeOK
  <2> QED
    BY <1>1, <1>4, <2>1, <2>2, <2>3, DownTypes DEF mesh, history
<1> QED
  BY <1>1, <1>2, <1>4, <1>5, Ends

\* A command begins: what it looked at before is what it relies on.
LEMMA Begun ==
  ASSUME HostInv, op = Idle, op' \in Op, Fits(op'.cfg, op'.at), ~Moving',
         UNCHANGED <<files, kernel, service, blocks, mesh, history>>,
         CreateOK', JoinOK', LeaveOK', PurgeOK', RenameOK'
  PROVE  HostInv'
<1>1. /\ SameData /\ gone' = gone /\ known' = known /\ conf' = conf /\ title' = title
      /\ unit' = unit /\ run' = run /\ hand' = hand /\ strayed' = strayed /\ links' = links
  BY Unchanged DEF files, mesh, history, service, kernel
<1>2. OpStays /\ ~In({"rename config"}) /\ Down
  BY <1>1 DEF OpStays, Moving, In, Down
<1>3. Named' /\ Identities' /\ Titles' /\ Whole' /\ Seated'
  BY <1>1, <1>2, NamedFrame, IdentitiesFrame, TitlesFrame, WholeFrame, SeatedFrame
<1>4. HostTypeOK'
  BY <1>1 DEF HostInv, HostTypeOK, kernel, files
<1>5. OpOK'
  BY DEF OpOK
<1> QED
  BY <1>3, <1>4, <1>5 DEF HostInv

LEMMA CreateBegins ==
  ASSUME HostInv, NEW n \in Names, BeginCreate(n)
  PROVE  HostInv'
<1> DEFINE c == [mesh |-> Own, name |-> n, dir |-> n, link |-> LinkOf[n], anchor |-> TRUE]
<1>1. c \in Conf /\ Fits(c, n)
  BY DEF Conf, Fits, Meshes
<1>2. c.mesh = Own
  OBVIOUS
<1>3. Begin("create keys", n, c, n) /\ UNCHANGED <<files, kernel, service, blocks, mesh, history>>
  BY DEF BeginCreate
<1> HIDE DEF c
<1>4. /\ op = Idle /\ op' \in Op /\ op'.pc = "create keys" /\ op'.at = n /\ op'.new = n
      /\ op'.cfg = c
  BY <1>1, <1>3, BeginDoes
<1>5. /\ \A m \in Names \ {n} : Has(m)' => ~data'[m].root
      /\ Alone(n)'
  <2>1. \A m \in Names : Exists(m) => conf[m].link = LinkOf[m]
    BY DEF HostInv, Named, Fits
  <2> QED
    BY <1>3, <2>1 DEF BeginCreate, Has, Alone, Clash, Exists, files
<1>6. CreateOK' /\ JoinOK' /\ LeaveOK' /\ PurgeOK' /\ RenameOK' /\ ~Moving'
  BY <1>2, <1>4, <1>5 DEF CreateOK, JoinOK, LeaveOK, PurgeOK, RenameOK, In, Moving
<1> QED
  BY <1>1, <1>3, <1>4, <1>6, Begun

\* The mesh is where its name says, here or not here yet, and nowhere else.
LEMMA JoinBegins ==
  ASSUME Kept, HostInv, NEW c \in Foreign, BeginJoin(c)
  PROVE  HostInv'
<1>0. /\ \A m \in Names : Exists(m) => Fits(conf[m], m)
      /\ conf \in [Names -> Conf \cup {NoConf}] /\ title[c] \in Names /\ c # Own
  BY DEF HostInv, Named, HostTypeOK, Titles
<1>1. PICK n \in Route(c) :
        LET old == n \in Refreshed(c) IN
        /\ DomainFree(c, n)
        /\ Careful /\ old => conf[n].name = title[c]
        /\ old \/ ~Clash(LinkOf[n], n)
        /\ Begin("join keys", n,
             [mesh |-> c, name |-> title[c], anchor |-> FALSE,
              dir  |-> IF old THEN conf[n].dir ELSE n,
              link |-> IF old THEN conf[n].link ELSE LinkOf[n]], n)
  BY DEF BeginJoin
<1>2. n \in Names /\ title[c] = n
  <2>1. CASE Refreshed(c) # {}
    <3>1. n \in Refreshed(c) /\ Exists(n) /\ n \in Names
      BY <1>1, <2>1 DEF Route, Refreshed
    <3> QED
      BY <1>0, <1>1, <3>1 DEF Fits, Kept
  <2>2. CASE Refreshed(c) = {}
    BY <1>0, <1>1, <2>2 DEF Route
  <2> QED
    BY <2>1, <2>2
<1> DEFINE d == [mesh |-> c, name |-> n, anchor |-> FALSE, dir |-> n, link |-> LinkOf[n]]
<1>3. d \in Conf /\ Fits(d, n) /\ d.mesh = c
  BY <1>2 DEF Conf, Fits, Meshes
<1>4. Begin("join keys", n, d, n)
  <2>1. CASE n \in Refreshed(c)
    <3>1. conf[n].dir = n /\ conf[n].link = LinkOf[n]
      BY <1>0, <1>2, <2>1 DEF Refreshed, Fits
    <3> QED
      BY <1>1, <1>2, <2>1, <3>1
  <2>2. CASE n \notin Refreshed(c)
    BY <1>1, <1>2, <2>2
  <2> QED
    BY <2>1, <2>2
<1> HIDE DEF d
<1>5. /\ op = Idle /\ op' \in Op /\ op'.pc = "join keys" /\ op'.at = n /\ op'.new = n
      /\ op'.cfg = d
  BY <1>2, <1>3, <1>4, BeginDoes
<1>6. UNCHANGED <<files, kernel, service, blocks, mesh, history>>
  BY DEF BeginJoin
<1>7. Alone(n)
  <2>1. CASE n \in Refreshed(c)
    BY <1>2, <2>1 DEF Alone, Refreshed, HostInv, Whole
  <2>2. CASE n \notin Refreshed(c)
    <3>1. ~Clash(LinkOf[n], n)
      BY <1>1, <2>2
    <3> QED
      BY <1>0, <3>1 DEF Alone, Clash, Fits
  <2> QED
    BY <2>1, <2>2
<1>8. ASSUME NEW m \in Names, Exists(m)
      PROVE  (conf[m].mesh = c <=> m = n) /\ (Has(m) => ~data[m].root)
  <2>1. Fits(conf[m], m)
    BY <1>0, <1>8
  <2>2. Has(m) => ~data[m].root
    BY <1>8, <2>1 DEF BeginJoin, NoAnchorHere, HoldsAnchor, Fits, Has
  <2>3. m = n => conf[m].mesh = c
    BY <1>1, <1>2, <1>8, <2>1 DEF DomainFree, Refreshed, Fits
  <2>4. conf[m].mesh = c => m = n
    <3>1. ASSUME conf[m].mesh = c PROVE m = n
      <4>1. m \in Refreshed(c)
        BY <1>8, <3>1 DEF Refreshed
      <4>2. n \in Refreshed(c)
        BY <1>1, <4>1 DEF Route
      <4> QED
        BY <1>0, <1>2, <1>5, <3>1, <4>1, <4>2 DEF Refreshed, HostInv, Seated, In
    <3> QED
      BY <3>1
  <2> QED
    BY <2>2, <2>3, <2>4
<1>9. JoinOK'
  <2>1. \A e \in Foreign \ (strayed \cup {c}) : Has(n) /\ ~Exists(n) => <<e, data[n].id>> \notin known
    <3>1. SUFFICES ASSUME NEW e \in Foreign \ (strayed \cup {c}), Has(n), ~Exists(n),
                          <<e, data[n].id>> \in known
                   PROVE  FALSE
      OBVIOUS
    <3>2. data[n].id \notin gone /\ e # Own
      BY <1>2, <3>1 DEF HostInv, Identities
    <3>3. PICK d0 \in Names : Has(d0) /\ data[d0].id = data[n].id /\ Seat(e, d0)
      BY <3>1, <3>2 DEF HostInv, Seated
    <3>4. d0 = n
      BY <1>2, <3>1, <3>3 DEF HostInv, Identities
    <3>5. title[e] = n
      BY <1>5, <3>1, <3>3, <3>4 DEF Seat, In
    <3> QED
      BY <1>2, <3>1, <3>5 DEF HostInv, Titles
  <2> QED
    BY <1>2, <1>3, <1>5, <1>6, <1>7, <1>8, <2>1
       DEF JoinOK, In, Alone, Exists, Has, files, mesh
<1>10. CreateOK' /\ LeaveOK' /\ PurgeOK' /\ RenameOK' /\ ~Moving'
  BY <1>5 DEF CreateOK, LeaveOK, PurgeOK, RenameOK, In, Moving
<1> QED
  BY <1>3, <1>5, <1>6, <1>9, <1>10, Begun

LEMMA LeaveBegins ==
  ASSUME HostInv, NEW n \in Names, BeginLeave(n)
  PROVE  HostInv'
<1>1. Exists(n) /\ conf[n] \in Conf /\ Fits(conf[n], n)
  BY DEF BeginLeave, HostInv, HostTypeOK, Named, Exists
<1>2. /\ op = Idle /\ op' \in Op /\ op'.pc = "leave ask" /\ op'.at = n /\ op'.new = n
      /\ op'.cfg = conf[n]
  BY <1>1, BeginDoes DEF BeginLeave
<1>3. UNCHANGED <<files, kernel, service, blocks, mesh, history>>
  BY DEF BeginLeave
<1>4. CreateOK' /\ JoinOK' /\ LeaveOK' /\ PurgeOK' /\ RenameOK' /\ ~Moving'
  BY <1>1, <1>2, <1>3
     DEF CreateOK, JoinOK, LeaveOK, PurgeOK, RenameOK, In, Moving, Exists, files
<1> QED
  BY <1>1, <1>2, <1>3, <1>4, Begun

LEMMA PurgeBegins ==
  ASSUME HostInv, NEW n \in Names, BeginPurge(n)
  PROVE  HostInv'
<1>1. Exists(n) /\ conf[n] \in Conf /\ Fits(conf[n], n)
  BY DEF BeginPurge, HostInv, HostTypeOK, Named, Exists
<1>2. /\ op = Idle /\ op' \in Op /\ op'.pc = "purge stop" /\ op'.at = n /\ op'.new = n
      /\ op'.cfg = conf[n]
  BY <1>1, BeginDoes DEF BeginPurge, PurgeFrom
<1>3. UNCHANGED <<files, kernel, service, blocks, mesh, history>>
  BY DEF BeginPurge
<1>4. CreateOK' /\ JoinOK' /\ LeaveOK' /\ PurgeOK' /\ RenameOK' /\ ~Moving'
  BY <1>1, <1>2, <1>3
     DEF CreateOK, JoinOK, LeaveOK, PurgeOK, RenameOK, In, Moving, Exists, files
<1> QED
  BY <1>1, <1>2, <1>3, <1>4, Begun

LEMMA RenameBegins ==
  ASSUME Kept, HostInv, NEW n \in Names, NEW new \in Names, BeginRename(n, new)
  PROVE  HostInv'
<1>1. Exists(n) /\ conf[n] \in Conf /\ Fits(conf[n], n)
  BY DEF BeginRename, HostInv, HostTypeOK, Named, Exists
<1>2. /\ op = Idle /\ op' \in Op /\ op'.pc = "rename stop" /\ op'.at = n /\ op'.new = new
      /\ op'.cfg = conf[n]
  BY <1>1, BeginDoes DEF BeginRename
<1>3. UNCHANGED <<files, kernel, service, blocks, mesh, history>>
  BY DEF BeginRename
<1>4. n # new /\ ~Exists(new) /\ ~Has(new) /\ Alone(new)
  <2>1. \A m \in Names : Exists(m) => conf[m].link = LinkOf[m]
    BY DEF HostInv, Named, Fits
  <2> QED
    BY <2>1 DEF BeginRename, Kept, Free, Leftover, Clash, Has, Alone
<1>5. RenameOK'
  <2>1. hand[n] = NotRunning /\ hand' = hand
    BY <1>3 DEF BeginRename, Kept, service
  <2> QED
    BY <1>1, <1>2, <1>3, <1>4, <2>1 DEF RenameOK, In, Exists, Has, Alone, files
<1>6. CreateOK' /\ JoinOK' /\ LeaveOK' /\ PurgeOK' /\ ~Moving'
  BY <1>2 DEF CreateOK, JoinOK, LeaveOK, PurgeOK, In, Moving
<1> QED
  BY <1>1, <1>2, <1>3, <1>5, <1>6, Begun

-----------------------------------------------------------------------------
(* The daemons and the world *)

\* A step of a daemon: the command stays where it is, what it needs stands, and
\* what it has stopped and taken away is not restored.
JoinOf(c) == In({"join keys", "join door", "join config"}) /\ op.cfg.mesh = c

LEMMA Beside ==
  ASSUME HostInv, op' = op, SameData, UNCHANGED <<conf, known, gone>>, strayed \subseteq strayed',
         \A c \in Foreign : title'[c] = title[c] \/ (JoinOf(c) => c \in strayed'),
         unit' = unit, HostTypeOK',
         \A n \in Names : run'[n] \in {run[n], NotRunning}
                           \/ (unit[n] /\ run'[n] = conf[n]),
         \A n \in Names : hand'[n] \in {hand[n], NotRunning}
                           \/ (op = Idle /\ Exists(n) /\ hand'[n] = conf[n]),
         \A l \in links' : \/ l \in links
                           \/ \E n \in Names : /\ LinkOf[n] = l
                                               /\ run'[n] # NotRunning \/ hand'[n] # NotRunning
  PROVE  OpOK' /\ Whole' /\ Named'
<1>1. \A n \in Names : run'[n] # NotRunning \/ hand'[n] # NotRunning => Exists(n)
  BY DEF HostInv, Whole
<1>2. \A n \in Names : /\ Stopped(n) => Stopped(n)'
                       /\ op # Idle /\ hand[n] = NotRunning => hand'[n] = NotRunning
                       /\ op # Idle /\ Quiet(n) => Quiet(n)'
  BY DEF Stopped, Quiet
<1>3. \A n \in Names : op # Idle /\ Exists(n) /\ Quiet(n) /\ LinkOf[n] \notin links
                          => LinkOf[n] \notin links'
  <2>1. SUFFICES ASSUME NEW n \in Names, op # Idle, Exists(n), Quiet(n), LinkOf[n] \notin links,
                        LinkOf[n] \in links'
                 PROVE  FALSE
    OBVIOUS
  <2>2. PICK m \in Names : /\ LinkOf[m] = LinkOf[n]
                           /\ run'[m] # NotRunning \/ hand'[m] # NotRunning
    BY <2>1
  <2>3. Exists(m)
    BY <2>1, <2>2, <1>1 DEF HostInv, Whole
  <2>4. m = n
    BY <2>1, <2>2, <2>3 DEF HostInv, Whole
  <2> QED
    BY <1>2, <2>1, <2>2, <2>4 DEF Quiet, Stopped
<1>4. Named'
  BY DEF HostInv, Named, Whole, Exists
<1>5. Whole'
  <2>1. \A n \in Names : unit'[n] => Exists(n)' /\ Has(n)'
    BY DEF SameData, HostInv, Whole, Exists
  <2>2. \A m, n \in Names : m # n /\ Exists(m)' /\ Exists(n)' => LinkOf[m] # LinkOf[n]
    BY DEF HostInv, Whole, Exists
  <2>3. \A l \in links' : \/ \E n \in Names : Exists(n)' /\ LinkOf[n] = l
                          \/ In({"rename config"})' /\ l = LinkOf[op'.new]
    BY <1>1 DEF HostInv, Whole, Exists, In
  <2> QED
    BY <1>1, <2>1, <2>2, <2>3 DEF Whole, Exists
<1>6. CASE op = Idle
  <2>1. op' = Idle
    BY <1>6
  <2>2. CreateOK' /\ JoinOK' /\ LeaveOK' /\ PurgeOK' /\ RenameOK'
    BY <2>1 DEF CreateOK, JoinOK, LeaveOK, PurgeOK, RenameOK, In
  <2> QED
    BY <1>4, <1>5, <2>1, <2>2 DEF OpOK
<1>7. CASE op # Idle
  <2>1. op \in Op /\ Fits(op.cfg, op.at) /\ op.at \in Names /\ op.new \in Names
    BY <1>7 DEF HostInv, OpOK, Op
  <2>2. CreateOK'
    BY <2>1 DEF HostInv, OpOK, CreateOK, In, Alone, Exists, SameData, Has
  <2>3. JoinOK'
    BY <1>7, <2>1 DEF HostInv, OpOK, JoinOK, JoinOf, In, Alone, Exists, SameData
  <2>4. LeaveOK'
    BY DEF HostInv, OpOK, LeaveOK, In, Exists
  <2>5. PurgeOK'
    BY <1>2, <1>3, <1>7, <2>1 DEF HostInv, OpOK, PurgeOK, In, Exists, SameData
  <2>6. RenameOK'
    BY <1>2, <1>3, <1>7, <2>1 DEF HostInv, OpOK, RenameOK, In, Exists, SameData, Alone
  <2>7. op' \in Op /\ Fits(op'.cfg, op'.at)
    BY <2>1
  <2> QED
    BY <1>4, <1>5, <2>2, <2>3, <2>4, <2>5, <2>6, <2>7 DEF OpOK
<1> QED
  BY <1>4, <1>5, <1>6, <1>7

\* ... and so the whole invariant stands, when no name of a mesh changes.
LEMMA BesideKeeps ==
  ASSUME HostInv, op' = op, SameData, UNCHANGED <<conf, known, gone, title, strayed>>,
         unit' = unit, HostTypeOK',
         \A n \in Names : run'[n] \in {run[n], NotRunning}
                           \/ (unit[n] /\ run'[n] = conf[n]),
         \A n \in Names : hand'[n] \in {hand[n], NotRunning}
                           \/ (op = Idle /\ Exists(n) /\ hand'[n] = conf[n]),
         \A l \in links' : \/ l \in links
                           \/ \E n \in Names : /\ LinkOf[n] = l
                                               /\ run'[n] # NotRunning \/ hand'[n] # NotRunning
  PROVE  HostInv'
<1>1. OpOK' /\ Whole' /\ Named'
  BY Beside
<1>2. OpStays
  BY DEF OpStays, Moving, In
<1>3. Identities' /\ Seated' /\ Titles'
  BY <1>2, IdentitiesFrame, SeatedFrame, TitlesFrame
<1> QED
  BY <1>1, <1>3 DEF HostInv

\* Keys are kept, or made anew: nobody's identity goes, and a new one is nobody's.
LEMMA KeysSeat ==
  ASSUME HostInv, NEW d \in Names, NEW root \in BOOLEAN, KeysIn(d, root), ~Moving, ~Moving',
         root => \A m \in Names \ {d} : Has(m) => ~data[m].root,
         UNCHANGED <<conf, title, strayed, gone>>, known' \subseteq known
  PROVE  Identities' /\ Seated' /\ Titles'
<1>1. /\ \A n \in Names \ {d} : data'[n] = data[n]
      /\ data'[d] # NoDir
      /\ Has(d) => /\ data'[d].id = data[d].id /\ ids' = ids
                   /\ data'[d].root = (data[d].root \/ root)
      /\ ~Has(d) => /\ data'[d].id = ids + 1 /\ ids' = ids + 1 /\ ids < MaxIds
                    /\ data'[d].root = root
  BY KeysInDoes
<1>2. /\ ids \in 0..MaxIds /\ ids' \in 0..MaxIds /\ ids <= ids'
      /\ \A n \in Names : Has(n) => data[n].id \in 1..MaxIds
      /\ gone \subseteq 1..MaxIds
      /\ \A p \in known : p[1] \in Meshes /\ p[2] \in 1..MaxIds
  <2>1. \A n \in Names : Has(n) => data[n] \in Dir
    BY DEF HostInv, HostTypeOK, Has
  <2>2. \A n \in Names : Has(n) => data[n].id \in 1..MaxIds
    BY <2>1 DEF Dir
  <2>3. ids \in 0..MaxIds /\ gone \subseteq 1..MaxIds /\ known \subseteq Meshes \X (1..MaxIds)
    BY DEF HostInv, HostTypeOK, Identities
  <2> QED
    BY <1>1, <2>2, <2>3
<1>3. Identities'
  BY <1>1, <1>2 DEF HostInv, Identities, Has
<1>4. \A n \in Names : Has(n) => /\ Has(n)' /\ data'[n].id = data[n].id
                                 /\ data[n].root => data'[n].root
  BY <1>1 DEF Has
<1>5. Seated'
  <2>1. ASSUME NEW p \in known, p[1] \notin strayed, p[2] \notin gone
        PROVE  \E e \in Names : /\ Has(e)' /\ data'[e].id = p[2]
                                /\ IF p[1] = Own THEN data'[e].root ELSE Seat(p[1], e)'
    <3>1. PICK e \in Names : /\ Has(e) /\ data[e].id = p[2]
                             /\ IF p[1] = Own THEN data[e].root ELSE Seat(p[1], e)
      BY <2>1 DEF HostInv, Seated
    <3>2. Seat(p[1], e) => Seat(p[1], e)'
      BY <1>4, <3>1 DEF Seat, Exists, Moving, In
    <3> QED
      BY <1>4, <3>1, <3>2
  <2> QED
    BY <2>1 DEF HostInv, Seated, Exists, Moving, In
<1>6. Titles'
  BY DEF HostInv, Titles
<1> QED
  BY <1>3, <1>5, <1>6

LEMMA BootKeeps ==
  ASSUME HostInv, NEW n \in Names, Boot(n)
  PROVE  HostInv'
<1>1. /\ unit[n] /\ Exists(n) /\ Has(n) /\ conf[n] \in Conf /\ Fits(conf[n], n)
      /\ run' = [run EXCEPT ![n] = conf[n]] /\ hand' = hand /\ KeysIn(n, FALSE)
      /\ links' = links \cup {LinkOf[n]}
      /\ UNCHANGED <<conf, tables, unit, blocks, title, strayed, known, gone, op>>
  <2>1. unit[n] /\ Exists(n) /\ Has(n)
    BY DEF Boot, HostInv, Whole
  <2>2. conf[n] \in Conf /\ Fits(conf[n], n)
    BY <2>1 DEF HostInv, HostTypeOK, Named, Exists
  <2>3. conf[n].dir = n /\ conf[n].link = LinkOf[n]
    BY <2>2 DEF Fits
  <2> QED
    BY <2>1, <2>2, <2>3 DEF Boot, StartOn, mesh
<1>2. SameData /\ data' \in [Names -> Dir \cup {NoDir}]
  <2>1. data[n].root \in BOOLEAN
    BY <1>1 DEF HostInv, HostTypeOK, Has, Dir
  <2> QED
    BY <1>1, <2>1, KeysInDoes DEF SameData, Has
<1>3. run \in [Names -> Conf \cup {NotRunning}]
  BY DEF HostInv, HostTypeOK
<1>4. run'[n] # NotRunning /\ \A m \in Names \ {n} : run'[m] = run[m]
  BY <1>1, <1>3, Distinct
<1>5. HostTypeOK'
  BY <1>1, <1>2, <1>3 DEF HostInv, HostTypeOK
<1> QED
  BY <1>1, <1>2, <1>3, <1>4, <1>5, BesideKeeps

LEMMA HandRunKeeps ==
  ASSUME HostInv, NEW n \in Names, HandRun(n)
  PROVE  HostInv'
<1>1. /\ op = Idle /\ Exists(n) /\ conf[n] \in Conf /\ Fits(conf[n], n)
      /\ hand' = [hand EXCEPT ![n] = conf[n]] /\ run' = run /\ KeysIn(n, FALSE)
      /\ links' = links \cup {LinkOf[n]}
      /\ UNCHANGED <<conf, tables, unit, blocks, title, strayed, known, gone, op>>
  <2>1. Exists(n)
    BY DEF HandRun
  <2>2. conf[n] \in Conf /\ Fits(conf[n], n)
    BY <2>1 DEF HostInv, HostTypeOK, Named, Exists
  <2>3. conf[n].dir = n /\ conf[n].link = LinkOf[n]
    BY <2>2 DEF Fits
  <2> QED
    BY <2>1, <2>2, <2>3 DEF HandRun, StartOn, mesh
<1>2. hand \in [Names -> Conf \cup {NotRunning}] /\ run \in [Names -> Conf \cup {NotRunning}]
  BY DEF HostInv, HostTypeOK
<1>3. hand'[n] = conf[n] /\ hand'[n] # NotRunning /\ \A m \in Names \ {n} : hand'[m] = hand[m]
  BY <1>1, <1>2, Distinct
<1>4. data' \in [Names -> Dir \cup {NoDir}]
  BY <1>1, KeysInDoes
<1>5. HostTypeOK'
  BY <1>1, <1>2, <1>4 DEF HostInv, HostTypeOK
<1>6. ~Moving /\ ~Moving' /\ ~In({"rename config"})
  BY <1>1 DEF Moving, In
<1>7. Identities' /\ Seated' /\ Titles'
  BY <1>1, <1>6, KeysSeat
<1>8. Whole'
  <2>1. \A m \in Names : Has(m) => Has(m)'
    BY <1>1, KeysInDoes DEF Has
  <2>2. \A m \in Names : run'[m] # NotRunning \/ hand'[m] # NotRunning => Exists(m)'
    BY <1>1, <1>3 DEF HostInv, Whole, Exists
  <2>3. \A l \in links' : \E m \in Names : Exists(m)' /\ LinkOf[m] = l
    BY <1>1, <1>6 DEF HostInv, Whole, Exists
  <2> QED
    BY <1>1, <2>1, <2>2, <2>3 DEF HostInv, Whole, Exists
<1>9. Named'
  BY <1>1, <1>3 DEF HostInv, Named, Exists
<1>10. OpOK'
  BY <1>1 DEF OpOK, CreateOK, JoinOK, LeaveOK, PurgeOK, RenameOK, In
<1> QED
  BY <1>5, <1>7, <1>8, <1>9, <1>10 DEF HostInv

LEMMA WorkKeeps ==
  ASSUME HostInv, NEW n \in Names, Work(n)
  PROVE  HostInv'
<1>0. PICK c \in Daemons(n) :
        /\ links' = links \cup {c.link} /\ tables' = tables \cup {c.name}
        /\ blocks' = blocks \cup {c.name} \cup
                       (IF data[c.dir] = NoDir THEN {} ELSE {data[c.dir].grace} \ {Nothing})
        /\ UNCHANGED <<files, service, mesh, history, op, counts>>
  BY DEF Work
<1>1. /\ Fits(c, n) /\ (run[n] # NotRunning \/ hand[n] # NotRunning)
      /\ links' = links \cup {LinkOf[n]} /\ tables' = tables \cup {n}
      /\ UNCHANGED <<conf, data, unit, run, hand, title, strayed, known, gone, ids, op>>
  BY <1>0 DEF Daemons, HostInv, Named, Fits, files, service, mesh, history
<1>2. blocks' \subseteq Names
  <2>1. data[n] \in Dir \cup {NoDir} /\ blocks \subseteq Names
    BY DEF HostInv, HostTypeOK
  <2>2. data[n] # NoDir => data[n].grace \in Names \cup {Nothing}
    BY <2>1 DEF Dir
  <2> QED
    BY <1>0, <1>1, <2>1, <2>2 DEF Fits
<1>3. HostTypeOK'
  BY <1>1, <1>2 DEF HostInv, HostTypeOK
<1> QED
  BY <1>1, <1>3, BesideKeeps, Unchanged

LEMMA RetireKeeps ==
  ASSUME HostInv, NEW n \in Names, Retire(n)
  PROVE  HostInv'
<1>0. PICK c \in Daemons(n) :
        /\ data[c.dir] # NoDir
        /\ blocks' = blocks \ {data[c.dir].grace}
        /\ data' = [data EXCEPT ![c.dir].grace = Nothing]
        /\ UNCHANGED <<conf, kernel, service, mesh, history, op, counts>>
  BY DEF Retire
<1>1. /\ Has(n) /\ data' = [data EXCEPT ![n].grace = Nothing] /\ blocks' \subseteq blocks
      /\ UNCHANGED <<conf, links, tables, unit, run, hand, title, strayed, known, gone, ids, op>>
  BY <1>0 DEF Daemons, HostInv, Named, Fits, Has, kernel, service, mesh, history
<1>2. data \in [Names -> Dir \cup {NoDir}] /\ data[n] \in Dir
  BY <1>1 DEF HostInv, HostTypeOK, Has
<1>3. /\ data'[n] \in Dir /\ data'[n].id = data[n].id /\ data'[n].root = data[n].root
      /\ \A m \in Names \ {n} : data'[m] = data[m]
      /\ data' \in [Names -> Dir \cup {NoDir}]
  BY <1>1, <1>2 DEF Dir
<1>4. SameData
  BY <1>1, <1>2, <1>3, Distinct DEF SameData, Has
<1>5. HostTypeOK'
  BY <1>1, <1>3 DEF HostInv, HostTypeOK
<1> QED
  BY <1>1, <1>4, <1>5, BesideKeeps

LEMMA HandEndKeeps ==
  ASSUME HostInv, NEW n \in Names, HandEnd(n)
  PROVE  HostInv'
<1>1. /\ hand' = [hand EXCEPT ![n] = NotRunning]
      /\ UNCHANGED <<conf, data, links, tables, blocks, unit, run, title, strayed, known, gone, ids, op>>
  BY DEF HandEnd, files, kernel, mesh, history
<1>2. hand \in [Names -> Conf \cup {NotRunning}]
  BY DEF HostInv, HostTypeOK
<1>3. HostTypeOK'
  BY <1>1, <1>2 DEF HostInv, HostTypeOK
<1> QED
  BY <1>1, <1>2, <1>3, BesideKeeps, Unchanged

LEMMA DieKeeps ==
  ASSUME HostInv, NEW n \in Names, Die(n)
  PROVE  HostInv'
<1>1. /\ run' = [run EXCEPT ![n] = NotRunning] /\ hand' = hand
      /\ UNCHANGED <<conf, data, links, tables, blocks, unit, title, strayed, known, gone, ids, op>>
  BY DEF Die, files, kernel, mesh, history
<1>2. run \in [Names -> Conf \cup {NotRunning}]
  BY DEF HostInv, HostTypeOK
<1>3. HostTypeOK'
  BY <1>1, <1>2 DEF HostInv, HostTypeOK
<1> QED
  BY <1>1, <1>2, <1>3, BesideKeeps, Unchanged

\* A mesh is renamed elsewhere.  One whose join is half done here is strayed.
LEMMA RetitleKeeps ==
  ASSUME Kept, HostInv, NEW c \in Foreign, Retitle(c)
  PROVE  HostInv'
<1>1. /\ op' = op /\ strayed \subseteq strayed' /\ strayed' \subseteq Foreign
      /\ Unfinished(c) => c \in strayed'
      /\ UNCHANGED <<conf, data, links, tables, blocks, unit, run, hand, known, gone, ids>>
  BY DEF Retitle, files, kernel, service, history, HostInv, HostTypeOK
<1>2. PICK n \in Names \ {title[m] : m \in Meshes} : title' = [title EXCEPT ![c] = n]
  BY DEF Retitle, Kept
<1>3. title \in [Meshes -> Names \cup {Nothing}] /\ c \in Meshes
  BY DEF HostInv, HostTypeOK, Meshes
<1>4. HostTypeOK'
  BY <1>1, <1>2, <1>3 DEF HostInv, HostTypeOK
<1>5. OpOK' /\ Whole' /\ Named'
  <2>1. JoinOf(c) => c \in strayed'
    BY <1>1 DEF JoinOf, In, Unfinished
  <2>2. \A e \in Foreign : title'[e] = title[e] \/ e = c
    BY <1>2, <1>3 DEF Meshes
  <2>3. SameData
    BY <1>1, Unchanged
  <2> QED
    BY <1>1, <1>4, <2>1, <2>2, <2>3, Beside
<1>6. Identities'
  BY <1>1, Unchanged, IdentitiesFrame
<1>7. Titles'
  BY <1>2, <1>3 DEF HostInv, Titles, Meshes
<1>8. Seated'
  <2>1. ASSUME NEW p \in known, p[1] \notin strayed', NEW d \in Names, Has(d), data[d].id = p[2],
               p[1] # Own, Seat(p[1], d)
        PROVE  Seat(p[1], d)'
    <3>1. p[1] \in Foreign /\ p = <<p[1], data[d].id>>
      BY <2>1 DEF HostInv, HostTypeOK, Meshes
    <3>2. CASE Exists(d) \/ (In({"rename link", "rename config"}) /\ d = op.new)
      BY <1>1, <2>1, <3>2 DEF Seat, Exists, In
    <3>3. CASE ~Exists(d) /\ ~(In({"rename link", "rename config"}) /\ d = op.new)
      <4>1. title[p[1]] = d
        BY <2>1, <3>3 DEF Seat
      <4>2. p[1] # c
        <5>1. Leftover(d)
          BY <2>1, <3>3 DEF Leftover, Has
        <5>2. op.pc \in {"rename link", "rename config"} => op.new # d
          <6>1. op = Idle => op.pc = "idle"
            BY DEF Idle
          <6> QED
            BY <3>3, <6>1 DEF In
        <5> QED
          BY <1>1, <2>1, <3>1, <5>1, <5>2 DEF Unfinished
      <4>3. title'[p[1]] = title[p[1]]
        BY <1>2, <1>3, <3>1, <4>2 DEF Meshes
      <4> QED
        BY <1>1, <3>3, <4>1, <4>3 DEF Seat, Exists, In
    <3> QED
      BY <3>2, <3>3
  <2>2. \A p \in known' : p[1] \notin strayed' /\ p[2] \notin gone' =>
          \E d \in Names : /\ Has(d)' /\ data'[d].id = p[2]
                           /\ IF p[1] = Own THEN data'[d].root ELSE Seat(p[1], d)'
    <3> SUFFICES ASSUME NEW p \in known, p[1] \notin strayed', p[2] \notin gone
                 PROVE  \E d \in Names : /\ Has(d)' /\ data'[d].id = p[2]
                                         /\ IF p[1] = Own THEN data'[d].root ELSE Seat(p[1], d)'
      BY <1>1
    <3>1. PICK d \in Names : /\ Has(d) /\ data[d].id = p[2]
                             /\ IF p[1] = Own THEN data[d].root ELSE Seat(p[1], d)
      BY <1>1 DEF HostInv, Seated
    <3>2. Has(d)'
      BY <1>1, <3>1 DEF Has
    <3> QED
      BY <1>1, <2>1, <3>1, <3>2
  <2>3. \A e \in Meshes \ strayed', i, j \in 1..MaxIds :
          <<e, i>> \in known' /\ i \notin gone' /\ <<e, j>> \in known' /\ j \notin gone' => i = j
    BY <1>1 DEF HostInv, Seated
  <2>4. \A m, k \in Names :
          Exists(m)' /\ Exists(k)' /\ conf'[m].mesh = conf'[k].mesh /\ conf'[m].mesh # Own
            => m = k \/ (In({"rename drop"})' /\ op'.at \in {m, k})
    BY <1>1 DEF HostInv, Seated, Exists, In
  <2> QED
    BY <2>2, <2>3, <2>4 DEF Seated
<1> QED
  BY <1>4, <1>5, <1>6, <1>7, <1>8 DEF HostInv

-----------------------------------------------------------------------------
(* gw create and gw join *)

\* A step of the command to the next one.
LEMMA Onward ==
  ASSUME HostInv, NEW p, op.pc = p, p # "idle", NEW q, Goto(q),
         q \in {"create config", "create issue", "enable", "join door", "join config",
                "leave stop", "leave link", "leave hosts", "purge stray", "purge link",
                "purge data", "purge config", "purge hosts", "rename data", "rename link",
                "rename config", "rename drop", "rename grace"}
  PROVE  /\ op \in Op /\ op # Idle /\ Fits(op.cfg, op.at)
         /\ op.at \in Names /\ op.new \in Names /\ op.cfg \in Conf
         /\ op' \in Op /\ op' # Idle /\ Fits(op'.cfg, op'.at) /\ op'.pc = q
         /\ op'.at = op.at /\ op'.cfg = op.cfg /\ op'.new = op.new
<1>1. op \in Op /\ op # Idle /\ Fits(op.cfg, op.at)
      /\ op.at \in Names /\ op.new \in Names /\ op.cfg \in Conf
  BY AtStep
<1>2. [op EXCEPT !.pc = q] \in Op
  BY <1>1 DEF Op
<1>3. /\ op' \in Op /\ op' # Idle /\ op'.pc = q
      /\ op'.at = op.at /\ op'.cfg = op.cfg /\ op'.new = op.new
  BY <1>1, <1>2, GotoDoes
<1> QED
  BY <1>1, <1>3

LEMMA KeysKeep ==
  ASSUME HostInv, NEW d \in Names, NEW root \in BOOLEAN, KeysIn(d, root), ~Moving, ~Moving',
         root => \A m \in Names \ {d} : Has(m) => ~data[m].root,
         UNCHANGED <<conf, unit, run, hand, links, title, strayed, gone>>, known' \subseteq known
  PROVE  Identities' /\ Seated' /\ Whole' /\ Named' /\ Titles'
<1>1. \A n \in Names : Has(n) => Has(n)'
  BY KeysInDoes DEF Has
<1>2. Whole'
  BY <1>1 DEF HostInv, Whole, Exists, Moving, In
<1>3. Named'
  BY DEF HostInv, Named, Exists
<1> QED
  BY <1>2, <1>3, KeysSeat

LEMMA CreateKeysKeeps ==
  ASSUME HostInv, CreateKeys
  PROVE  HostInv'
<1>1. /\ op \in Op /\ op # Idle /\ Fits(op.cfg, op.at)
      /\ op.at \in Names /\ op.new \in Names /\ op.cfg \in Conf
      /\ op' \in Op /\ op' # Idle /\ Fits(op'.cfg, op'.at) /\ op'.pc = "create config"
      /\ op'.at = op.at /\ op'.cfg = op.cfg /\ op'.new = op.new
      /\ op.pc = "create keys"
  BY Onward DEF CreateKeys, At
<1>2. /\ KeysIn(op.at, TRUE)
      /\ UNCHANGED <<conf, unit, run, hand, links, tables, blocks, title, strayed, gone, known>>
  BY <1>1 DEF CreateKeys, Fits, kernel, service, mesh
<1>3. /\ op.cfg.mesh = Own /\ op.new = op.at /\ Alone(op.at)
      /\ \A m \in Names \ {op.at} : Has(m) => ~data[m].root
  BY <1>1 DEF HostInv, OpOK, CreateOK, In
<1>4. ~Moving /\ ~Moving'
  BY <1>1 DEF Moving, In
<1>5. Identities' /\ Seated' /\ Whole' /\ Named' /\ Titles'
  BY <1>1, <1>2, <1>3, <1>4, KeysKeep
<1>6. /\ data' \in [Names -> Dir \cup {NoDir}]
      /\ \A n \in Names \ {op.at} : data'[n] = data[n]
      /\ data'[op.at] # NoDir /\ data'[op.at].root
  BY <1>1, <1>2, KeysInDoes
<1>7. HostTypeOK'
  BY <1>2, <1>6 DEF HostInv, HostTypeOK
<1>8. CreateOK'
  BY <1>1, <1>2, <1>3, <1>6 DEF CreateOK, In, Alone, Exists, Has
<1>9. JoinOK' /\ LeaveOK' /\ PurgeOK' /\ RenameOK'
  BY <1>1 DEF JoinOK, LeaveOK, PurgeOK, RenameOK, In
<1> QED
  BY <1>1, <1>5, <1>7, <1>8, <1>9 DEF HostInv, OpOK

LEMMA CreateConfigKeeps ==
  ASSUME HostInv, CreateConfig
  PROVE  HostInv'
<1>1. /\ op \in Op /\ op # Idle /\ Fits(op.cfg, op.at)
      /\ op.at \in Names /\ op.new \in Names /\ op.cfg \in Conf
      /\ op' \in Op /\ op' # Idle /\ Fits(op'.cfg, op'.at) /\ op'.pc = "create issue"
      /\ op'.at = op.at /\ op'.cfg = op.cfg /\ op'.new = op.new
      /\ op.pc = "create config"
  BY Onward DEF CreateConfig, At
<1>2. /\ conf' = [conf EXCEPT ![op.at] = op.cfg] /\ title' = [title EXCEPT ![Own] = op.at]
      /\ UNCHANGED <<data, unit, run, hand, links, tables, blocks, gone, known, ids, strayed>>
  BY <1>1 DEF CreateConfig, Fits, kernel, service, history
<1>3. /\ op.cfg.mesh = Own /\ op.new = op.at /\ Alone(op.at)
      /\ \A m \in Names \ {op.at} : Has(m) => ~data[m].root
      /\ Has(op.at) /\ data[op.at].root
  BY <1>1 DEF HostInv, OpOK, CreateOK, In
<1>4. /\ conf \in [Names -> Conf \cup {NoConf}]
      /\ title \in [Meshes -> Names \cup {Nothing}]
  BY DEF HostInv, HostTypeOK
<1>5. /\ conf'[op.at] = op.cfg /\ Exists(op.at)'
      /\ \A n \in Names \ {op.at} : conf'[n] = conf[n]
      /\ \A c \in Foreign : title'[c] = title[c]
  BY <1>1, <1>2, <1>4, Distinct DEF Exists, Meshes
<1>6. HostTypeOK'
  BY <1>1, <1>2, <1>4 DEF HostInv, HostTypeOK, Meshes
<1>7. Named' /\ Titles' /\ Identities'
  BY <1>1, <1>2, <1>5, TitlesFrame, IdentitiesFrame, Unchanged DEF HostInv, Named, Exists
<1>8. Whole'
  <2>1. \A n \in Names : Exists(n) => Exists(n)'
    BY <1>1, <1>5 DEF Exists
  <2>2. \A n \in Names : unit'[n] => Exists(n)' /\ Has(n)'
    BY <1>2, <2>1 DEF HostInv, Whole, Has
  <2>3. \A n \in Names : run'[n] # NotRunning \/ hand'[n] # NotRunning => Exists(n)'
    BY <1>2, <2>1 DEF HostInv, Whole
  <2>4. \A m, n \in Names : m # n /\ Exists(m)' /\ Exists(n)' => LinkOf[m] # LinkOf[n]
    <3>1. \A m, n \in Names : m # n /\ Exists(m) /\ Exists(n) => LinkOf[m] # LinkOf[n]
      BY DEF HostInv, Whole
    <3>2. \A n \in Names \ {op.at} : Exists(n)' = Exists(n)
      BY <1>5 DEF Exists
    <3> QED
      BY <1>1, <1>3, <3>1, <3>2 DEF Alone
  <2>5. \A l \in links' : \E n \in Names : Exists(n)' /\ LinkOf[n] = l
    BY <1>1, <1>2, <2>1 DEF HostInv, Whole, In
  <2> QED
    BY <2>2, <2>3, <2>4, <2>5 DEF Whole
<1>9. Seated'
  <2>1. ASSUME NEW p \in known, NEW d \in Names, Has(d), p[1] # Own, p[1] \in Meshes,
               Seat(p[1], d)
        PROVE  Seat(p[1], d)'
    BY <1>1, <1>2, <1>3, <1>5, <2>1 DEF Seat, Exists, In, Meshes
  <2>2. \A p \in known : p[1] \in Meshes
    BY DEF HostInv, HostTypeOK
  <2> QED
    <3>1. \A p \in known' : p[1] \notin strayed' /\ p[2] \notin gone' =>
            \E d \in Names : /\ Has(d)' /\ data'[d].id = p[2]
                             /\ IF p[1] = Own THEN data'[d].root ELSE Seat(p[1], d)'
      <4>1. \A d \in Names : Has(d)' = Has(d)
        BY <1>2 DEF Has
      <4> QED
        BY <1>2, <2>1, <2>2, <4>1 DEF HostInv, Seated
    <3>2. \A c \in Meshes \ strayed', i, j \in 1..MaxIds :
            <<c, i>> \in known' /\ i \notin gone' /\ <<c, j>> \in known' /\ j \notin gone' => i = j
      BY <1>2 DEF HostInv, Seated
    <3>3. \A m, n \in Names :
            Exists(m)' /\ Exists(n)' /\ conf'[m].mesh = conf'[n].mesh /\ conf'[m].mesh # Own
              => m = n
      <4>1. \A m, n \in Names :
              Exists(m) /\ Exists(n) /\ conf[m].mesh = conf[n].mesh /\ conf[m].mesh # Own
                => m = n
        BY <1>1 DEF HostInv, Seated, In
      <4>2. conf'[op.at].mesh = Own /\ \A n \in Names \ {op.at} : Exists(n)' = Exists(n)
        BY <1>3, <1>5 DEF Exists
      <4> QED
        BY <1>5, <4>1, <4>2
    <3> QED
      BY <3>1, <3>2, <3>3 DEF Seated
<1>10. CreateOK'
  BY <1>1, <1>2, <1>3, <1>5 DEF CreateOK, In, Alone, Exists, Has
<1>11. JoinOK' /\ LeaveOK' /\ PurgeOK' /\ RenameOK'
  BY <1>1 DEF JoinOK, LeaveOK, PurgeOK, RenameOK, In
<1> QED
  BY <1>1, <1>6, <1>7, <1>8, <1>9, <1>10, <1>11 DEF HostInv, OpOK

\* The anchor of the mesh made here knows this host by the one directory that
\* holds the anchor file.
LEMMA CreateIssueKeeps ==
  ASSUME HostInv, CreateIssue
  PROVE  HostInv'
<1>1. /\ op \in Op /\ op # Idle /\ Fits(op.cfg, op.at)
      /\ op.at \in Names /\ op.new \in Names /\ op.cfg \in Conf
      /\ op' \in Op /\ op' # Idle /\ Fits(op'.cfg, op'.at) /\ op'.pc = "enable"
      /\ op'.at = op.at /\ op'.cfg = op.cfg /\ op'.new = op.new
      /\ op.pc = "create issue"
  BY Onward DEF CreateIssue, At
<1>2. /\ known' = known \cup {<<Own, data[op.at].id>>}
      /\ UNCHANGED <<conf, data, unit, run, hand, links, tables, blocks, title, strayed, gone, ids>>
  BY <1>1 DEF CreateIssue, Fits, files, kernel, service, history
<1>3. /\ op.new = op.at /\ Has(op.at) /\ data[op.at].root /\ Exists(op.at)
  BY <1>1 DEF HostInv, OpOK, CreateOK, In
<1>4. data[op.at].id \in 1..MaxIds
  BY <1>1, <1>3 DEF HostInv, HostTypeOK, Has, Dir
<1>5. SameData /\ Down /\ ~In({"rename config"}) /\ OpStays
  BY <1>1, <1>2, Unchanged DEF Down, OpStays, Moving, In
<1>6. HostTypeOK'
  BY <1>2, <1>4 DEF HostInv, HostTypeOK, Meshes
<1>7. Named' /\ Titles' /\ Whole'
  BY <1>2, <1>5, NamedFrame, TitlesFrame, WholeFrame
<1>8. Identities'
  <2>1. data[op.at].id <= ids
    BY <1>1, <1>3 DEF HostInv, Identities
  <2>2. \A p \in known' : p[2] <= ids
    BY <1>2, <2>1 DEF HostInv, Identities
  <2> QED
    BY <1>2, <2>2 DEF HostInv, Identities, Has
<1>9. Seated'
  <2>1. \A d \in Names : Has(d)' = Has(d)
    BY <1>2 DEF Has
  <2>2. ASSUME NEW p \in known, NEW d \in Names, Seat(p[1], d)
        PROVE  Seat(p[1], d)'
    BY <1>1, <1>2, <2>2 DEF Seat, Exists, In
  <2>3. \A p \in known' : p[1] \notin strayed' /\ p[2] \notin gone' =>
          \E d \in Names : /\ Has(d)' /\ data'[d].id = p[2]
                           /\ IF p[1] = Own THEN data'[d].root ELSE Seat(p[1], d)'
    <3>1. ASSUME NEW p \in known, p[1] \notin strayed, p[2] \notin gone
          PROVE  \E d \in Names : /\ Has(d)' /\ data'[d].id = p[2]
                                  /\ IF p[1] = Own THEN data'[d].root ELSE Seat(p[1], d)'
      BY <1>2, <2>1, <2>2, <3>1 DEF HostInv, Seated
    <3>2. ASSUME NEW p, p = <<Own, data[op.at].id>>
          PROVE  \E d \in Names : /\ Has(d)' /\ data'[d].id = p[2]
                                  /\ IF p[1] = Own THEN data'[d].root ELSE Seat(p[1], d)'
      BY <1>1, <1>2, <1>3, <2>1, <3>2
    <3> QED
      BY <1>2, <3>1, <3>2
  <2>4. \A i \in 1..MaxIds : <<Own, i>> \in known /\ i \notin gone => i = data[op.at].id
    <3>1. SUFFICES ASSUME NEW i \in 1..MaxIds, <<Own, i>> \in known, i \notin gone
                   PROVE  i = data[op.at].id
      OBVIOUS
    <3>2. Own \notin strayed
      BY DEF HostInv, HostTypeOK
    <3>3. PICK d \in Names : Has(d) /\ data[d].id = i /\ data[d].root
      BY <3>1, <3>2 DEF HostInv, Seated
    <3> QED
      BY <1>1, <1>3, <3>3 DEF HostInv, Identities
  <2>5. \A c \in Meshes \ strayed', i, j \in 1..MaxIds :
          <<c, i>> \in known' /\ i \notin gone' /\ <<c, j>> \in known' /\ j \notin gone' => i = j
    BY <1>2, <2>4 DEF HostInv, Seated
  <2>6. \A m, n \in Names :
          Exists(m)' /\ Exists(n)' /\ conf'[m].mesh = conf'[n].mesh /\ conf'[m].mesh # Own
            => m = n
    BY <1>1, <1>2 DEF HostInv, Seated, Exists, In
  <2> QED
    BY <2>3, <2>5, <2>6 DEF Seated
<1>10. CreateOK' /\ JoinOK' /\ LeaveOK' /\ PurgeOK' /\ RenameOK'
  BY <1>1, <1>2, <1>3 DEF CreateOK, JoinOK, LeaveOK, PurgeOK, RenameOK, In, Exists, Has
<1> QED
  BY <1>1, <1>6, <1>7, <1>8, <1>9, <1>10 DEF HostInv, OpOK

\* The unit of a membership that is laid down completely.
LEMMA EnableUnitKeeps ==
  ASSUME HostInv, EnableUnit
  PROVE  HostInv'
<1>1. /\ op.pc = "enable" /\ op # Idle /\ op.new \in Names /\ op' = Idle
      /\ UNCHANGED <<conf, data, links, tables, blocks, title, strayed, known, gone, ids>>
      /\ Enable(op.new)
  BY AtStep DEF EnableUnit, At, End, files, kernel, mesh, history
<1>2. Exists(op.new) /\ Has(op.new)
  BY <1>1 DEF HostInv, OpOK, CreateOK, In
<1>3. unit \in [Names -> BOOLEAN] /\ run \in [Names -> Conf \cup {NotRunning}]
  BY DEF HostInv, HostTypeOK
<1>4. /\ unit' = unit \/ unit' = [unit EXCEPT ![op.new] = TRUE]
      /\ run' = run \/ run' = [run EXCEPT ![op.new] = NotRunning]
      /\ hand' = hand
  BY <1>1 DEF Enable, SystemdEnable, LaunchdInstall, service
<1>5. /\ unit' \in [Names -> BOOLEAN] /\ run' \in [Names -> Conf \cup {NotRunning}]
      /\ \A n \in Names : unit'[n] => unit[n] \/ n = op.new
      /\ \A n \in Names : run'[n] \in {run[n], NotRunning}
  BY <1>1, <1>3, <1>4
<1>6. HostTypeOK'
  BY <1>1, <1>4, <1>5 DEF HostInv, HostTypeOK
<1>7. Named'
  BY <1>1, <1>4, <1>5 DEF HostInv, Named, Exists
<1>8. OpStays /\ SameData
  BY <1>1, Unchanged DEF OpStays, Moving, In
<1>9. Titles' /\ Identities' /\ Seated'
  BY <1>1, <1>8, TitlesFrame, IdentitiesFrame, SeatedFrame
<1>10. Whole'
  <2>1. \A n \in Names : unit'[n] => Exists(n)' /\ Has(n)'
    BY <1>1, <1>2, <1>5 DEF HostInv, Whole, Exists, Has
  <2>2. \A n \in Names : run'[n] # NotRunning \/ hand'[n] # NotRunning => Exists(n)'
    BY <1>1, <1>4, <1>5 DEF HostInv, Whole, Exists
  <2>3. \A l \in links' : \E n \in Names : Exists(n)' /\ LinkOf[n] = l
    BY <1>1 DEF HostInv, Whole, Exists, In
  <2>4. \A m, n \in Names : m # n /\ Exists(m)' /\ Exists(n)' => LinkOf[m] # LinkOf[n]
    BY <1>1 DEF HostInv, Whole, Exists
  <2> QED
    BY <2>1, <2>2, <2>3, <2>4 DEF Whole
<1>11. OpOK'
  BY <1>1 DEF OpOK, CreateOK, JoinOK, LeaveOK, PurgeOK, RenameOK, In
<1> QED
  BY <1>6, <1>7, <1>9, <1>10, <1>11 DEF HostInv

LEMMA JoinKeysKeeps ==
  ASSUME HostInv, JoinKeys
  PROVE  HostInv'
<1>1. /\ op \in Op /\ op # Idle /\ Fits(op.cfg, op.at)
      /\ op.at \in Names /\ op.new \in Names /\ op.cfg \in Conf
      /\ op' \in Op /\ op' # Idle /\ Fits(op'.cfg, op'.at) /\ op'.pc = "join door"
      /\ op'.at = op.at /\ op'.cfg = op.cfg /\ op'.new = op.new
      /\ op.pc = "join keys"
  BY Onward DEF JoinKeys, At
<1>2. /\ KeysIn(op.at, FALSE)
      /\ UNCHANGED <<conf, unit, run, hand, links, tables, blocks, title, strayed, gone, known>>
  BY <1>1 DEF JoinKeys, Fits, kernel, service, mesh
<1>3. ~Moving /\ ~Moving'
  BY <1>1 DEF Moving, In
<1>4. Identities' /\ Seated' /\ Whole' /\ Named' /\ Titles'
  BY <1>1, <1>2, <1>3, KeysKeep
<1>5. /\ data' \in [Names -> Dir \cup {NoDir}]
      /\ \A n \in Names \ {op.at} : data'[n] = data[n]
      /\ data'[op.at] # NoDir
      /\ ~Has(op.at) => ~data'[op.at].root
      /\ Has(op.at) => data'[op.at].root = (data[op.at].root \/ FALSE)
  BY <1>1, <1>2, KeysInDoes
<1>6. HostTypeOK'
  BY <1>2, <1>5 DEF HostInv, HostTypeOK
<1>7. JoinOK'
  <2>1. /\ op.cfg.mesh \in Foreign /\ op.new = op.at /\ Alone(op.at)
        /\ op.cfg.mesh \in strayed \/ title[op.cfg.mesh] = op.at
        /\ \A m \in Names : Exists(m) => /\ conf[m].mesh = op.cfg.mesh <=> m = op.at
                                         /\ Has(m) => ~data[m].root
        /\ Has(op.at) /\ ~Exists(op.at) =>
             \A c \in Foreign \ (strayed \cup {op.cfg.mesh}) : <<c, data[op.at].id>> \notin known
    BY <1>1 DEF HostInv, OpOK, JoinOK, In
  <2>2. \A m \in Names : Exists(m)' => (Has(m)' => ~data'[m].root)
    BY <1>2, <1>5, <2>1 DEF Exists, Has
  <2>3. ASSUME NEW c \in Foreign \ (strayed \cup {op.cfg.mesh}), ~Exists(op.at)
        PROVE  <<c, data'[op.at].id>> \notin known
    <3>1. CASE Has(op.at)
      <4>1. data'[op.at].id = data[op.at].id
        BY <1>1, <1>2, <3>1, KeysInDoes
      <4> QED
        BY <2>1, <2>3, <3>1, <4>1
    <3>2. CASE ~Has(op.at)
      <4>1. data'[op.at].id = ids + 1
        BY <1>1, <1>2, <3>2, KeysInDoes
      <4>2. \A p \in known : p[2] <= ids
        BY DEF HostInv, Identities
      <4>3. ids \in 0..MaxIds
        BY DEF HostInv, Identities
      <4> QED
        BY <4>1, <4>2, <4>3
    <3> QED
      BY <3>1, <3>2
  <2> QED
    BY <1>1, <1>2, <1>5, <2>1, <2>2, <2>3 DEF JoinOK, In, Alone, Exists, Has
<1>8. CreateOK' /\ LeaveOK' /\ PurgeOK' /\ RenameOK'
  BY <1>1 DEF CreateOK, LeaveOK, PurgeOK, RenameOK, In
<1> QED
  BY <1>1, <1>4, <1>6, <1>7, <1>8 DEF HostInv, OpOK

\* The holder takes on the identity in the directory the mesh knows already, if
\* it knows one that still exists.
LEMMA JoinDoorKeeps ==
  ASSUME HostInv, JoinDoor
  PROVE  HostInv'
<1>1. /\ op \in Op /\ op # Idle /\ Fits(op.cfg, op.at)
      /\ op.at \in Names /\ op.new \in Names /\ op.cfg \in Conf
      /\ op' \in Op /\ op' # Idle /\ Fits(op'.cfg, op'.at) /\ op'.pc = "join config"
      /\ op'.at = op.at /\ op'.cfg = op.cfg /\ op'.new = op.new
      /\ op.pc = "join door"
  BY Onward DEF JoinDoor, At
<1> DEFINE c == op.cfg.mesh
           k == <<c, data[op.at].id>>
<1>2. /\ known' = known \cup {k}
      /\ UNCHANGED <<conf, data, unit, run, hand, links, tables, blocks, title, strayed, gone, ids>>
  BY <1>1 DEF JoinDoor, EnrolledAt, Fits, files, kernel, service, history
<1>3. /\ c \in Foreign /\ op.new = op.at /\ Alone(op.at) /\ Has(op.at)
      /\ c \in strayed \/ title[c] = op.at
      /\ \A m \in Names : Exists(m) => /\ conf[m].mesh = c <=> m = op.at
                                       /\ Has(m) => ~data[m].root
      /\ ~Exists(op.at) =>
           \A e \in Foreign \ (strayed \cup {c}) : <<e, data[op.at].id>> \notin known
  BY <1>1 DEF HostInv, OpOK, JoinOK, In
<1>4. data[op.at].id \in 1..MaxIds /\ c \in Meshes /\ c # Own
  BY <1>1, <1>3 DEF HostInv, HostTypeOK, Has, Dir, Meshes
<1>5. SameData /\ Down /\ ~In({"rename config"}) /\ OpStays
  BY <1>1, <1>2, Unchanged DEF Down, OpStays, Moving, In
<1>6. HostTypeOK'
  BY <1>2, <1>4 DEF HostInv, HostTypeOK
<1>7. Named' /\ Titles' /\ Whole'
  BY <1>2, <1>5, NamedFrame, TitlesFrame, WholeFrame
<1>8. Identities'
  <2>1. data[op.at].id <= ids
    BY <1>1, <1>3 DEF HostInv, Identities
  <2>2. \A p \in known' : p[2] <= ids
    BY <1>2, <2>1 DEF HostInv, Identities
  <2> QED
    BY <1>2, <2>2 DEF HostInv, Identities, Has
<1>9. Seated'
  <2>1. \A d \in Names : Has(d)' = Has(d)
    BY <1>2 DEF Has
  <2>2. ASSUME NEW p, NEW d \in Names, Seat(p[1], d)
        PROVE  Seat(p[1], d)'
    BY <1>1, <1>2, <2>2 DEF Seat, Exists, In
  <2>3. c \notin strayed => Seat(c, op.at)
    BY <1>1, <1>3 DEF Seat, In
  <2>4. \A p \in known' : p[1] \notin strayed' /\ p[2] \notin gone' =>
          \E d \in Names : /\ Has(d)' /\ data'[d].id = p[2]
                           /\ IF p[1] = Own THEN data'[d].root ELSE Seat(p[1], d)'
    <3>1. ASSUME NEW p \in known, p[1] \notin strayed, p[2] \notin gone
          PROVE  \E d \in Names : /\ Has(d)' /\ data'[d].id = p[2]
                                  /\ IF p[1] = Own THEN data'[d].root ELSE Seat(p[1], d)'
      BY <1>2, <2>1, <2>2, <3>1 DEF HostInv, Seated
    <3>2. ASSUME NEW p, p = k, c \notin strayed
          PROVE  \E d \in Names : /\ Has(d)' /\ data'[d].id = p[2]
                                  /\ IF p[1] = Own THEN data'[d].root ELSE Seat(p[1], d)'
      <4>1. p[1] = c /\ p[2] = data[op.at].id
        BY <3>2
      <4>2. c # Own
        BY <1>4
      <4> QED
        BY <1>1, <1>2, <1>3, <2>1, <2>2, <2>3, <3>2, <4>1, <4>2
    <3> QED
      BY <1>2, <3>1, <3>2
  <2>5. \A i \in 1..MaxIds : c \notin strayed /\ <<c, i>> \in known /\ i \notin gone
                             => i = data[op.at].id
    <3>1. SUFFICES ASSUME NEW i \in 1..MaxIds, c \notin strayed, <<c, i>> \in known, i \notin gone
                   PROVE  i = data[op.at].id
      OBVIOUS
    <3>2. PICK d \in Names : Has(d) /\ data[d].id = i /\ Seat(c, d)
      BY <1>4, <3>1 DEF HostInv, Seated
    <3>3. d = op.at
      BY <1>1, <1>3, <3>1, <3>2 DEF Seat, In
    <3> QED
      BY <3>2, <3>3
  <2>6. \A e \in Meshes \ strayed', i, j \in 1..MaxIds :
          <<e, i>> \in known' /\ i \notin gone' /\ <<e, j>> \in known' /\ j \notin gone' => i = j
    BY <1>2, <2>5 DEF HostInv, Seated
  <2>7. \A m, n \in Names :
          Exists(m)' /\ Exists(n)' /\ conf'[m].mesh = conf'[n].mesh /\ conf'[m].mesh # Own
            => m = n
    BY <1>1, <1>2 DEF HostInv, Seated, Exists, In
  <2> QED
    BY <2>4, <2>6, <2>7 DEF Seated
<1>10. JoinOK'
  BY <1>1, <1>2, <1>3 DEF JoinOK, In, Alone, Exists, Has
<1>11. CreateOK' /\ LeaveOK' /\ PurgeOK' /\ RenameOK'
  BY <1>1 DEF CreateOK, LeaveOK, PurgeOK, RenameOK, In
<1> QED
  BY <1>1, <1>6, <1>7, <1>8, <1>9, <1>10, <1>11 DEF HostInv, OpOK

LEMMA JoinConfigKeeps ==
  ASSUME HostInv, JoinConfig
  PROVE  HostInv'
<1>1. /\ op \in Op /\ op # Idle /\ Fits(op.cfg, op.at)
      /\ op.at \in Names /\ op.new \in Names /\ op.cfg \in Conf
      /\ op' \in Op /\ op' # Idle /\ Fits(op'.cfg, op'.at) /\ op'.pc = "enable"
      /\ op'.at = op.at /\ op'.cfg = op.cfg /\ op'.new = op.new
      /\ op.pc = "join config"
  BY Onward DEF JoinConfig, At
<1> DEFINE c == op.cfg.mesh
<1>2. /\ conf' = [conf EXCEPT ![op.at] = op.cfg]
      /\ UNCHANGED <<data, unit, run, hand, links, tables, blocks, title, strayed, gone, known, ids>>
  BY <1>1 DEF JoinConfig, kernel, service, mesh, history
<1>3. /\ c \in Foreign /\ op.new = op.at /\ Alone(op.at) /\ Has(op.at)
      /\ c \in strayed \/ title[c] = op.at
      /\ \A m \in Names : Exists(m) => /\ conf[m].mesh = c <=> m = op.at
                                       /\ Has(m) => ~data[m].root
      /\ ~Exists(op.at) =>
           \A e \in Foreign \ (strayed \cup {c}) : <<e, data[op.at].id>> \notin known
  BY <1>1 DEF HostInv, OpOK, JoinOK, In
<1>4. conf \in [Names -> Conf \cup {NoConf}]
  BY DEF HostInv, HostTypeOK
<1>5. /\ conf'[op.at] = op.cfg /\ Exists(op.at)'
      /\ \A n \in Names \ {op.at} : conf'[n] = conf[n] /\ Exists(n)' = Exists(n)
  BY <1>1, <1>2, <1>4, Distinct DEF Exists
<1>6. HostTypeOK'
  BY <1>1, <1>2, <1>4 DEF HostInv, HostTypeOK
<1>7. Named' /\ Titles' /\ Identities'
  BY <1>1, <1>2, <1>5, TitlesFrame, IdentitiesFrame, Unchanged DEF HostInv, Named, Exists
<1>8. Whole'
  <2>1. \A n \in Names : Exists(n) => Exists(n)'
    BY <1>1, <1>5
  <2>2. \A n \in Names : unit'[n] => Exists(n)' /\ Has(n)'
    BY <1>2, <2>1 DEF HostInv, Whole, Has
  <2>3. \A n \in Names : run'[n] # NotRunning \/ hand'[n] # NotRunning => Exists(n)'
    BY <1>2, <2>1 DEF HostInv, Whole
  <2>4. \A m, n \in Names : m # n /\ Exists(m)' /\ Exists(n)' => LinkOf[m] # LinkOf[n]
    BY <1>1, <1>3, <1>5 DEF HostInv, Whole, Alone
  <2>5. \A l \in links' : \E n \in Names : Exists(n)' /\ LinkOf[n] = l
    BY <1>1, <1>2, <2>1 DEF HostInv, Whole, In
  <2> QED
    BY <2>2, <2>3, <2>4, <2>5 DEF Whole
<1>9. Seated'
  <2>1. \A d \in Names : Has(d)' = Has(d)
    BY <1>2 DEF Has
  <2>2. ASSUME NEW b \in Foreign \ strayed, NEW d \in Names, Has(d), Seat(b, d),
               <<b, data[d].id>> \in known
        PROVE  Seat(b, d)'
    <3>1. CASE d # op.at
      BY <1>1, <1>2, <1>5, <2>2, <3>1 DEF Seat, In
    <3>2. CASE d = op.at
      <4>1. b = c
        BY <1>1, <1>3, <2>2, <3>2 DEF Seat, In
      <4> QED
        BY <1>1, <1>5, <3>2, <4>1 DEF Seat
    <3> QED
      BY <3>1, <3>2
  <2>3. \A p \in known : p[1] # Own => p[1] \in Foreign
    BY DEF HostInv, HostTypeOK, Meshes
  <2>4. \A p \in known' : p[1] \notin strayed' /\ p[2] \notin gone' =>
          \E d \in Names : /\ Has(d)' /\ data'[d].id = p[2]
                           /\ IF p[1] = Own THEN data'[d].root ELSE Seat(p[1], d)'
    <3>1. SUFFICES ASSUME NEW p \in known, p[1] \notin strayed, p[2] \notin gone
                   PROVE  \E d \in Names : /\ Has(d)' /\ data'[d].id = p[2]
                                           /\ IF p[1] = Own THEN data'[d].root
                                              ELSE Seat(p[1], d)'
      BY <1>2
    <3>2. PICK d \in Names : /\ Has(d) /\ data[d].id = p[2]
                             /\ IF p[1] = Own THEN data[d].root ELSE Seat(p[1], d)
      BY <3>1 DEF HostInv, Seated
    <3>3. p = <<p[1], data[d].id>>
      BY <3>1, <3>2 DEF HostInv, HostTypeOK
    <3> QED
      BY <1>2, <2>1, <2>2, <2>3, <3>1, <3>2, <3>3
  <2>5. \A e \in Meshes \ strayed', i, j \in 1..MaxIds :
          <<e, i>> \in known' /\ i \notin gone' /\ <<e, j>> \in known' /\ j \notin gone' => i = j
    BY <1>2 DEF HostInv, Seated
  <2>6. \A m, n \in Names :
          Exists(m)' /\ Exists(n)' /\ conf'[m].mesh = conf'[n].mesh /\ conf'[m].mesh # Own
            => m = n
    <3>1. \A m, n \in Names :
            Exists(m) /\ Exists(n) /\ conf[m].mesh = conf[n].mesh /\ conf[m].mesh # Own
              => m = n
      BY <1>1 DEF HostInv, Seated, In
    <3>2. \A n \in Names \ {op.at} : Exists(n)' => conf'[n].mesh # conf'[op.at].mesh
      BY <1>3, <1>5
    <3> QED
      BY <1>5, <3>1, <3>2
  <2> QED
    BY <2>4, <2>5, <2>6 DEF Seated
<1>10. CreateOK' /\ JoinOK' /\ LeaveOK' /\ PurgeOK' /\ RenameOK'
  BY <1>1, <1>2, <1>3, <1>5 DEF CreateOK, JoinOK, LeaveOK, PurgeOK, RenameOK, In, Has
<1> QED
  BY <1>1, <1>6, <1>7, <1>8, <1>9, <1>10 DEF HostInv, OpOK

-----------------------------------------------------------------------------
(* gw leave, gw purge and the first step of gw rename-mesh *)

\* A step that only stops a daemon, or takes a link, a table or a block away.
LEMMA ClearsKeep ==
  ASSUME HostInv, Down, ~Moving, ~Moving', HostTypeOK', links' \subseteq links,
         UNCHANGED <<conf, data, ids, known, gone, title, strayed>>
  PROVE  Named' /\ Whole' /\ Identities' /\ Seated' /\ Titles'
<1>1. SameData /\ OpStays /\ ~In({"rename config"})
  BY Unchanged DEF OpStays, Moving, In
<1> QED
  BY <1>1, NamedFrame, WholeFrame, IdentitiesFrame, SeatedFrame, TitlesFrame

LEMMA DisableDoes ==
  ASSUME HostInv, NEW n \in Names, Disable(n)
  PROVE  /\ unit' \in [Names -> BOOLEAN] /\ run' \in [Names -> Conf \cup {NotRunning}]
         /\ Down /\ Stopped(n)' /\ hand' = hand
<1>1. unit \in [Names -> BOOLEAN] /\ run \in [Names -> Conf \cup {NotRunning}]
  BY DEF HostInv, HostTypeOK
<1>2. /\ unit' = [unit EXCEPT ![n] = FALSE] /\ run' = [run EXCEPT ![n] = NotRunning]
      /\ hand' = hand
  BY DEF Disable
<1> QED
  BY <1>1, <1>2 DEF Down, Stopped

LEMMA LeaveAskKeeps ==
  ASSUME HostInv, LeaveAsk
  PROVE  HostInv'
<1>1. /\ op \in Op /\ op # Idle /\ Fits(op.cfg, op.at) /\ op.pc = "leave ask"
      /\ op.at \in Names
  BY AtStep DEF LeaveAsk, At
<1>2. \/ op' = Idle
      \/ /\ op' \in Op /\ op' # Idle /\ Fits(op'.cfg, op'.at) /\ op'.pc = "leave stop"
         /\ op'.at = op.at
  BY <1>1, Onward DEF LeaveAsk, End
<1>3. /\ KeysIn(op.at, FALSE) /\ known' \subseteq known
      /\ UNCHANGED <<conf, unit, run, hand, links, tables, blocks, title, strayed, gone>>
  BY <1>1 DEF LeaveAsk, Fits, kernel, service
<1>4. ~Moving /\ ~Moving'
  BY <1>1, <1>2 DEF Moving, In
<1>5. Identities' /\ Seated' /\ Whole' /\ Named' /\ Titles'
  BY <1>1, <1>3, <1>4, KeysKeep
<1>6. HostTypeOK'
  BY <1>1, <1>3, KeysInDoes DEF HostInv, HostTypeOK
<1>7. LeaveOK'
  BY <1>1, <1>2, <1>3 DEF HostInv, OpOK, LeaveOK, In, Exists
<1>8. CreateOK' /\ JoinOK' /\ PurgeOK' /\ RenameOK'
  BY <1>2 DEF CreateOK, JoinOK, PurgeOK, RenameOK, In
<1> QED
  BY <1>2, <1>5, <1>6, <1>7, <1>8 DEF HostInv, OpOK

LEMMA LeaveStopKeeps ==
  ASSUME HostInv, LeaveStop
  PROVE  HostInv'
<1>1. /\ op \in Op /\ op # Idle /\ Fits(op.cfg, op.at) /\ op.pc = "leave stop"
      /\ op.at \in Names
      /\ op' \in Op /\ op' # Idle /\ Fits(op'.cfg, op'.at) /\ op'.pc = "leave link"
      /\ op'.at = op.at
  BY Onward DEF LeaveStop, At
<1>2. Disable(op.at) /\ UNCHANGED <<conf, data, links, tables, blocks, title, strayed, known, gone, ids>>
  BY <1>1 DEF LeaveStop, Fits, files, kernel, mesh, history
<1>3. HostTypeOK' /\ Down
  BY <1>1, <1>2, DisableDoes DEF HostInv, HostTypeOK
<1>4. ~Moving /\ ~Moving'
  BY <1>1 DEF Moving, In
<1>5. Named' /\ Whole' /\ Identities' /\ Seated' /\ Titles'
  BY <1>2, <1>3, <1>4, ClearsKeep
<1>6. CreateOK' /\ JoinOK' /\ LeaveOK' /\ PurgeOK' /\ RenameOK'
  BY <1>1, <1>2 DEF HostInv, OpOK, CreateOK, JoinOK, LeaveOK, PurgeOK, RenameOK, In, Exists
<1> QED
  BY <1>1, <1>3, <1>5, <1>6 DEF HostInv, OpOK

LEMMA LeaveLinkKeeps ==
  ASSUME HostInv, LeaveLink
  PROVE  HostInv'
<1>1. /\ op \in Op /\ op # Idle /\ Fits(op.cfg, op.at) /\ op.pc = "leave link"
      /\ op.at \in Names
      /\ op' \in Op /\ op' # Idle /\ Fits(op'.cfg, op'.at) /\ op'.pc = "leave hosts"
      /\ op'.at = op.at
  BY Onward DEF LeaveLink, At
<1>2. /\ links' \subseteq links
      /\ UNCHANGED <<conf, data, unit, run, hand, tables, blocks, title, strayed, known, gone, ids>>
  BY <1>1 DEF LeaveLink, files, service, mesh, history
<1>3. HostTypeOK' /\ Down
  BY <1>1, <1>2 DEF HostInv, HostTypeOK, Down
<1>4. ~Moving /\ ~Moving'
  BY <1>1 DEF Moving, In
<1>5. Named' /\ Whole' /\ Identities' /\ Seated' /\ Titles'
  BY <1>2, <1>3, <1>4, ClearsKeep
<1>6. CreateOK' /\ JoinOK' /\ LeaveOK' /\ PurgeOK' /\ RenameOK'
  BY <1>1, <1>2 DEF HostInv, OpOK, CreateOK, JoinOK, LeaveOK, PurgeOK, RenameOK, In, Exists
<1> QED
  BY <1>1, <1>3, <1>5, <1>6 DEF HostInv, OpOK

LEMMA PurgeStopKeeps ==
  ASSUME HostInv, PurgeStop
  PROVE  HostInv'
<1>1. /\ op \in Op /\ op # Idle /\ Fits(op.cfg, op.at) /\ op.pc = "purge stop"
      /\ op.at \in Names
      /\ op' \in Op /\ op' # Idle /\ Fits(op'.cfg, op'.at) /\ op'.pc = "purge stray"
      /\ op'.at = op.at
  BY Onward DEF PurgeStop, At
<1>2. Disable(op.at) /\ UNCHANGED <<conf, data, links, tables, blocks, title, strayed, known, gone, ids>>
  BY <1>1 DEF PurgeStop, Fits, files, kernel, mesh, history
<1>3. HostTypeOK' /\ Down /\ Stopped(op.at)'
  BY <1>1, <1>2, DisableDoes DEF HostInv, HostTypeOK, Stopped
<1>4. ~Moving /\ ~Moving'
  BY <1>1 DEF Moving, In
<1>5. Named' /\ Whole' /\ Identities' /\ Seated' /\ Titles'
  BY <1>2, <1>3, <1>4, ClearsKeep
<1>6. PurgeOK'
  BY <1>1, <1>2, <1>3 DEF HostInv, OpOK, PurgeOK, In, Exists, Stopped
<1>7. CreateOK' /\ JoinOK' /\ LeaveOK' /\ RenameOK'
  BY <1>1 DEF CreateOK, JoinOK, LeaveOK, RenameOK, In
<1> QED
  BY <1>1, <1>3, <1>5, <1>6, <1>7 DEF HostInv, OpOK

LEMMA PurgeStrayKeeps ==
  ASSUME HostInv, PurgeStray
  PROVE  HostInv'
<1>1. /\ op \in Op /\ op # Idle /\ Fits(op.cfg, op.at) /\ op.pc = "purge stray"
      /\ op.at \in Names
      /\ op' \in Op /\ op' # Idle /\ Fits(op'.cfg, op'.at) /\ op'.pc = "purge link"
      /\ op'.at = op.at
  BY Onward DEF PurgeStray, At
<1>2. /\ hand' = [hand EXCEPT ![op.at] = NotRunning]
      /\ UNCHANGED <<conf, data, unit, run, links, tables, blocks, title, strayed, known, gone, ids>>
  BY <1>1 DEF PurgeStray, files, kernel, mesh, history
<1>3. /\ hand \in [Names -> Conf \cup {NotRunning}]
      /\ Exists(op.at) /\ Stopped(op.at)
  BY <1>1 DEF HostInv, HostTypeOK, OpOK, PurgeOK, In
<1>4. HostTypeOK' /\ Down /\ Quiet(op.at)'
  BY <1>1, <1>2, <1>3 DEF HostInv, HostTypeOK, Down, Stopped, Quiet
<1>5. ~Moving /\ ~Moving'
  BY <1>1 DEF Moving, In
<1>6. Named' /\ Whole' /\ Identities' /\ Seated' /\ Titles'
  BY <1>2, <1>4, <1>5, ClearsKeep
<1>7. PurgeOK'
  BY <1>1, <1>2, <1>3, <1>4 DEF PurgeOK, In, Exists
<1>8. CreateOK' /\ JoinOK' /\ LeaveOK' /\ RenameOK'
  BY <1>1 DEF CreateOK, JoinOK, LeaveOK, RenameOK, In
<1> QED
  BY <1>1, <1>4, <1>6, <1>7, <1>8 DEF HostInv, OpOK

LEMMA PurgeLinkKeeps ==
  ASSUME HostInv, PurgeLink
  PROVE  HostInv'
<1>1. /\ op \in Op /\ op # Idle /\ Fits(op.cfg, op.at) /\ op.pc = "purge link"
      /\ op.at \in Names
      /\ op' \in Op /\ op' # Idle /\ Fits(op'.cfg, op'.at) /\ op'.pc = "purge data"
      /\ op'.at = op.at
  BY Onward DEF PurgeLink, At
<1>2. /\ links' = links \ {LinkOf[op.at]} /\ tables' \subseteq tables
      /\ UNCHANGED <<conf, data, unit, run, hand, blocks, title, strayed, known, gone, ids>>
  BY <1>1 DEF PurgeLink, Fits, files, service, mesh, history
<1>3. HostTypeOK' /\ Down
  BY <1>1, <1>2 DEF HostInv, HostTypeOK, Down
<1>4. ~Moving /\ ~Moving'
  BY <1>1 DEF Moving, In
<1>5. Named' /\ Whole' /\ Identities' /\ Seated' /\ Titles'
  BY <1>2, <1>3, <1>4, ClearsKeep
<1>6. PurgeOK'
  BY <1>1, <1>2 DEF HostInv, OpOK, PurgeOK, In, Exists, Stopped, Quiet
<1>7. CreateOK' /\ JoinOK' /\ LeaveOK' /\ RenameOK'
  BY <1>1 DEF CreateOK, JoinOK, LeaveOK, RenameOK, In
<1> QED
  BY <1>1, <1>3, <1>5, <1>6, <1>7 DEF HostInv, OpOK

\* The directory goes, and with it an identity that nothing else holds.
LEMMA PurgeDataKeeps ==
  ASSUME HostInv, PurgeData
  PROVE  HostInv'
<1>1. /\ op \in Op /\ op # Idle /\ Fits(op.cfg, op.at) /\ op.pc = "purge data"
      /\ op.at \in Names
      /\ op' \in Op /\ op' # Idle /\ Fits(op'.cfg, op'.at) /\ op'.pc = "purge config"
      /\ op'.at = op.at
  BY Onward DEF PurgeData, At
<1>2. /\ data' = [data EXCEPT ![op.at] = NoDir]
      /\ gone' = gone \cup (IF Has(op.at) THEN {data[op.at].id} ELSE {})
      /\ UNCHANGED <<conf, unit, run, hand, links, tables, blocks, title, strayed, known, ids>>
  BY <1>1 DEF PurgeData, Fits, Has, kernel, service, mesh
<1>3. /\ data \in [Names -> Dir \cup {NoDir}]
      /\ Exists(op.at) /\ Quiet(op.at) /\ LinkOf[op.at] \notin links
  BY <1>1 DEF HostInv, HostTypeOK, OpOK, PurgeOK, In
<1>4. /\ ~Has(op.at)'
      /\ \A n \in Names \ {op.at} : data'[n] = data[n] /\ Has(n)' = Has(n)
      /\ data' \in [Names -> Dir \cup {NoDir}]
  BY <1>1, <1>2, <1>3 DEF Has
<1>5. Has(op.at) => data[op.at].id \in 1..MaxIds /\ data[op.at].id <= ids
  BY <1>1, <1>3 DEF HostInv, Identities, Has, Dir
<1>6. HostTypeOK'
  <2>1. gone' \subseteq 1..MaxIds
    BY <1>2, <1>5 DEF HostInv, HostTypeOK
  <2> QED
    BY <1>2, <1>4, <2>1 DEF HostInv, HostTypeOK
<1>7. Named' /\ Titles'
  BY <1>2 DEF HostInv, Named, Titles, Exists
<1>8. Whole'
  <2>1. \A n \in Names : unit'[n] => Exists(n)' /\ Has(n)'
    BY <1>1, <1>2, <1>3, <1>4 DEF HostInv, Whole, Exists, Stopped, Quiet
  <2>2. \A n \in Names : run'[n] # NotRunning \/ hand'[n] # NotRunning => Exists(n)'
    BY <1>2 DEF HostInv, Whole, Exists
  <2>3. \A m, n \in Names : m # n /\ Exists(m)' /\ Exists(n)' => LinkOf[m] # LinkOf[n]
    BY <1>2 DEF HostInv, Whole, Exists
  <2>4. \A l \in links' : \E n \in Names : Exists(n)' /\ LinkOf[n] = l
    BY <1>1, <1>2 DEF HostInv, Whole, Exists, In
  <2> QED
    BY <2>1, <2>2, <2>3, <2>4 DEF Whole
<1>9. Identities'
  <2>1. \A n \in Names : Has(n)' => n # op.at /\ Has(n) /\ data'[n] = data[n]
    BY <1>1, <1>4 DEF Has
  <2>2. \A n \in Names : Has(n)' => data'[n].id <= ids' /\ data'[n].id \notin gone'
    <3>1. SUFFICES ASSUME NEW n \in Names, Has(n)'
                   PROVE  data'[n].id <= ids' /\ data'[n].id \notin gone'
      OBVIOUS
    <3>2. n # op.at /\ Has(n) /\ data'[n] = data[n]
      BY <2>1, <3>1
    <3>3. data[n].id <= ids /\ data[n].id \notin gone
      BY <3>2 DEF HostInv, Identities
    <3>4. Has(op.at) => data[n].id # data[op.at].id
      BY <1>1, <3>2 DEF HostInv, Identities
    <3> QED
      BY <1>2, <3>2, <3>3, <3>4
  <2>3. \A i \in gone' : i <= ids'
    BY <1>2, <1>5 DEF HostInv, Identities
  <2>4. \A m, n \in Names : Has(m)' /\ Has(n)' /\ data'[m].id = data'[n].id => m = n
    BY <2>1 DEF HostInv, Identities
  <2>5. \A m, n \in Names : Has(m)' /\ Has(n)' /\ data'[m].root /\ data'[n].root => m = n
    BY <2>1 DEF HostInv, Identities
  <2> QED
    BY <1>2, <2>2, <2>3, <2>4, <2>5 DEF HostInv, Identities
<1>10. Seated'
  <2>1. ASSUME NEW p \in known, p[1] \notin strayed, p[2] \notin gone'
        PROVE  \E d \in Names : /\ Has(d)' /\ data'[d].id = p[2]
                                /\ IF p[1] = Own THEN data'[d].root ELSE Seat(p[1], d)'
    <3>1. PICK d \in Names : /\ Has(d) /\ data[d].id = p[2]
                             /\ IF p[1] = Own THEN data[d].root ELSE Seat(p[1], d)
      BY <1>2, <2>1 DEF HostInv, Seated
    <3>2. d # op.at
      BY <1>2, <2>1, <3>1
    <3> QED
      BY <1>1, <1>2, <1>4, <3>1, <3>2 DEF Seat, Exists, In
  <2> QED
    BY <1>1, <1>2, <2>1 DEF HostInv, Seated, Exists, In
<1>11. PurgeOK'
  BY <1>1, <1>2, <1>3, <1>4 DEF PurgeOK, In, Exists, Stopped, Quiet
<1>12. CreateOK' /\ JoinOK' /\ LeaveOK' /\ RenameOK'
  BY <1>1 DEF CreateOK, JoinOK, LeaveOK, RenameOK, In
<1> QED
  BY <1>1, <1>6, <1>7, <1>8, <1>9, <1>10, <1>11, <1>12 DEF HostInv, OpOK

\* A config goes that nothing stands on: no unit, daemon, interface or directory.
LEMMA ConfigGoes ==
  ASSUME HostInv, NEW n \in Names, conf' = [conf EXCEPT ![n] = NoConf],
         UNCHANGED <<data, links, tables, unit, run, hand, blocks, title, strayed, known, gone, ids>>,
         ~Has(n), Quiet(n), LinkOf[n] \notin links,
         ~In({"rename link", "rename config"}), ~Moving',
         In({"rename drop"}) => op.at = n
  PROVE  HostTypeOK' /\ Named' /\ Titles' /\ Identities' /\ Whole' /\ Seated'
<1>1. conf \in [Names -> Conf \cup {NoConf}]
  BY DEF HostInv, HostTypeOK
<1>2. /\ ~Exists(n)' /\ \A m \in Names \ {n} : conf'[m] = conf[m] /\ Exists(m)' = Exists(m)
  BY <1>1 DEF Exists
<1>3. HostTypeOK'
  BY <1>1 DEF HostInv, HostTypeOK
<1>4. Named' /\ Titles' /\ Identities'
  BY <1>2, IdentitiesFrame, TitlesFrame, Unchanged DEF HostInv, Named
<1>5. Whole'
  <2>1. \A m \in Names : unit'[m] => Exists(m)' /\ Has(m)'
    BY <1>2 DEF HostInv, Whole, Stopped, Quiet, Has
  <2>2. \A m \in Names : run'[m] # NotRunning \/ hand'[m] # NotRunning => Exists(m)'
    BY <1>2 DEF HostInv, Whole, Stopped, Quiet
  <2>3. \A m, k \in Names : m # k /\ Exists(m)' /\ Exists(k)' => LinkOf[m] # LinkOf[k]
    BY <1>2 DEF HostInv, Whole
  <2>4. \A l \in links' : \E m \in Names : Exists(m)' /\ LinkOf[m] = l
    <3>1. SUFFICES ASSUME NEW l \in links
                   PROVE  \E m \in Names : Exists(m)' /\ LinkOf[m] = l
      OBVIOUS
    <3>2. ~In({"rename config"})
      BY DEF In
    <3>3. PICK m \in Names : Exists(m) /\ LinkOf[m] = l
      BY <3>2 DEF HostInv, Whole
    <3> QED
      BY <1>2, <3>3
  <2> QED
    BY <2>1, <2>2, <2>3, <2>4 DEF Whole
<1>6. Seated'
  <2>1. \A c, d : d \in Names /\ Has(d) /\ Seat(c, d) => Seat(c, d)'
    BY <1>2 DEF Seat, Moving, In
  <2>2. \A p \in known' : p[1] \notin strayed' /\ p[2] \notin gone' =>
          \E d \in Names : /\ Has(d)' /\ data'[d].id = p[2]
                           /\ IF p[1] = Own THEN data'[d].root ELSE Seat(p[1], d)'
    BY <2>1 DEF HostInv, Seated, Has
  <2>3. \A c \in Meshes \ strayed', i, j \in 1..MaxIds :
          <<c, i>> \in known' /\ i \notin gone' /\ <<c, j>> \in known' /\ j \notin gone' => i = j
    BY DEF HostInv, Seated
  <2>4. \A m, k \in Names :
          Exists(m)' /\ Exists(k)' /\ conf'[m].mesh = conf'[k].mesh /\ conf'[m].mesh # Own
            => m = k
    <3>1. SUFFICES ASSUME NEW m \in Names \ {n}, NEW k \in Names \ {n}, Exists(m), Exists(k),
                          conf[m].mesh = conf[k].mesh, conf[m].mesh # Own
                   PROVE  m = k
      BY <1>2
    <3> QED
      BY <3>1 DEF HostInv, Seated
  <2> QED
    BY <2>2, <2>3, <2>4 DEF Seated
<1> QED
  BY <1>3, <1>4, <1>5, <1>6

LEMMA PurgeConfigKeeps ==
  ASSUME HostInv, PurgeConfig
  PROVE  HostInv'
<1>1. /\ op \in Op /\ op # Idle /\ Fits(op.cfg, op.at) /\ op.pc = "purge config"
      /\ op.at \in Names
      /\ op' \in Op /\ op' # Idle /\ Fits(op'.cfg, op'.at) /\ op'.pc = "purge hosts"
      /\ op'.at = op.at
  BY Onward DEF PurgeConfig, At
<1>2. /\ conf' = [conf EXCEPT ![op.at] = NoConf]
      /\ UNCHANGED <<data, links, tables, unit, run, hand, blocks, title, strayed, known, gone, ids>>
  BY DEF PurgeConfig, kernel, service, mesh, history
<1>3. ~Has(op.at) /\ Quiet(op.at) /\ LinkOf[op.at] \notin links
  BY <1>1 DEF HostInv, OpOK, PurgeOK, In
<1>4. ~In({"rename link", "rename config"}) /\ ~Moving'
  BY <1>1 DEF Moving, In
<1>5. HostTypeOK' /\ Named' /\ Titles' /\ Identities' /\ Whole' /\ Seated'
  BY <1>1, <1>2, <1>3, <1>4, ConfigGoes
<1>6. CreateOK' /\ JoinOK' /\ LeaveOK' /\ PurgeOK' /\ RenameOK'
  BY <1>1 DEF CreateOK, JoinOK, LeaveOK, PurgeOK, RenameOK, In
<1> QED
  BY <1>1, <1>5, <1>6 DEF HostInv, OpOK

-----------------------------------------------------------------------------
(* gw rename-mesh *)

LEMMA RenameStopKeeps ==
  ASSUME HostInv, RenameStop
  PROVE  HostInv'
<1>1. /\ op \in Op /\ op # Idle /\ Fits(op.cfg, op.at) /\ op.pc = "rename stop"
      /\ op.at \in Names /\ op.new \in Names
      /\ op' \in Op /\ op' # Idle /\ Fits(op'.cfg, op'.at) /\ op'.pc = "rename data"
      /\ op'.at = op.at /\ op'.cfg = op.cfg /\ op'.new = op.new
  BY Onward DEF RenameStop, At
<1>2. Disable(op.at) /\ UNCHANGED <<conf, data, links, tables, blocks, title, strayed, known, gone, ids>>
  BY <1>1 DEF RenameStop, Fits, files, kernel, mesh, history
<1>3. HostTypeOK' /\ Down /\ Stopped(op.at)' /\ hand' = hand
  BY <1>1, <1>2, DisableDoes DEF HostInv, HostTypeOK, Stopped
<1>4. ~Moving /\ ~Moving'
  BY <1>1 DEF Moving, In
<1>5. Named' /\ Whole' /\ Identities' /\ Seated' /\ Titles'
  BY <1>2, <1>3, <1>4, ClearsKeep
<1>6. RenameOK'
  BY <1>1, <1>2, <1>3 DEF HostInv, OpOK, RenameOK, In, Exists, Stopped, Quiet, Has, Alone
<1>7. CreateOK' /\ JoinOK' /\ LeaveOK' /\ PurgeOK'
  BY <1>1 DEF CreateOK, JoinOK, LeaveOK, PurgeOK, In
<1> QED
  BY <1>1, <1>3, <1>5, <1>6, <1>7 DEF HostInv, OpOK

\* The directory moves to the new name, with whatever is known of it.
LEMMA RenameDataKeeps ==
  ASSUME HostInv, RenameData
  PROVE  HostInv'
<1> DEFINE a == op.at
           b == op.new
<1>1. /\ op \in Op /\ op # Idle /\ Fits(op.cfg, a) /\ op.pc = "rename data"
      /\ a \in Names /\ b \in Names /\ In({"rename data"})
  BY AtStep DEF RenameData, At
<1>2. /\ b # a /\ Exists(a) /\ conf[a] = op.cfg /\ ~Exists(b) /\ Alone(b) /\ ~Has(b)
      /\ Quiet(a)
  BY <1>1 DEF HostInv, OpOK, RenameOK, In
<1>3. op.cfg.dir = a /\ UNCHANGED <<conf, links, tables, unit, run, hand, blocks, title, strayed, known, gone, ids>>
  BY <1>1 DEF RenameData, Fits, kernel, service, mesh, history
<1>4. CASE ~Has(a)
  <2>1. op' = Idle /\ data' = data
    BY <1>2, <1>3, <1>4 DEF RenameData, End, Has
  <2>2. ~Moving /\ Down
    BY <1>1 DEF Moving, In, Down, RenameData, service
  <2>3. HostTypeOK'
    BY <1>3, <2>1 DEF HostInv, HostTypeOK
  <2> QED
    BY <1>3, <2>1, <2>2, <2>3, Ends DEF files, mesh, history, RenameData
<1>5. CASE Has(a)
  <2>1. /\ Goto("rename link")
        /\ data' = [data EXCEPT ![a] = NoDir, ![b] = data[a]]
    <3>1. op.cfg.dir # op.new /\ data[op.cfg.dir] # NoDir
      BY <1>2, <1>3, <1>5 DEF Has
    <3>2. /\ Goto("rename link")
          /\ data' = [data EXCEPT ![op.cfg.dir] = NoDir,
                                  ![op.new] = IF @ = NoDir THEN data[op.cfg.dir] ELSE @]
      BY <3>1 DEF RenameData
    <3> QED
      BY <1>2, <1>3, <3>2 DEF Has
  <2>2. /\ op' \in Op /\ op' # Idle /\ Fits(op'.cfg, op'.at) /\ op'.pc = "rename link"
        /\ op'.at = a /\ op'.cfg = op.cfg /\ op'.new = b
    BY <1>1, <2>1, Onward
  <2> HIDE DEF a, b
  <2>3. data \in [Names -> Dir \cup {NoDir}]
    BY DEF HostInv, HostTypeOK
  <2>4. /\ data' \in [Names -> Dir \cup {NoDir}]
        /\ data'[a] = NoDir /\ data'[b] = data[a]
        /\ \A n \in Names \ {a, b} : data'[n] = data[n]
    BY <1>1, <1>2, <2>1, <2>3
  <2>5. HostTypeOK'
    BY <1>3, <2>4 DEF HostInv, HostTypeOK
  <2>6. Named' /\ Titles'
    BY <1>3 DEF HostInv, Named, Titles, Exists
  <2>7. Whole'
    <3>1. \A n \in Names : unit'[n] => Exists(n)' /\ Has(n)'
      BY <1>2, <1>3, <2>4 DEF HostInv, Whole, Exists, Stopped, Quiet, Has
    <3>2. \A n \in Names : run'[n] # NotRunning \/ hand'[n] # NotRunning => Exists(n)'
      BY <1>3 DEF HostInv, Whole, Exists
    <3>3. \A m, n \in Names : m # n /\ Exists(m)' /\ Exists(n)' => LinkOf[m] # LinkOf[n]
      BY <1>3 DEF HostInv, Whole, Exists
    <3>4. \A l \in links' : \E n \in Names : Exists(n)' /\ LinkOf[n] = l
      BY <1>1, <1>3 DEF HostInv, Whole, Exists, In
    <3> QED
      BY <3>1, <3>2, <3>3, <3>4 DEF Whole
  \* Where a directory was before the move.
  <2>8. DEFINE from(n) == IF n = b THEN a ELSE n
  <2>9. /\ \A n \in Names : Has(n)' => /\ from(n) \in Names /\ Has(from(n))
                                       /\ data'[n] = data[from(n)]
        /\ \A m, n \in Names : Has(m)' /\ Has(n)' /\ from(m) = from(n) => m = n
    BY <1>1, <1>2, <1>5, <2>4 DEF Has
  <2> HIDE DEF from
  <2>10. Identities'
    <3>1. \A n \in Names : Has(n)' => data'[n].id <= ids' /\ data'[n].id \notin gone'
      BY <1>3, <2>9 DEF HostInv, Identities
    <3>2. \A m, n \in Names : Has(m)' /\ Has(n)' /\ data'[m].id = data'[n].id => m = n
      BY <2>9 DEF HostInv, Identities
    <3>3. \A m, n \in Names : Has(m)' /\ Has(n)' /\ data'[m].root /\ data'[n].root => m = n
      BY <2>9 DEF HostInv, Identities
    <3> QED
      BY <1>3, <3>1, <3>2, <3>3 DEF HostInv, Identities
  <2>11. Seated'
    <3>1. ASSUME NEW p \in known, p[1] \notin strayed, p[2] \notin gone
          PROVE  \E d \in Names : /\ Has(d)' /\ data'[d].id = p[2]
                                  /\ IF p[1] = Own THEN data'[d].root ELSE Seat(p[1], d)'
      <4>1. PICK d \in Names : /\ Has(d) /\ data[d].id = p[2]
                               /\ IF p[1] = Own THEN data[d].root ELSE Seat(p[1], d)
        BY <3>1 DEF HostInv, Seated
      <4>2. CASE d = a
        <5>1. Seat(p[1], a) => op.cfg.mesh = p[1] \/ data[a].root
          BY <1>1, <1>2 DEF Seat, In
        <5>2. op.cfg.mesh = p[1] \/ data[a].root => Seat(p[1], b)'
          BY <2>2, <2>4 DEF Seat, In, b
        <5>3. Has(b)' /\ data'[b].id = p[2] /\ data'[b].root = data[a].root
          BY <1>5, <2>2, <2>4, <4>1, <4>2 DEF Has, b
        <5> QED
          BY <1>1, <2>2, <4>1, <4>2, <5>1, <5>2, <5>3 DEF b
      <4>3. CASE d # a
        <5>1. d # b
          BY <1>2, <4>1
        <5>2. data'[d] = data[d] /\ Has(d)'
          BY <2>4, <4>1, <4>3, <5>1 DEF Has
        <5>3. Seat(p[1], d) => Seat(p[1], d)'
          BY <1>1, <1>3, <2>2, <5>1, <5>2 DEF Seat, Exists, In
        <5> QED
          BY <4>1, <5>2, <5>3
      <4> QED
        BY <4>2, <4>3
    <3> QED
      BY <1>1, <1>3, <3>1 DEF HostInv, Seated, Exists, In
  <2>12. RenameOK'
    <3>1. op'.new # op'.at /\ Exists(a)' /\ conf'[a] = op'.cfg /\ ~Exists(b)' /\ Alone(b)'
      BY <1>2, <1>3, <2>2 DEF Exists, Alone, a, b
    <3>2. Quiet(a)' /\ ~Has(a)' /\ Has(b)'
      BY <1>2, <1>3, <1>5, <2>2, <2>4 DEF Stopped, Quiet, Has, a, b
    <3> QED
      BY <2>2, <3>1, <3>2 DEF RenameOK, In, a, b
  <2>13. CreateOK' /\ JoinOK' /\ LeaveOK' /\ PurgeOK'
    BY <2>2 DEF CreateOK, JoinOK, LeaveOK, PurgeOK, In
  <2> QED
    BY <2>2, <2>5, <2>6, <2>7, <2>10, <2>11, <2>12, <2>13 DEF HostInv, OpOK
<1> QED
  BY <1>4, <1>5

\* The interface takes the new name, which the kernel cannot have yet.
LEMMA RenameLinkKeeps ==
  ASSUME HostInv, RenameLink
  PROVE  HostInv'
<1>1. /\ op \in Op /\ op # Idle /\ Fits(op.cfg, op.at) /\ op.pc = "rename link"
      /\ op.at \in Names /\ op.new \in Names
  BY AtStep DEF RenameLink, At
<1>2. /\ op.new # op.at /\ Exists(op.at) /\ conf[op.at] = op.cfg /\ ~Exists(op.new)
      /\ Alone(op.new) /\ Quiet(op.at) /\ Has(op.new) /\ ~Has(op.at)
  BY <1>1 DEF HostInv, OpOK, RenameOK, In
<1>3. LinkOf[op.at] # LinkOf[op.new]
  BY <1>1, <1>2 DEF Alone
<1>4. LinkOf[op.new] \notin links
  BY <1>1, <1>2 DEF HostInv, Whole, Alone, In
<1>5. op.cfg.link = LinkOf[op.at]
  BY <1>1 DEF Fits
<1>6. /\ Goto("rename config")
      /\ \/ LinkOf[op.at] \notin links /\ links' = links
         \/ links' = (links \ {LinkOf[op.at]}) \cup {LinkOf[op.new]}
      /\ UNCHANGED <<conf, data, tables, unit, run, hand, blocks, title, strayed, known, gone, ids>>
  BY <1>4, <1>5 DEF RenameLink, files, service, mesh, history
<1>7. /\ op' \in Op /\ op' # Idle /\ Fits(op'.cfg, op'.at) /\ op'.pc = "rename config"
      /\ op'.at = op.at /\ op'.cfg = op.cfg /\ op'.new = op.new
  BY <1>1, <1>6, Onward
<1>8. HostTypeOK'
  <2>1. links \subseteq Links /\ LinkOf[op.new] \in Links
    BY <1>1 DEF HostInv, HostTypeOK
  <2>2. links' \subseteq Links
    BY <1>6, <2>1
  <2> QED
    BY <1>6, <2>2 DEF HostInv, HostTypeOK
<1>9. SameData /\ OpStays
  BY <1>1, <1>6, <1>7, Unchanged DEF OpStays, Moving, In
<1>10. Identities' /\ Seated' /\ Titles'
  BY <1>6, <1>9, IdentitiesFrame, SeatedFrame, TitlesFrame
<1>11. Named'
  BY <1>6 DEF HostInv, Named, Exists
<1>12. Whole'
  <2>1. \A n \in Names : unit'[n] => Exists(n)' /\ Has(n)'
    BY <1>6 DEF HostInv, Whole, Exists, Has
  <2>2. \A n \in Names : run'[n] # NotRunning \/ hand'[n] # NotRunning => Exists(n)'
    BY <1>6 DEF HostInv, Whole, Exists
  <2>3. \A m, n \in Names : m # n /\ Exists(m)' /\ Exists(n)' => LinkOf[m] # LinkOf[n]
    BY <1>6 DEF HostInv, Whole, Exists
  <2>4. \A l \in links' : \/ \E n \in Names : Exists(n)' /\ LinkOf[n] = l
                          \/ In({"rename config"})' /\ l = LinkOf[op'.new]
    <3>1. ASSUME NEW l \in links'
          PROVE  l \in links \/ l = LinkOf[op'.new]
      BY <1>6, <1>7
    <3>2. \A l \in links : \E n \in Names : Exists(n)' /\ LinkOf[n] = l
      BY <1>1, <1>6 DEF HostInv, Whole, Exists, In
    <3>3. In({"rename config"})'
      BY <1>7 DEF In
    <3> QED
      BY <3>1, <3>2, <3>3
  <2> QED
    BY <2>1, <2>2, <2>3, <2>4 DEF Whole
<1>13. RenameOK'
  <2>1. LinkOf[op'.at] \notin links'
    BY <1>3, <1>6, <1>7
  <2> QED
    BY <1>2, <1>6, <1>7, <2>1 DEF RenameOK, In, Exists, Has, Alone, Stopped, Quiet
<1>14. CreateOK' /\ JoinOK' /\ LeaveOK' /\ PurgeOK'
  BY <1>7 DEF CreateOK, JoinOK, LeaveOK, PurgeOK, In
<1> QED
  BY <1>7, <1>8, <1>10, <1>11, <1>12, <1>13, <1>14 DEF HostInv, OpOK

\* The new config takes over the directory that was moved.
LEMMA RenameConfigKeeps ==
  ASSUME HostInv, RenameConfig
  PROVE  HostInv'
<1> DEFINE a == op.at
           b == op.new
           cfg == [op.cfg EXCEPT !.name = b, !.dir = b, !.link = LinkOf[b]]
<1>1. /\ op \in Op /\ op # Idle /\ Fits(op.cfg, a) /\ op.pc = "rename config"
      /\ a \in Names /\ b \in Names /\ op.cfg \in Conf
      /\ op' \in Op /\ op' # Idle /\ Fits(op'.cfg, op'.at) /\ op'.pc = "rename drop"
      /\ op'.at = a /\ op'.cfg = op.cfg /\ op'.new = b
  BY Onward DEF RenameConfig, At
<1>2. /\ b # a /\ Exists(a) /\ conf[a] = op.cfg /\ ~Exists(b)
      /\ Alone(b) /\ Quiet(a) /\ Has(b) /\ ~Has(a) /\ LinkOf[a] \notin links
  BY <1>1 DEF HostInv, OpOK, RenameOK, In
<1>3. /\ conf' = [conf EXCEPT ![b] = cfg]
      /\ title' = IF op.cfg.anchor THEN [title EXCEPT ![op.cfg.mesh] = b] ELSE title
      /\ UNCHANGED <<data, links, tables, unit, run, hand, blocks, known, gone, ids, strayed>>
  BY DEF RenameConfig, kernel, service, history
<1>4. cfg \in Conf /\ Fits(cfg, b) /\ cfg.mesh = op.cfg.mesh
  BY <1>1 DEF Conf, Fits
<1>5. /\ conf \in [Names -> Conf \cup {NoConf}]
      /\ title \in [Meshes -> Names \cup {Nothing}]
  BY DEF HostInv, HostTypeOK
<1> HIDE DEF cfg
<1>6. /\ title' \in [Meshes -> Names \cup {Nothing}]
      /\ \A c \in Foreign : title'[c] = title[c]
  <2>1. op.cfg.anchor => op.cfg.mesh = Own
    BY <1>1 DEF Fits
  <2> QED
    BY <1>1, <1>3, <1>5, <2>1 DEF Meshes
<1>7. /\ conf'[b] = cfg /\ conf'[b] # NoConf
      /\ \A n \in Names \ {b} : conf'[n] = conf[n] /\ Exists(n)' = Exists(n)
  BY <1>1, <1>3, <1>4, <1>5, Distinct DEF Exists
<1>8. HostTypeOK'
  BY <1>1, <1>3, <1>4, <1>5, <1>6 DEF HostInv, HostTypeOK
<1>9. Titles' /\ Identities'
  BY <1>3, <1>6, TitlesFrame, IdentitiesFrame, Unchanged
<1>10. Named'
  BY <1>3, <1>4, <1>7 DEF HostInv, Named, Exists
<1>11. Whole'
  <2>1. \A n \in Names : Exists(n) => Exists(n)'
    BY <1>7 DEF Exists
  <2>2. \A n \in Names : unit'[n] => Exists(n)' /\ Has(n)'
    BY <1>3, <2>1 DEF HostInv, Whole, Has
  <2>3. \A n \in Names : run'[n] # NotRunning \/ hand'[n] # NotRunning => Exists(n)'
    BY <1>3, <2>1 DEF HostInv, Whole
  <2>4. \A m, n \in Names : m # n /\ Exists(m)' /\ Exists(n)' => LinkOf[m] # LinkOf[n]
    BY <1>2, <1>7 DEF HostInv, Whole, Alone
  <2>5. Exists(b)'
    BY <1>1, <1>7 DEF Exists
  <2>6. \A l \in links' : \E n \in Names : Exists(n)' /\ LinkOf[n] = l
    <3>1. SUFFICES ASSUME NEW l \in links PROVE \E n \in Names : Exists(n)' /\ LinkOf[n] = l
      BY <1>3
    <3>2. \/ \E n \in Names : Exists(n) /\ LinkOf[n] = l
          \/ l = LinkOf[b]
      BY DEF HostInv, Whole
    <3> QED
      BY <1>1, <2>1, <3>2, <1>7 DEF Exists
  <2> QED
    BY <2>2, <2>3, <2>4, <2>6 DEF Whole
<1>12. Seated'
  <2>1. ASSUME NEW p \in known, p[1] # Own, NEW d \in Names, Seat(p[1], d)
        PROVE  Seat(p[1], d)'
    <3>1. p[1] \in Foreign
      BY <2>1 DEF HostInv, HostTypeOK, Meshes
    <3>2. CASE d = b
      <4>1. op.cfg.mesh = p[1] \/ data[d].root
        BY <1>1, <2>1, <3>2 DEF Seat, In
      <4> QED
        BY <1>1, <1>3, <1>4, <1>7, <3>2, <4>1 DEF Seat, Exists, In
    <3>3. CASE d # b
      BY <1>1, <1>3, <1>6, <1>7, <2>1, <3>1, <3>3 DEF Seat, In
    <3> QED
      BY <3>2, <3>3
  <2>2. \A p \in known' : p[1] \notin strayed' /\ p[2] \notin gone' =>
          \E d \in Names : /\ Has(d)' /\ data'[d].id = p[2]
                           /\ IF p[1] = Own THEN data'[d].root ELSE Seat(p[1], d)'
    BY <1>3, <2>1 DEF HostInv, Seated, Has
  <2>3. \A c \in Meshes \ strayed', i, j \in 1..MaxIds :
          <<c, i>> \in known' /\ i \notin gone' /\ <<c, j>> \in known' /\ j \notin gone' => i = j
    BY <1>3 DEF HostInv, Seated
  <2>4. ASSUME NEW m \in Names, NEW n \in Names, Exists(m)', Exists(n)',
               conf'[m].mesh = conf'[n].mesh, conf'[m].mesh # Own
        PROVE  m = n \/ (In({"rename drop"})' /\ op'.at \in {m, n})
    <3>1. \A k, j \in Names : Exists(k) /\ Exists(j) /\ conf[k].mesh = conf[j].mesh
                                /\ conf[k].mesh # Own => k = j
      BY <1>1 DEF HostInv, Seated, In
    <3>2. \A k \in Names : k # b /\ Exists(k) /\ conf[k].mesh = cfg.mesh
                             /\ cfg.mesh # Own => k = a
      BY <1>1, <1>2, <1>4, <3>1
    <3>3. In({"rename drop"})'
      BY <1>1 DEF In
    <3> QED
      BY <1>1, <1>7, <2>4, <3>1, <3>2, <3>3
  <2> QED
    BY <2>2, <2>3, <2>4 DEF Seated
<1>13. RenameOK'
  <2>1. Exists(b)' /\ Exists(a)' /\ conf'[a] = op.cfg
    BY <1>1, <1>2, <1>7 DEF Exists
  <2> QED
    BY <1>1, <1>2, <1>3, <2>1 DEF RenameOK, In, Exists, Has, Stopped, Quiet
<1>14. CreateOK' /\ JoinOK' /\ LeaveOK' /\ PurgeOK'
  BY <1>1 DEF CreateOK, JoinOK, LeaveOK, PurgeOK, In
<1> QED
  BY <1>1, <1>8, <1>9, <1>10, <1>11, <1>12, <1>13, <1>14 DEF HostInv, OpOK

LEMMA RenameDropKeeps ==
  ASSUME HostInv, RenameDrop
  PROVE  HostInv'
<1>1. /\ op \in Op /\ op # Idle /\ Fits(op.cfg, op.at) /\ op.pc = "rename drop"
      /\ op.at \in Names /\ op.new \in Names
      /\ op' \in Op /\ op' # Idle /\ Fits(op'.cfg, op'.at) /\ op'.pc = "rename grace"
      /\ op'.at = op.at /\ op'.cfg = op.cfg /\ op'.new = op.new
  BY Onward DEF RenameDrop, At
<1>2. /\ conf' = [conf EXCEPT ![op.at] = NoConf]
      /\ UNCHANGED <<data, links, tables, unit, run, hand, blocks, title, strayed, known, gone, ids>>
  BY DEF RenameDrop, kernel, service, mesh, history
<1>3. /\ ~Has(op.at) /\ Quiet(op.at) /\ LinkOf[op.at] \notin links
      /\ op.new # op.at /\ Exists(op.new) /\ Has(op.new)
  BY <1>1 DEF HostInv, OpOK, RenameOK, In
<1>4. ~In({"rename link", "rename config"}) /\ ~Moving'
  BY <1>1 DEF Moving, In
<1>5. HostTypeOK' /\ Named' /\ Titles' /\ Identities' /\ Whole' /\ Seated'
  BY <1>1, <1>2, <1>3, <1>4, ConfigGoes
<1>6. RenameOK'
  <2>1. conf \in [Names -> Conf \cup {NoConf}]
    BY DEF HostInv, HostTypeOK
  <2>2. Exists(op.new)' /\ Has(op.new)'
    BY <1>1, <1>2, <1>3, <2>1 DEF Exists, Has
  <2> QED
    BY <1>1, <2>2 DEF RenameOK, In
<1>7. CreateOK' /\ JoinOK' /\ LeaveOK' /\ PurgeOK'
  BY <1>1 DEF CreateOK, JoinOK, LeaveOK, PurgeOK, In
<1> QED
  BY <1>1, <1>5, <1>6, <1>7 DEF HostInv, OpOK

LEMMA RenameGraceKeeps ==
  ASSUME HostInv, RenameGrace
  PROVE  HostInv'
<1>1. /\ op \in Op /\ op # Idle /\ Fits(op.cfg, op.at) /\ op.pc = "rename grace"
      /\ op.at \in Names /\ op.new \in Names
  BY AtStep DEF RenameGrace, At
<1>2. \/ op' = Idle
      \/ /\ op' \in Op /\ op' # Idle /\ Fits(op'.cfg, op'.at) /\ op'.pc = "enable"
         /\ op'.new = op.new
  <2>1. CASE Goto("enable")
    BY <1>1, <2>1, Onward
  <2>2. CASE End
    BY <2>2 DEF End
  <2> QED
    BY <2>1, <2>2 DEF RenameGrace
<1>3. /\ data' = [data EXCEPT ![op.new].grace = op.at]
      /\ UNCHANGED <<conf, links, tables, unit, run, hand, blocks, title, strayed, known, gone, ids>>
  BY <1>1 DEF RenameGrace, Fits, kernel, service, mesh, history
<1>4. Has(op.new) /\ Exists(op.new)
  BY <1>1 DEF HostInv, OpOK, RenameOK, In
<1>5. data \in [Names -> Dir \cup {NoDir}] /\ data[op.new] \in Dir
  BY <1>1, <1>4 DEF HostInv, HostTypeOK, Has
<1>6. /\ data'[op.new] \in Dir
      /\ data'[op.new].id = data[op.new].id /\ data'[op.new].root = data[op.new].root
      /\ \A m \in Names \ {op.new} : data'[m] = data[m]
      /\ data' \in [Names -> Dir \cup {NoDir}]
  BY <1>1, <1>3, <1>5 DEF Dir
<1>7. SameData
  BY <1>1, <1>3, <1>4, <1>6, Distinct DEF SameData, Has
<1>8. HostTypeOK' /\ Down
  BY <1>3, <1>6 DEF HostInv, HostTypeOK, Down
<1>9. OpStays /\ ~In({"rename config"})
  BY <1>1, <1>2 DEF OpStays, Moving, In
<1>10. Named' /\ Whole' /\ Identities' /\ Seated' /\ Titles'
  BY <1>3, <1>7, <1>8, <1>9, NamedFrame, WholeFrame, IdentitiesFrame, SeatedFrame, TitlesFrame
<1>11. CreateOK'
  <2>1. op'.new = op.new => Exists(op.new)' /\ Has(op.new)'
    BY <1>1, <1>3, <1>4, <1>6, Distinct DEF Exists, Has
  <2> QED
    BY <1>2, <2>1 DEF CreateOK, In, Exists, Has
<1>12. JoinOK' /\ LeaveOK' /\ PurgeOK' /\ RenameOK'
  BY <1>2 DEF JoinOK, LeaveOK, PurgeOK, RenameOK, In
<1> QED
  BY <1>2, <1>8, <1>10, <1>11, <1>12 DEF HostInv, OpOK

-----------------------------------------------------------------------------
(* The whole host *)

LEMMA InitHolds ==
  ASSUME Kept, Init
  PROVE  HostInv
<1>1. /\ \A n \in Names : /\ ~Exists(n) /\ ~Has(n) /\ unit[n] = FALSE
                           /\ run[n] = NotRunning /\ hand[n] = NotRunning
      /\ op = Idle /\ links = {} /\ known = {} /\ gone = {} /\ ids = 0
  BY DEF Init, Exists, Has
<1>2. \A c \in Foreign : title[c] = Called[c] /\ title[c] \in Names
  BY DEF Init, Meshes
<1>3. HostTypeOK
  BY DEF Init, HostTypeOK, Meshes
<1>4. Named /\ Whole
  BY <1>1 DEF Named, Whole
<1>5. Identities /\ Seated
  <2>1. ids \in 0..MaxIds
    BY <1>1
  <2>2. Identities
    BY <1>1, <2>1 DEF Identities
  <2>3. Seated
    BY <1>1 DEF Seated
  <2> QED
    BY <2>2, <2>3
<1>6. Titles
  BY <1>2 DEF Titles, Kept
<1>7. OpOK
  BY <1>1 DEF OpOK, CreateOK, JoinOK, LeaveOK, PurgeOK, RenameOK, In
<1> QED
  BY <1>3, <1>4, <1>5, <1>6, <1>7 DEF HostInv

LEMMA StutterKeeps ==
  ASSUME HostInv, UNCHANGED vars
  PROVE  HostInv'
<1>1. UNCHANGED <<conf, data, links, tables, unit, run, hand, blocks, known, title, strayed, gone, ids, op>>
  BY DEF vars, files, kernel, service, mesh, history
<1>2. HostTypeOK' /\ Named' /\ Whole' /\ Identities'
  BY <1>1 DEF HostInv, HostTypeOK, Named, Whole, Identities, Exists, Has, In
<1>3. Seated' /\ Titles'
  <2>1. SameData /\ OpStays
    BY <1>1, Unchanged DEF OpStays, Moving, In
  <2> QED
    BY <1>1, <2>1, SeatedFrame, TitlesFrame
<1>4. CreateOK' /\ JoinOK' /\ LeaveOK' /\ PurgeOK' /\ RenameOK'
  BY <1>1 DEF HostInv, OpOK, CreateOK, JoinOK, LeaveOK, PurgeOK, RenameOK, In, Alone, Stopped, Quiet,
              Exists, Has
<1> QED
  BY <1>1, <1>2, <1>3, <1>4 DEF HostInv, OpOK

LEMMA StepKeeps ==
  ASSUME Kept, HostInv, [Next]_vars
  PROVE  HostInv'
<1>1. ASSUME Command PROVE HostInv'
  BY <1>1, CreateKeysKeeps, CreateConfigKeeps, CreateIssueKeeps, EnableUnitKeeps,
     JoinKeysKeeps, JoinDoorKeeps, JoinConfigKeeps, EndingSteps,
     LeaveAskKeeps, LeaveStopKeeps, LeaveLinkKeeps,
     PurgeStopKeeps, PurgeStrayKeeps, PurgeLinkKeeps, PurgeDataKeeps, PurgeConfigKeeps,
     RenameStopKeeps, RenameDataKeeps, RenameLinkKeeps, RenameConfigKeeps, RenameDropKeeps,
     RenameGraceKeeps
     DEF Command
<1>2. ASSUME CutOff \/ Reboot PROVE HostInv'
  BY <1>2, EndingSteps
<1>3. ASSUME NEW n \in Names, \/ BeginCreate(n) \/ BeginLeave(n) \/ BeginPurge(n)
                              \/ Boot(n) \/ HandRun(n) \/ HandEnd(n)
                              \/ Work(n) \/ Retire(n) \/ Die(n)
      PROVE  HostInv'
  BY <1>3, CreateBegins, LeaveBegins, PurgeBegins, BootKeeps, HandRunKeeps, HandEndKeeps,
     WorkKeeps, RetireKeeps, DieKeeps
<1>4. ASSUME NEW c \in Foreign, BeginJoin(c) \/ Retitle(c) PROVE HostInv'
  BY <1>4, JoinBegins, RetitleKeeps
<1>5. ASSUME NEW n \in Names, NEW new \in Names, BeginRename(n, new) PROVE HostInv'
  BY <1>5, RenameBegins
<1>6. ASSUME UNCHANGED vars PROVE HostInv'
  BY <1>6, StutterKeeps
<1> QED
  BY <1>1, <1>2, <1>3, <1>4, <1>5, <1>6 DEF Next

LEMMA HostInvHolds == Kept => (Spec => []HostInv)
<1> SUFFICES ASSUME Kept PROVE Spec => []HostInv
  OBVIOUS
<1>1. Init => HostInv
  BY InitHolds
<1>2. HostInv /\ [Next]_vars => HostInv'
  BY StepKeeps
<1> QED
  BY <1>1, <1>2, PTL DEF Spec

\* Configs, directories, units and daemons stay of the shape the code keeps.
THEOREM HostTypeCorrect == Kept => (Spec => []HostTypeOK)
<1> SUFFICES ASSUME Kept PROVE Spec => []HostTypeOK
  OBVIOUS
<1>1. HostInv => HostTypeOK
  BY DEF HostInv
<1> QED
  BY <1>1, HostInvHolds, PTL

\* A unit that starts at boot has its config and its keys, wherever a create, join,
\* leave or purge was cut off (cli/membership.py, service.py enable_systemd_now).
THEOREM UnitsAreWhole == Kept => (Spec => []EnabledIsWhole)
<1> SUFFICES ASSUME Kept PROVE Spec => []EnabledIsWhole
  OBVIOUS
<1>1. ASSUME HostInv, NEW n \in Names, unit[n]
      PROVE  Exists(n) /\ data[conf[n].dir] # NoDir
  <2>1. Exists(n) /\ Has(n)
    BY <1>1 DEF HostInv, Whole
  <2>2. conf[n].dir = n
    BY <1>1, <2>1 DEF HostInv, Named, Fits
  <2> QED
    BY <2>1, <2>2 DEF Has
<1>2. HostInv => EnabledIsWhole
  BY <1>1 DEF EnabledIsWhole
<1> QED
  BY <1>2, HostInvHolds, PTL

\* A mesh knows this host by one identity at a time: a join again finds the keys of
\* the membership it refreshes (cli/bootstrap.py _membership_for_ca), or those that a
\* join left that did not end, as long as the mesh was not renamed since (strayed).
\* Kept: an operator refreshes a renamed mesh only after the rename here, no rename
\* is cut off half-way, and no two meshes have one name.
THEOREM KnownByOneIdentity == Kept => (Spec => []OneIdentity)
<1> SUFFICES ASSUME Kept PROVE Spec => []OneIdentity
  OBVIOUS
<1>1. ASSUME HostInv PROVE OneIdentity
  <2>1. SUFFICES ASSUME NEW c \in Meshes \ strayed
                 PROVE  Cardinality({i \in 1..MaxIds \ gone : <<c, i>> \in known}) <= 1
    BY DEF OneIdentity, KnownAs
  <2> DEFINE S == {i \in 1..MaxIds \ gone : <<c, i>> \in known}
  <2>2. \A i, j \in S : i = j
    BY <1>1, <2>1 DEF HostInv, Seated
  <2> HIDE DEF S
  <2>3. S = {} \/ \E i : S = {i}
    <3>1. SUFFICES ASSUME NEW i \in S PROVE S = {i}
      OBVIOUS
    <3> QED
      BY <2>2, <3>1
  <2>4. Cardinality(S) <= 1
    <3>1. CASE S = {}
      <4>1. Cardinality(S) = 0
        BY <3>1, FS_EmptySet
      <4> QED
        BY <4>1
    <3>2. CASE \E i : S = {i}
      <4>1. Cardinality(S) = 1
        BY <3>2, FS_Singleton
      <4> QED
        BY <4>1
    <3> QED
      BY <2>3, <3>1, <3>2
  <2> QED
    BY <2>4 DEF S
<1> QED
  BY <1>1, HostInvHolds, PTL

\* Two memberships never share an interface, although names are cut to 15
\* characters (cli/_common.py _iface_collision).
THEOREM LinksAreOwn == Kept => (Spec => []OwnLinks)
<1> SUFFICES ASSUME Kept PROVE Spec => []OwnLinks
  OBVIOUS
<1>1. ASSUME HostInv PROVE OwnLinks
  <2>1. \A n \in Names : Exists(n) => conf[n].link = LinkOf[n]
    BY <1>1 DEF HostInv, Named, Fits
  <2>2. \A m, n \in Names : m # n /\ Exists(m) /\ Exists(n) => LinkOf[m] # LinkOf[n]
    BY <1>1 DEF HostInv, Whole
  <2> QED
    BY <2>1, <2>2 DEF OwnLinks
<1> QED
  BY <1>1, HostInvHolds, PTL

\* Nothing that was purged or renamed away haunts the host: purge stops the daemon
\* before it takes away what the daemon restores (cli/membership.py cmd_purge).
THEOREM HostIsClean == Kept => (Spec => []NothingHaunts)
<1> SUFFICES ASSUME Kept PROVE Spec => []NothingHaunts
  OBVIOUS
<1>1. HostInv => NothingHaunts
  BY DEF HostInv, Whole, Named, Fits, In, NothingHaunts, Daemons
<1> QED
  BY <1>1, HostInvHolds, PTL

\* Config file, domain and data directory of a membership carry one name.
THEOREM NamesNeverPart == Kept => (Spec => []NeverApart)
<1> SUFFICES ASSUME Kept PROVE Spec => []NeverApart
  OBVIOUS
<1>1. HostInv => NeverApart
  BY DEF HostInv, Named, Fits, NeverApart
<1> QED
  BY <1>1, HostInvHolds, PTL
=============================================================================
