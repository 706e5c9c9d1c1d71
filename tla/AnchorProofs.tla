--------------------------- MODULE AnchorProofs ---------------------------
(***************************************************************************)
(* Theorems about the offers, the records and the decisions of Authority,  *)
(* for every finite set of nodes and every number of offers, claims, stops *)
(* and lost answers; then about a transfer of the anchor (Handover).       *)
(***************************************************************************)
EXTENDS Authority, Handover, FiniteSetTheorems, TLAPS

USE FirstAssumption

OfferTypeOK ==
    /\ offer \in [Nodes -> [to : Nodes \cup Strangers, fresh : BOOLEAN, made : BOOLEAN]]
    /\ cmd \in [Joined -> [pc : Step, ask : SUBSET Nodes]]
    /\ reqs \in [Requests -> Request \cup {NoReq}]
    /\ twice \subseteq Joined
    /\ minted \in [Joined \cup Strangers -> Nat]
    /\ taken \in [Joined -> Nat]

\* q has read an offer for n, and a command of n still waits for the answer.
Answers(q, n) == q \in Waiting(n) /\ reqs[q].pc = "consume" /\ reqs[q].answer

\* The holders that n can still get an answer from: those with a fresh offer for
\* it, and those that have read one and not yet answered.  The latter may have
\* no offer any more, or a later one.
Claims(n) ==
    {x \in Nodes : \/ offer[x].fresh /\ offer[x].to = n
                   \/ \E q \in Requests : Answers(q, n) /\ reqs[q].at = x}

\* Every answer opened and every answer still possible has an offer of its own.
Paid(n) == taken[n] + Cardinality(Claims(n)) <= minted[n]

\* One command at a time waits for one claim at a time, whatever threads still
\* serve the claims of commands that have given up.
Single(n) == \A q, r \in Waiting(n) : q = r

OffersInv == OfferTypeOK /\ \A n \in Joined \ twice : Single(n) /\ Paid(n)

LEMMA ClaimsFinite == \A n \in Joined : IsFiniteSet(Claims(n)) /\ Cardinality(Claims(n)) \in Nat
<1> SUFFICES ASSUME NEW n \in Joined
             PROVE  IsFiniteSet(Claims(n)) /\ Cardinality(Claims(n)) \in Nat
  OBVIOUS
<1>1. Claims(n) \in SUBSET Nodes
  BY DEF Claims
<1> QED
  BY <1>1, FS_Subset, FS_CardinalityType

\* A step after which n can get no answer it could not get before.
LEMMA FewerClaims ==
  ASSUME OfferTypeOK, NEW n \in Joined, Paid(n), Claims(n)' \subseteq Claims(n),
         taken'[n] = taken[n], minted'[n] = minted[n]
  PROVE  Paid(n)'
<1>1. IsFiniteSet(Claims(n)) /\ Cardinality(Claims(n)) \in Nat
  BY ClaimsFinite
<1>2. IsFiniteSet(Claims(n)') /\ Cardinality(Claims(n)') <= Cardinality(Claims(n))
  BY <1>1, FS_Subset
<1>3. Cardinality(Claims(n)') \in Nat
  BY <1>2, FS_CardinalityType
<1>4. taken[n] \in Nat /\ minted[n] \in Nat
  BY DEF OfferTypeOK, Joined
<1> QED
  BY <1>1, <1>2, <1>3, <1>4 DEF Paid

LEMMA InitPaid == Init => OffersInv
<1> SUFFICES ASSUME Init PROVE OffersInv
  OBVIOUS
<1>1. OfferTypeOK
  BY DEF Init, OfferTypeOK, NoOffer, NoCmd, Step, Joined
<1>2. ASSUME NEW n \in Joined PROVE Single(n) /\ Paid(n)
  <2>1. Waiting(n) = {}
    BY DEF Init, Waiting
  <2>2. Claims(n) = {}
    BY <2>1 DEF Init, Claims, NoOffer, Answers
  <2> QED
    BY <2>1, <2>2, FS_EmptySet DEF Init, Paid, Single, Joined
<1> QED
  BY <1>1, <1>2 DEF OffersInv

\* A step that adds no claim: it may end claims, and give up the wait for them.
LEMMA Calmer ==
  ASSUME OffersInv, OfferTypeOK', UNCHANGED <<minted, taken, twice>>,
         \A x \in Nodes : offer'[x] = offer[x] \/ ~offer'[x].fresh,
         \A q \in Requests : \/ reqs'[q] = reqs[q] \/ reqs'[q] = NoReq
                             \/ ~reqs'[q].live
  PROVE  OffersInv'
<1>1. ASSUME NEW n \in Joined \ twice PROVE (Single(n) /\ Paid(n))'
  <2>1. \A q \in Requests : q \in Waiting(n)' => q \in Waiting(n) /\ reqs'[q] = reqs[q]
    BY DEF Waiting
  <2>2. Single(n)'
    BY <2>1 DEF Single, OffersInv, Waiting
  <2>3. Claims(n)' \subseteq Claims(n)
    BY <2>1 DEF Claims, Answers
  <2> QED
    BY <2>2, <2>3, FewerClaims DEF OffersInv
<1> QED
  BY <1>1 DEF OffersInv

\* The steps that leave the offers, the claims and the counts alone.
LEMMA Aside ==
  ASSUME OffersInv, UNCHANGED offers, cmd' \in [Joined -> [pc : Step, ask : SUBSET Nodes]]
  PROVE  OffersInv'
<1>1. OfferTypeOK'
  BY DEF OffersInv, OfferTypeOK, offers
<1> QED
  BY <1>1, Calmer DEF offers

LEMMA OneMore ==
  ASSUME NEW S, IsFiniteSet(S), Cardinality(S) \in Nat, NEW x
  PROVE  IsFiniteSet(S \cup {x}) /\ Cardinality(S \cup {x}) <= Cardinality(S) + 1
BY FS_AddElement

LEMMA Minting ==
  ASSUME OffersInv, NEW x \in Nodes, NEW m \in Joined \cup Strangers, MintOffer(x, m)
  PROVE  OffersInv'
<1> DEFINE o == [to |-> m, fresh |-> TRUE, made |-> TRUE]
<1>1. /\ offer' = [offer EXCEPT ![x] = o] /\ minted' = [minted EXCEPT ![m] = @ + 1]
      /\ UNCHANGED <<cmd, reqs, taken, twice>>
      /\ o \in [to : Nodes \cup Strangers, fresh : BOOLEAN, made : BOOLEAN]
      /\ o.to = m
  BY DEF MintOffer, Joined
<1> HIDE DEF o
<1>2. OfferTypeOK'
  BY <1>1 DEF OffersInv, OfferTypeOK
<1>3. ASSUME NEW n \in Joined \ twice PROVE (Single(n) /\ Paid(n))'
  <2>0. Waiting(n)' = Waiting(n) /\ \A q \in Requests : Answers(q, n)' = Answers(q, n)
    BY <1>1 DEF Waiting, Answers
  <2>1. Single(n)'
    <3>1. \A q \in Requests : q \in Waiting(n)' => q \in Waiting(n)
      BY <1>1 DEF Waiting
    <3> QED
      BY <3>1 DEF Single, Waiting, OffersInv
  <2>2. CASE n # m
    <3>1. Claims(n)' \subseteq Claims(n)
      BY <1>1, <2>0, <2>2 DEF Claims, OffersInv, OfferTypeOK
    <3>2. minted'[n] = minted[n]
      BY <1>1, <2>2 DEF OffersInv, OfferTypeOK
    <3> QED
      BY <1>1, <2>1, <3>1, <3>2, FewerClaims DEF OffersInv
  <2>3. CASE n = m
    <3>1. Claims(n)' \subseteq Claims(n) \cup {x}
      BY <1>1, <2>0 DEF Claims, OffersInv, OfferTypeOK
    <3>2. IsFiniteSet(Claims(n)) /\ Cardinality(Claims(n)) \in Nat
      BY ClaimsFinite
    <3>3. /\ IsFiniteSet(Claims(n) \cup {x})
          /\ Cardinality(Claims(n) \cup {x}) <= Cardinality(Claims(n)) + 1
      BY <3>2, OneMore
    <3>4. /\ IsFiniteSet(Claims(n)')
          /\ Cardinality(Claims(n)') <= Cardinality(Claims(n) \cup {x})
      BY <3>1, <3>3, FS_Subset
    <3>5. Cardinality(Claims(n)') \in Nat /\ Cardinality(Claims(n) \cup {x}) \in Nat
      BY <3>3, <3>4, FS_CardinalityType
    <3>6. minted'[n] = minted[n] + 1 /\ taken'[n] = taken[n]
      BY <1>1, <2>3 DEF OffersInv, OfferTypeOK
    <3>7. taken[n] \in Nat /\ minted[n] \in Nat /\ Paid(n)
      BY DEF OffersInv, OfferTypeOK
    <3> QED
      BY <2>1, <3>2, <3>3, <3>4, <3>5, <3>6, <3>7 DEF Paid
  <2> QED
    BY <2>2, <2>3
<1> QED
  BY <1>1, <1>2, <1>3 DEF OffersInv

LEMMA Expiring ==
  ASSUME OffersInv, NEW x \in Nodes, Expire(x)
  PROVE  OffersInv'
<1>1. /\ offer' = [offer EXCEPT ![x].fresh = FALSE]
      /\ UNCHANGED <<cmd, reqs, minted, taken, twice>>
  BY DEF Expire
<1>2. OfferTypeOK'
  BY <1>1 DEF OffersInv, OfferTypeOK
<1>3. \A y \in Nodes : offer'[y] = offer[y] \/ ~offer'[y].fresh
  BY <1>1 DEF OffersInv, OfferTypeOK
<1> QED
  BY <1>1, <1>2, <1>3, Calmer

\* A claim is sent while no other waits, or its node has two commands.
LEMMA Sending ==
  ASSUME OffersInv, NEW n \in Joined, NEW x \in Nodes, NEW q \in Requests,
         Ask(n, x, q) \/ AdoptAgain(n, x, q)
  PROVE  OffersInv'
<1> DEFINE r == [pc |-> "read", by |-> n, at |-> x, live |-> TRUE, answer |-> FALSE]
<1>1. /\ reqs[q] = NoReq /\ reqs' = [reqs EXCEPT ![q] = r]
      /\ UNCHANGED <<offer, minted, taken>>
      /\ r \in Request /\ r.pc = "read" /\ r.by = n
  BY DEF Ask, AdoptAgain, Send, Request
<1>2. \/ twice' = twice /\ Waiting(n) = {}
      \/ twice' = twice \cup {n}
  BY DEF Ask, AdoptAgain
<1>3. cmd' \in [Joined -> [pc : Step, ask : SUBSET Nodes]]
  BY DEF Ask, AdoptAgain, AskedOne, OffersInv, OfferTypeOK
<1> HIDE DEF r
<1>4. OfferTypeOK'
  BY <1>1, <1>2, <1>3 DEF OffersInv, OfferTypeOK
<1>5. ASSUME NEW k \in Joined \ twice' PROVE (Single(k) /\ Paid(k))'
  <2>1. k \in Joined \ twice /\ (k = n => Waiting(n) = {})
    BY <1>2
  <2>2. \A p \in Requests : p # q => reqs'[p] = reqs[p]
    BY <1>1 DEF OffersInv, OfferTypeOK
  <2>3. reqs'[q] = r
    BY <1>1 DEF OffersInv, OfferTypeOK
  <2>4. \A p \in Requests : p \in Waiting(k)' => p \in Waiting(k) \/ (p = q /\ k = n)
    BY <1>1, <2>2, <2>3 DEF Waiting
  <2>5. Single(k)'
    <3>1. Waiting(k)' \subseteq Requests /\ Waiting(k) \subseteq Requests
      BY DEF Waiting
    <3>2. Single(k)
      BY <2>1 DEF OffersInv
    <3>3. CASE k = n
      BY <2>1, <2>4, <3>1, <3>3 DEF Single
    <3>4. CASE k # n
      BY <2>4, <3>1, <3>2, <3>4 DEF Single
    <3> QED
      BY <3>3, <3>4
  <2>6. Claims(k)' \subseteq Claims(k)
    <3>1. \A p \in Requests : Answers(p, k)' => Answers(p, k) /\ reqs'[p] = reqs[p]
      BY <1>1, <2>2, <2>3, <2>4 DEF Answers
    <3> QED
      BY <1>1, <3>1 DEF Claims
  <2> QED
    BY <1>1, <2>1, <2>5, <2>6, FewerClaims DEF OffersInv
<1> QED
  BY <1>4, <1>5 DEF OffersInv

\* Reading an offer keeps its claim.
LEMMA Reading ==
  ASSUME OffersInv, NEW q \in Requests, ReadOffer(q)
  PROVE  OffersInv'
<1> DEFINE x == reqs[q].at
           b == offer[x].fresh
           f == [reqs[q] EXCEPT !.pc = "consume", !.answer = b]
<1>1. /\ UNCHANGED <<offer, cmd, minted, taken, twice>>
      /\ reqs[q] \in Request /\ x \in Nodes /\ b \in BOOLEAN
  <2>1. UNCHANGED <<offer, cmd, minted, taken, twice>> /\ reqs[q].pc = "read"
    BY DEF ReadOffer
  <2>2. reqs[q] \in Request
    BY <2>1 DEF OffersInv, OfferTypeOK, NoReq
  <2> QED
    BY <2>1, <2>2 DEF OffersInv, OfferTypeOK, Request
<1>2. \/ /\ reqs' = [reqs EXCEPT ![q] = f]
         /\ offer[x].fresh => offer[x].to = reqs[q].by
      \/ reqs' = [reqs EXCEPT ![q] = NoReq]
  BY <1>1 DEF ReadOffer, Found, Finished
<1>3. CASE reqs' = [reqs EXCEPT ![q] = NoReq]
  <2>1. OfferTypeOK'
    BY <1>1, <1>3 DEF OffersInv, OfferTypeOK
  <2>2. \A p \in Requests : reqs'[p] = reqs[p] \/ reqs'[p] = NoReq
    BY <1>3 DEF OffersInv, OfferTypeOK
  <2> QED
    BY <1>1, <2>1, <2>2, Calmer
<1>4. CASE /\ reqs' = [reqs EXCEPT ![q] = f]
           /\ offer[x].fresh => offer[x].to = reqs[q].by
  <2>1. f \in Request /\ f.by = reqs[q].by /\ f.at = x /\ f.live = reqs[q].live /\ f.answer = b
    BY <1>1 DEF Request
  <2> HIDE DEF f, b, x
  <2>2. OfferTypeOK'
    BY <1>1, <1>4, <2>1 DEF OffersInv, OfferTypeOK
  <2>3. reqs'[q] = f /\ \A p \in Requests : p # q => reqs'[p] = reqs[p]
    BY <1>4 DEF OffersInv, OfferTypeOK
  <2>4. reqs[q] # NoReq /\ f # NoReq
    BY <1>1, <2>1 DEF NoReq, Request
  <2>5. ASSUME NEW n \in Joined \ twice PROVE (Single(n) /\ Paid(n))'
    <3>1. \A p \in Requests : p \in Waiting(n)' <=> p \in Waiting(n)
      BY <2>1, <2>3, <2>4 DEF Waiting
    <3>2. Single(n)'
      BY <3>1 DEF Single, Waiting, OffersInv
    <3>3. \A p \in Requests : Answers(p, n)' =>
             \/ Answers(p, n) /\ reqs'[p].at = reqs[p].at
             \/ p = q /\ b /\ f.by = n
      BY <2>1, <2>3, <3>1 DEF Answers, Waiting
    <3>4. Claims(n)' \subseteq Claims(n)
      BY <1>1, <1>4, <2>1, <2>3, <3>3 DEF Claims, b
    <3> QED
      BY <1>1, <3>2, <3>4, FewerClaims DEF OffersInv
  <2> QED
    BY <1>1, <2>2, <2>5 DEF OffersInv
<1> QED
  BY <1>2, <1>3, <1>4

\* An answer opened uses a claim up.
LEMMA Consuming ==
  ASSUME OffersInv, NEW q \in Requests, ConsumeOffer(q)
  PROVE  OffersInv'
<1> DEFINE x == reqs[q].at
           k == reqs[q].by
<1>1. /\ offer' = [offer EXCEPT ![x] = NoOffer] /\ reqs[q].pc = "consume"
      /\ reqs' = [reqs EXCEPT ![q] = NoReq] /\ UNCHANGED <<minted, twice>>
      /\ \/ taken' = taken /\ cmd' = cmd
         \/ reqs[q].live /\ reqs[q].answer /\ Opened(k)
  BY DEF ConsumeOffer, Consumed, Finished
<1>2. /\ reqs[q] \in Request /\ x \in Nodes /\ k \in Joined
      /\ NoOffer \in [to : Nodes \cup Strangers, fresh : BOOLEAN, made : BOOLEAN]
      /\ ~NoOffer.fresh
  <2>1. reqs[q] \in Request
    BY <1>1 DEF OffersInv, OfferTypeOK, NoReq
  <2> QED
    BY <2>1 DEF Request, NoOffer
<1>3. OfferTypeOK'
  <2>1. cmd' \in [Joined -> [pc : Step, ask : SUBSET Nodes]] /\ taken' \in [Joined -> Nat]
    BY <1>1, <1>2 DEF OffersInv, OfferTypeOK, Opened, Step
  <2> QED
    BY <1>1, <1>2, <2>1 DEF OffersInv, OfferTypeOK
<1>4. \A p \in Requests : reqs'[p] = reqs[p] \/ reqs'[p] = NoReq
  BY <1>1 DEF OffersInv, OfferTypeOK
<1>5. \A y \in Nodes : offer'[y] = offer[y] \/ ~offer'[y].fresh
  BY <1>1, <1>2 DEF OffersInv, OfferTypeOK
<1>6. CASE taken' = taken
  BY <1>1, <1>3, <1>4, <1>5, <1>6, Calmer
<1>7. CASE reqs[q].live /\ reqs[q].answer /\ Opened(k)
  <2>1. taken' = [taken EXCEPT ![k] = @ + 1] /\ q \in Waiting(k) /\ Answers(q, k)
    BY <1>1, <1>2, <1>7 DEF Opened, Waiting, Answers, NoReq, Request
  <2>2. ~offer'[x].fresh /\ reqs'[q] = NoReq
    BY <1>1, <1>2 DEF OffersInv, OfferTypeOK
  <2> HIDE DEF x, k
  <2>3. ASSUME NEW n \in Joined \ twice PROVE (Single(n) /\ Paid(n))'
    <3>1. \A p \in Requests : p \in Waiting(n)' => p \in Waiting(n) /\ reqs'[p] = reqs[p]
      BY <1>4 DEF Waiting
    <3>2. Single(n)' /\ Single(n)
      BY <3>1 DEF Single, Waiting, OffersInv
    <3>3. Claims(n)' \subseteq Claims(n)
      BY <1>5, <3>1 DEF Claims, Answers
    <3>4. CASE n # k
      <4>1. taken'[n] = taken[n]
        BY <2>1, <3>4 DEF OffersInv, OfferTypeOK
      <4> QED
        BY <1>1, <3>2, <3>3, <4>1, FewerClaims DEF OffersInv
    <3>5. CASE n = k
      <4>1. x \in Claims(n)
        BY <1>2, <2>1, <3>5 DEF Claims, x
      <4>2. \A p \in Requests : p \in Waiting(n)' => p = q
        BY <2>1, <3>1, <3>2, <3>5 DEF Single
      <4>3. ~\E p \in Requests : Answers(p, n)'
        BY <2>2, <4>2 DEF Answers, Waiting
      <4>4. Claims(n)' \subseteq Claims(n) \ {x}
        BY <2>2, <3>3, <4>3 DEF Claims
      <4>5. IsFiniteSet(Claims(n)) /\ Cardinality(Claims(n)) \in Nat
        BY ClaimsFinite
      <4>6. /\ IsFiniteSet(Claims(n) \ {x})
            /\ Cardinality(Claims(n) \ {x}) = Cardinality(Claims(n)) - 1
        BY <4>1, <4>5, FS_RemoveElement
      <4>7. /\ IsFiniteSet(Claims(n)')
            /\ Cardinality(Claims(n)') <= Cardinality(Claims(n)) - 1
        BY <4>4, <4>6, FS_Subset
      <4>8. Cardinality(Claims(n)') \in Nat
        BY <4>7, FS_CardinalityType
      <4>9. taken[n] \in Nat /\ minted[n] \in Nat /\ Paid(n) /\ taken'[n] = taken[n] + 1
        BY <2>1, <3>5 DEF OffersInv, OfferTypeOK
      <4> QED
        BY <1>1, <3>2, <4>5, <4>7, <4>8, <4>9 DEF Paid
    <3> QED
      BY <3>4, <3>5
  <2> QED
    BY <1>1, <1>3, <2>3 DEF OffersInv
<1> QED
  BY <1>1, <1>6, <1>7

\* A command that gives up its claim, or a control plane that ends, leaves
\* fewer claims.
LEMMA Hushed ==
  ASSUME OffersInv
  PROVE  /\ \A q \in Requests : TimeOut(q) => OffersInv'
         /\ \A n \in Nodes : Stop(n) => OffersInv'
         /\ \A n \in Joined : RestartDaemon(n) \/ Abort(n) => OffersInv'
<1>1. NoCmd \in [pc : Step, ask : SUBSET Nodes]
  BY DEF NoCmd, Step
<1>2. ASSUME NEW q \in Requests, TimeOut(q) PROVE OffersInv'
  <2>1. /\ reqs[q] # NoReq /\ reqs' = [reqs EXCEPT ![q] = [reqs[q] EXCEPT !.live = FALSE]]
        /\ UNCHANGED <<offer, cmd, minted, taken, twice>>
    BY <1>2 DEF TimeOut
  <2>2. reqs[q] \in Request
    BY <2>1 DEF OffersInv, OfferTypeOK
  <2>3. [reqs[q] EXCEPT !.live = FALSE] \in Request /\ ~[reqs[q] EXCEPT !.live = FALSE].live
    BY <2>2 DEF Request
  <2>4. OfferTypeOK'
    BY <2>1, <2>3 DEF OffersInv, OfferTypeOK
  <2>5. \A p \in Requests : reqs'[p] = reqs[p] \/ ~reqs'[p].live
    BY <2>1, <2>3 DEF OffersInv, OfferTypeOK
  <2> QED
    BY <2>1, <2>4, <2>5, Calmer
<1>3. ASSUME NEW n \in Nodes, Cut(n), UNCHANGED <<offer, minted, taken, twice>>,
             cmd' \in [Joined -> [pc : Step, ask : SUBSET Nodes]]
      PROVE  OffersInv'
  <2>1. \A p \in Requests : reqs'[p] = reqs[p] \/ reqs'[p] = NoReq
    BY <1>3 DEF Cut
  <2>2. reqs' \in [Requests -> Request \cup {NoReq}]
    BY <1>3 DEF Cut, OffersInv, OfferTypeOK
  <2>3. OfferTypeOK'
    BY <1>3, <2>2 DEF OffersInv, OfferTypeOK
  <2> QED
    BY <1>3, <2>1, <2>3, Calmer
<1>4. ASSUME NEW n \in Nodes, Stop(n) PROVE OffersInv'
  BY <1>3, <1>4 DEF Stop, OffersInv, OfferTypeOK
<1>5. ASSUME NEW n \in Joined, RestartDaemon(n) PROVE OffersInv'
  BY <1>1, <1>3, <1>5 DEF RestartDaemon, End, OffersInv, OfferTypeOK, Joined
<1>6. ASSUME NEW n \in Joined, Abort(n) PROVE OffersInv'
  <2>1. /\ UNCHANGED <<offer, minted, taken, twice>> /\ cmd' = [cmd EXCEPT ![n] = NoCmd]
        /\ reqs' = [q \in Requests |-> IF q \in Waiting(n) THEN [reqs[q] EXCEPT !.live = FALSE]
                                       ELSE reqs[q]]
    BY <1>6 DEF Abort, End
  <2>2. ASSUME NEW q \in Requests
        PROVE  /\ reqs'[q] \in Request \cup {NoReq}
               /\ reqs'[q] = reqs[q] \/ ~reqs'[q].live
    <3>1. CASE q \in Waiting(n)
      <4>1. reqs[q] \in Request /\ reqs'[q] = [reqs[q] EXCEPT !.live = FALSE]
        BY <2>1, <3>1 DEF Waiting, OffersInv, OfferTypeOK
      <4> QED
        BY <4>1 DEF Request
    <3>2. CASE q \notin Waiting(n)
      BY <2>1, <3>2 DEF OffersInv, OfferTypeOK
    <3> QED
      BY <3>1, <3>2
  <2>3. reqs' \in [Requests -> Request \cup {NoReq}]
    BY <2>1, <2>2
  <2>4. OfferTypeOK'
    BY <1>1, <2>1, <2>3 DEF OffersInv, OfferTypeOK
  <2> QED
    BY <2>1, <2>2, <2>4, Calmer
<1> QED
  BY <1>2, <1>4, <1>5, <1>6

LEMMA CommandAside ==
  ASSUME OffersInv, NEW n \in Joined,
         \/ Adopt(n) \/ GiveUp(n) \/ \E x \in Nodes : NotServed(n, x)
         \/ AdoptCopy(n) \/ SaveFile(n) \/ GrantRoles(n)
         \/ Drop(n) \/ ShedRoles(n) \/ Unlink(n)
  PROVE  OffersInv'
<1> DEFINE C == [pc : Step, ask : SUBSET Nodes]
<1>1. UNCHANGED offers
  BY DEF Adopt, GiveUp, NotServed, AdoptCopy, SaveFile, GrantRoles, Drop, ShedRoles, Unlink
<1>2. cmd' \in [Joined -> C]
  <2>0. cmd[n] \in C /\ cmd \in [Joined -> C] /\ NoCmd \in C
    BY DEF OffersInv, OfferTypeOK, NoCmd, Step
  <2>1. CASE Adopt(n)
    <3>1. Targets(n) \in SUBSET Nodes
      BY DEF Targets, Discovered, Joined
    <3>2. [pc |-> "claim", ask |-> Targets(n)] \in C
      BY <3>1 DEF Step
    <3> QED
      BY <2>0, <2>1, <3>2 DEF Adopt
  <2>2. CASE GiveUp(n)
    BY <2>0, <2>2 DEF GiveUp, End
  <2>3. ASSUME NEW x \in Nodes, NotServed(n, x) PROVE cmd' \in [Joined -> C]
    <3>1. cmd' = [cmd EXCEPT ![n] = [cmd[n] EXCEPT !.ask = cmd[n].ask \ {x}]]
      BY <2>3 DEF NotServed, AskedOne
    <3>2. [cmd[n] EXCEPT !.ask = cmd[n].ask \ {x}] \in C
      BY <2>0
    <3> QED
      BY <2>0, <3>1, <3>2
  <2>4. CASE AdoptCopy(n) \/ SaveFile(n) \/ GrantRoles(n) \/ Drop(n) \/ ShedRoles(n) \/ Unlink(n)
    <3>1. PICK p \in {"save", "grant", "restart", "shed", "unlink"} :
             cmd' = [cmd EXCEPT ![n] = [cmd[n] EXCEPT !.pc = p]]
      BY <2>4 DEF AdoptCopy, SaveFile, GrantRoles, Drop, ShedRoles, Unlink, Goto
    <3>2. [cmd[n] EXCEPT !.pc = p] \in C
      BY <2>0 DEF Step
    <3> QED
      BY <2>0, <3>1, <3>2
  <2> QED
    BY <2>1, <2>2, <2>3, <2>4
<1> QED
  BY <1>1, <1>2, Aside

LEMMA StepPaid == OffersInv /\ [Next]_vars => OffersInv'
<1> SUFFICES ASSUME OffersInv, [Next]_vars PROVE OffersInv'
  OBVIOUS
<1>1. CASE UNCHANGED offers /\ UNCHANGED cmd
  BY <1>1, Aside DEF OffersInv, OfferTypeOK
<1>2. ASSUME NEW n \in Joined, Command(n) PROVE OffersInv'
  BY <1>2, Sending, CommandAside, Hushed DEF Command
<1>3. ASSUME NEW n \in Joined, Daemon(n) \/ RenewByHand(n) PROVE OffersInv'
  BY <1>1, <1>3 DEF Daemon, Pull, Renew, PushToSeeds, RenewByHand
<1>4. ASSUME NEW n \in Nodes, Stop(n) \/ Start(n) \/ Expire(n) PROVE OffersInv'
  BY <1>1, <1>4, Expiring, Hushed DEF Start
<1>5. ASSUME NEW q \in Requests, Serve(q) PROVE OffersInv'
  BY <1>5, Reading, Consuming, Hushed DEF Serve
<1>6. ASSUME NEW x \in Nodes, NEW m \in Joined, SetRoles(x, m) PROVE OffersInv'
  BY <1>1, <1>6 DEF SetRoles
<1>7. CASE Tick \/ UNCHANGED vars
  BY <1>1, <1>7 DEF Tick, vars
<1> QED
  BY <1>2, <1>3, <1>4, <1>5, <1>6, <1>7, Minting DEF Next

\* A node that never ran two `gw anchor adopt` at once opens no more answers
\* than offers were minted for it, although the control plane's threads read and
\* delete an offer in two steps and serve the claims of commands that gave up,
\* offers expire and are replaced in between, and answers get lost
\* (_handle_anchor_claim).
THEOREM OffersAreSingleUse == Spec => []OncePerOffer
<1>1. OffersInv => OncePerOffer
  <2> SUFFICES ASSUME OffersInv, NEW n \in Joined \ twice PROVE taken[n] <= minted[n]
    BY DEF OncePerOffer
  <2>1. taken[n] \in Nat /\ minted[n] \in Nat /\ Paid(n)
    BY DEF OffersInv, OfferTypeOK
  <2> QED
    BY <2>1, ClaimsFinite DEF Paid
<1> QED
  BY InitPaid, StepPaid, <1>1, PTL DEF Spec

-----------------------------------------------------------------------------
(* The records and the decisions of Authority *)

\* The offers, and everything else.
StateTypeOK ==
    /\ now \in 1..MaxNow
    /\ file \subseteq Nodes
    /\ daemon \in [Nodes -> {"down", "member", "holder"}]
    /\ log \in [Nodes -> [Joined -> Setcaps]]
    /\ dir \in [Nodes -> [Joined -> Record]]

\* A copy of a record is no newer than the node's own.
OwnIsNewest == \A n \in Nodes, m \in Joined : dir[n][m].iat <= dir[m][m].iat

RecordsInv == StateTypeOK /\ OwnIsNewest

LEMMA DecisionType == ASSUME StateTypeOK, NEW role \in BOOLEAN PROVE Decision(role) \in Setcaps
<1>1. now \in 0..MaxNow
  BY TimeAssumption DEF StateTypeOK
<1> QED
  BY <1>1 DEF Decision, Setcaps

LEMMA CapsForType ==
  ASSUME StateTypeOK, NEW x \in Nodes, NEW m \in Joined PROVE CapsFor(x, m) \in BOOLEAN
<1>1. log[x][m] \in Setcaps /\ dir[x][m] \in Record
  BY DEF StateTypeOK
<1> QED
  BY <1>1 DEF CapsFor, Setcaps, Record

\* One entry of the copies is set.
LEMMA EntrySet ==
  ASSUME NEW d \in [Nodes -> [Joined -> Record]], NEW x \in Nodes, NEW n \in Joined, NEW r,
         NEW e, e = [d EXCEPT ![x][n] = r]
  PROVE  /\ \A y \in Nodes, m \in Joined : e[y][m] = d[y][m] \/ (y = x /\ m = n)
         /\ e[x][n] = r
         /\ r \in Record => e \in [Nodes -> [Joined -> Record]]
<1>1. e = [d EXCEPT ![x] = [d[x] EXCEPT ![n] = r]]
  OBVIOUS
<1>2. e[x] = [d[x] EXCEPT ![n] = r] /\ d[x] \in [Joined -> Record]
  BY <1>1
<1>3. \A y \in Nodes : y # x => e[y] = d[y]
  BY <1>1
<1>4. e[x][n] = r /\ \A m \in Joined : m # n => e[x][m] = d[x][m]
  BY <1>2
<1>5. ASSUME r \in Record PROVE e \in [Nodes -> [Joined -> Record]]
  <2>1. [d[x] EXCEPT ![n] = r] \in [Joined -> Record]
    BY <1>2, <1>5
  <2> QED
    BY <1>1, <2>1
<1>6. \A y \in Nodes, m \in Joined : e[y][m] = d[y][m] \/ (y = x /\ m = n)
  BY <1>3, <1>4
<1> QED
  BY <1>4, <1>5, <1>6

\* A decision made somewhere.
LEMMA Decided ==
  ASSUME RecordsInv, NEW x \in Nodes, NEW m \in Joined, NEW role \in BOOLEAN,
         log' = [log EXCEPT ![x][m] = Decision(role)], UNCHANGED <<now, file, daemon, dir>>
  PROVE  RecordsInv'
<1>1. Decision(role) \in Setcaps
  BY DecisionType DEF RecordsInv
<1>2. log' \in [Nodes -> [Joined -> Setcaps]]
  BY <1>1 DEF RecordsInv, StateTypeOK
<1> QED
  BY <1>2 DEF RecordsInv, StateTypeOK, OwnIsNewest

\* A record copied from one node to another, if it is newer there.
LEMMA Copied ==
  ASSUME RecordsInv, NEW x \in Nodes, NEW n \in Joined,
         dir' = [dir EXCEPT ![x][n] = Newer(@, dir[n][n])],
         UNCHANGED <<now, file, log>>, daemon' \in [Nodes -> {"down", "member", "holder"}]
  PROVE  RecordsInv'
<1>1. n \in Nodes /\ dir[x][n] \in Record /\ dir[n][n] \in Record
  BY DEF Joined, RecordsInv, StateTypeOK
<1>2. dir'[x][n] \in {dir[x][n], dir[n][n]} /\ dir' \in [Nodes -> [Joined -> Record]]
  BY <1>1 DEF Newer, RecordsInv, StateTypeOK
<1>3. \A y \in Nodes, m \in Joined : dir'[y][m] = dir[y][m] \/ (y = x /\ m = n)
  <2> SUFFICES ASSUME NEW r, r = Newer(dir[x][n], dir[n][n]),
                      dir' = [dir EXCEPT ![x][n] = r]
               PROVE  \A y \in Nodes, m \in Joined : dir'[y][m] = dir[y][m] \/ (y = x /\ m = n)
    OBVIOUS
  <2>1. dir \in [Nodes -> [Joined -> Record]]
    BY DEF RecordsInv, StateTypeOK
  <2> QED
    BY <2>1, EntrySet
<1>4. dir'[n][n] = dir[n][n]
  BY <1>1, <1>2, <1>3
<1>5. OwnIsNewest'
  <2> SUFFICES ASSUME NEW y \in Nodes, NEW m \in Joined
               PROVE  dir'[y][m].iat <= dir'[m][m].iat
    BY DEF OwnIsNewest
  <2>1. m \in Nodes /\ dir'[m][m] = dir[m][m]
    BY <1>3, <1>4 DEF Joined
  <2>2. dir[y][m].iat <= dir[m][m].iat /\ dir[m][m].iat \in Nat
    BY <2>1 DEF RecordsInv, OwnIsNewest, StateTypeOK, Record
  <2> QED
    BY <1>2, <1>3, <2>1, <2>2
<1> QED
  BY <1>2, <1>5 DEF RecordsInv, StateTypeOK

LEMMA PullKeeps ==
  ASSUME RecordsInv, NEW n \in Joined, Pull(n)
  PROVE  RecordsInv'
<1>1. PICK x \in Answering(n) :
        /\ log' = [log EXCEPT ![n] = [m \in Joined |-> Later(log[n][m], log[x][m])]]
        /\ dir' = [dir EXCEPT ![n] = [m \in Joined |-> Newer(dir[n][m], dir[x][m])]]
  BY DEF Pull
<1>2. x \in Nodes /\ n \in Nodes
  BY DEF Answering, Discovered, Joined
<1>3. \A m \in Joined : /\ Later(log[n][m], log[x][m]) \in Setcaps
                        /\ Newer(dir[n][m], dir[x][m]) \in Record
  BY <1>2 DEF Later, Newer, RecordsInv, StateTypeOK
<1>4. log' \in [Nodes -> [Joined -> Setcaps]] /\ dir' \in [Nodes -> [Joined -> Record]]
  BY <1>1, <1>3 DEF RecordsInv, StateTypeOK
<1>5. \A y \in Nodes, m \in Joined :
        dir'[y][m] = dir[y][m] \/ (y = n /\ dir'[y][m] = Newer(dir[n][m], dir[x][m]))
  <2> TAKE y \in Nodes, m \in Joined
  <2>1. CASE y = n
    <3>1. dir'[n] = [k \in Joined |-> Newer(dir[n][k], dir[x][k])]
      BY <1>1, <1>2 DEF RecordsInv, StateTypeOK
    <3> QED
      BY <2>1, <3>1
  <2>2. CASE y # n
    BY <1>1, <2>2 DEF RecordsInv, StateTypeOK
  <2> QED
    BY <2>1, <2>2
<1>6. OwnIsNewest'
  <2> SUFFICES ASSUME NEW y \in Nodes, NEW m \in Joined
               PROVE  dir'[y][m].iat <= dir'[m][m].iat
    BY DEF OwnIsNewest
  <2>1. /\ m \in Nodes /\ dir[m][m].iat \in Nat
        /\ dir[x][m].iat \in Nat /\ dir[n][m].iat \in Nat /\ dir[y][m].iat \in Nat
        /\ dir[x][m].iat <= dir[m][m].iat /\ dir[n][m].iat <= dir[m][m].iat
        /\ dir[y][m].iat <= dir[m][m].iat
    BY <1>2 DEF Joined, RecordsInv, StateTypeOK, OwnIsNewest, Record
  <2>2. dir'[m][m] = dir[m][m]
    BY <1>5, <2>1 DEF Newer
  <2> QED
    BY <1>5, <2>1, <2>2 DEF Newer
<1> QED
  BY <1>4, <1>6 DEF Pull, RecordsInv, StateTypeOK

\* A renewal makes the node's own copy the newest, and the holder's with it.
LEMMA RenewedKeeps ==
  ASSUME RecordsInv, NEW n \in Joined, NEW x \in Nodes, RenewedAt(n, x),
         UNCHANGED <<now, file, daemon, log>>
  PROVE  RecordsInv'
<1> SUFFICES ASSUME NEW r, r = [iat |-> now, role |-> CapsFor(x, n)]
             PROVE  RecordsInv'
  OBVIOUS
<1>1. dir[n][n].iat < now /\ dir' = [dir EXCEPT ![n][n] = r, ![x][n] = r]
  BY DEF RenewedAt
<1>2. r \in Record /\ r.iat = now /\ n \in Nodes
  <2>1. now \in 0..MaxNow /\ CapsFor(x, n) \in BOOLEAN
    BY CapsForType, TimeAssumption DEF RecordsInv, StateTypeOK
  <2> QED
    BY <2>1 DEF Record, Joined
<1>3. dir' \in [Nodes -> [Joined -> Record]]
  BY <1>1, <1>2 DEF RecordsInv, StateTypeOK
<1>4. /\ \A y \in Nodes, m \in Joined : dir'[y][m] = dir[y][m] \/ (m = n /\ dir'[y][m] = r)
      /\ dir'[n][n] = r
  <2> DEFINE d == [dir EXCEPT ![n][n] = r]
  <2>1. dir \in [Nodes -> [Joined -> Record]]
    BY DEF RecordsInv, StateTypeOK
  <2>2. /\ \A y \in Nodes, m \in Joined : d[y][m] = dir[y][m] \/ (y = n /\ m = n)
        /\ d[n][n] = r /\ d \in [Nodes -> [Joined -> Record]]
    BY <1>2, <2>1, EntrySet
  <2>3. dir' = [d EXCEPT ![x][n] = r]
    BY <1>1
  <2> HIDE DEF d
  <2>4. /\ \A y \in Nodes, m \in Joined : dir'[y][m] = d[y][m] \/ (y = x /\ m = n)
        /\ dir'[x][n] = r
    BY <1>2, <2>2, <2>3, EntrySet
  <2>5. ASSUME NEW y \in Nodes, NEW m \in Joined
        PROVE  dir'[y][m] = dir[y][m] \/ (m = n /\ dir'[y][m] = r)
    <3>1. dir'[y][m] = d[y][m] \/ (m = n /\ dir'[y][m] = r)
      BY <2>4
    <3>2. d[y][m] = dir[y][m] \/ (m = n /\ d[y][m] = r)
      BY <2>2
    <3> QED
      BY <3>1, <3>2
  <2>6. dir'[n][n] = r
    <3>1. dir'[n][n] = d[n][n] \/ dir'[n][n] = r
      BY <1>2, <2>4
    <3> QED
      BY <2>2, <3>1
  <2> QED
    BY <2>5, <2>6
<1>5. OwnIsNewest'
  <2> SUFFICES ASSUME NEW y \in Nodes, NEW m \in Joined
               PROVE  dir'[y][m].iat <= dir'[m][m].iat
    BY DEF OwnIsNewest
  <2>1. /\ m \in Nodes /\ dir[m][m].iat \in Nat /\ dir[y][m].iat \in Nat /\ now \in Nat
        /\ dir[y][m].iat <= dir[m][m].iat
    BY TimeAssumption DEF Joined, RecordsInv, StateTypeOK, OwnIsNewest, Record
  <2>2. CASE m = n
    <3>1. dir'[m][m].iat = now /\ dir[m][m].iat < now
      BY <1>1, <1>2, <1>4, <2>2
    <3>2. dir'[y][m].iat \in {dir[y][m].iat, now}
      BY <1>2, <1>4
    <3> QED
      BY <2>1, <3>1, <3>2
  <2>3. CASE m # n
    BY <1>4, <2>1, <2>3
  <2> QED
    BY <2>2, <2>3
<1> QED
  BY <1>3, <1>5 DEF RecordsInv, StateTypeOK

\* A daemon that starts.
LEMMA StartedKeeps ==
  ASSUME RecordsInv, NEW n \in Nodes, Started(n), UNCHANGED <<now, file, log>>
  PROVE  RecordsInv'
<1>1. daemon' \in [Nodes -> {"down", "member", "holder"}]
  BY DEF Started, RecordsInv, StateTypeOK
<1>2. CASE UNCHANGED dir
  BY <1>1, <1>2 DEF RecordsInv, StateTypeOK, OwnIsNewest
<1>3. CASE n # First /\ dir' = [dir EXCEPT ![First][n] = Newer(@, dir[n][n])]
  BY <1>1, <1>3, Copied DEF Joined
<1> QED
  BY <1>2, <1>3 DEF Started

LEMMA RecordsNext ==
  ASSUME RecordsInv, [Next]_vars
  PROVE  RecordsInv'
<1>1. ASSUME UNCHANGED <<now, log, dir>>, file' \subseteq Nodes,
             daemon' \in [Nodes -> {"down", "member", "holder"}]
      PROVE  RecordsInv'
  BY <1>1 DEF RecordsInv, StateTypeOK, OwnIsNewest
<1>2. CASE Tick
  <2>1. now' \in 1..MaxNow
    BY <1>2, TimeAssumption DEF Tick, RecordsInv, StateTypeOK
  <2> QED
    BY <1>2, <2>1 DEF Tick, RecordsInv, StateTypeOK, OwnIsNewest
<1>3. ASSUME NEW n \in Joined, Command(n)
      PROVE  RecordsInv'
  <2>0. n \in Nodes /\ file \subseteq Nodes /\ daemon \in [Nodes -> {"down", "member", "holder"}]
    BY DEF Joined, RecordsInv, StateTypeOK
  <2>1. CASE Adopt(n) \/ GiveUp(n) \/ AdoptCopy(n)
    BY <1>1, <2>0, <2>1 DEF Adopt, GiveUp, AdoptCopy
  <2>5. ASSUME NEW x \in Nodes, NEW q \in Requests,
               Ask(n, x, q) \/ AdoptAgain(n, x, q)
        PROVE  RecordsInv'
    BY <1>1, <2>0, <2>5 DEF Ask, AdoptAgain
  <2>6. ASSUME NEW x \in Nodes, NotServed(n, x) PROVE RecordsInv'
    BY <1>1, <2>0, <2>6 DEF NotServed
  <2>2. CASE SaveFile(n) \/ Drop(n) \/ Unlink(n) \/ Abort(n)
    BY <1>1, <2>0, <2>2 DEF SaveFile, Drop, Unlink, Abort
  <2>3. CASE GrantRoles(n) \/ ShedRoles(n)
    <3>1. PICK role \in BOOLEAN : log' = [log EXCEPT ![n][n] = Decision(role)]
      BY <2>3 DEF GrantRoles, ShedRoles, Decide
    <3> QED
      BY <2>0, <2>3, <3>1, Decided DEF GrantRoles, ShedRoles
  <2>4. CASE RestartDaemon(n)
    BY <2>0, <2>4, StartedKeeps DEF RestartDaemon
  <2> QED
    BY <1>3, <2>1, <2>2, <2>3, <2>4, <2>5, <2>6 DEF Command
<1>4. ASSUME NEW n \in Joined, Daemon(n) \/ RenewByHand(n)
      PROVE  RecordsInv'
  <2>1. CASE Pull(n)
    BY <2>1, PullKeeps
  <2>2. CASE Renew(n)
    <3>1. PICK x \in RenewsAt(n) : RenewedAt(n, x)
      BY <2>2 DEF Renew
    <3>2. x \in Nodes
      BY <3>1 DEF RenewsAt, Discovered, Joined
    <3> QED
      BY <2>2, <3>1, <3>2, RenewedKeeps DEF Renew
  <2>3. CASE RenewByHand(n)
    BY <2>3, RenewedKeeps DEF RenewByHand
  <2>4. CASE PushToSeeds(n)
    BY <2>4, Copied DEF PushToSeeds, RecordsInv, StateTypeOK
  <2> QED
    BY <1>4, <2>1, <2>2, <2>3, <2>4 DEF Daemon
<1>5. ASSUME NEW n \in Nodes, Stop(n) \/ Start(n) \/ Expire(n)
      PROVE  RecordsInv'
  <2>1. CASE Stop(n) \/ Expire(n)
    <3>1. file \subseteq Nodes /\ daemon \in [Nodes -> {"down", "member", "holder"}]
      BY DEF RecordsInv, StateTypeOK
    <3>2. daemon' \in [Nodes -> {"down", "member", "holder"}]
      BY <2>1, <3>1 DEF Stop, Expire
    <3> QED
      BY <1>1, <2>1, <3>1, <3>2 DEF Stop, Expire
  <2>2. CASE Start(n)
    BY <2>2, StartedKeeps DEF Start
  <2> QED
    BY <1>5, <2>1, <2>2
<1>6. ASSUME NEW x \in Nodes, NEW m \in Joined, SetRoles(x, m)
      PROVE  RecordsInv'
  BY <1>6, Decided DEF SetRoles
<1>7. ASSUME NEW x \in Nodes, NEW m \in Joined \cup Strangers, MintOffer(x, m)
      PROVE  RecordsInv'
  BY <1>1, <1>7 DEF MintOffer, RecordsInv, StateTypeOK
<1>8. ASSUME NEW q \in Requests, Serve(q) PROVE RecordsInv'
  BY <1>1, <1>8 DEF Serve, ReadOffer, ConsumeOffer, TimeOut, RecordsInv, StateTypeOK
<1>9. CASE UNCHANGED vars
  BY <1>1, <1>9 DEF vars, RecordsInv, StateTypeOK
<1> QED
  BY <1>2, <1>3, <1>4, <1>5, <1>6, <1>7, <1>8, <1>9 DEF Next

\* Types, and that a copy of a record is no newer than the node's own: every copy
\* anywhere was signed by the node and kept by it (renewal.py, directory.merge).
THEOREM AuthorityTypeCorrect == Spec => []AuthTypeOK
<1>1. Init => RecordsInv
  BY TimeAssumption DEF Init, RecordsInv, StateTypeOK, OwnIsNewest, Undecided, Setcaps, Record, Joined
<1>2. RecordsInv /\ [Next]_vars => RecordsInv'
  BY RecordsNext
<1>3. RecordsInv /\ OffersInv => AuthTypeOK
  BY DEF RecordsInv, StateTypeOK, OwnIsNewest, OffersInv, OfferTypeOK, AuthTypeOK
<1>4. Spec => []OffersInv
  BY InitPaid, StepPaid, PTL DEF Spec
<1> QED
  BY <1>1, <1>2, <1>3, <1>4, PTL DEF Spec

-----------------------------------------------------------------------------
(***************************************************************************)
(* `gw anchor-transfer`: theorems about Handover, for every set of members, *)
(* whatever runs on the target before, and every number of decisions,      *)
(* faults and attempts.                                                    *)
(***************************************************************************)
HIDE FirstAssumption
USE TargetAssumption

\* The target could serve.
Ready == disk["there"].ca /\ disk["there"].config = "anchor"

\* The target has the CA before the config, and both before the stop; only the
\* copy of the config touches them again, in another command.
Order ==
    /\ pc = "config" => disk["there"].ca
    /\ pc \in {"stop", "start", "verify", "rollback", "disable", "done"} => Ready

\* Once stopped, the anchor here is not wanted before a rollback or a boot, and
\* once it is disabled a boot does not bring it back.
Down ==
    /\ pc \in {"start", "verify", "disable", "done"} => ~wanted["here"]
    /\ pc = "done" <=> ~enabled["here"]

\* StopsLast and StaysDown look at single moments of the command; Order and Down
\* say what holds at each step on the way there.
HandoverInv == HandoverTypeOK /\ Order /\ Down

Disk == [ca : BOOLEAN, decided : SUBSET Decisions, known : SUBSET Members,
         config : {"none", "member", "anchor"}]

LEMMA InitHolds == TransferInit => HandoverInv
<1> SUFFICES ASSUME TransferInit PROVE HandoverInv
  OBVIOUS
<1> DEFINE dHere == [ca |-> TRUE, decided |-> {}, config |-> "anchor", known |-> Members]
           dThere == [ca |-> FALSE, decided |-> {}, config |-> TargetWas,
                      known |-> IF TargetWas = "member" THEN Members ELSE {}]
<1>0. dHere \in Disk /\ dThere \in Disk /\ disk = [here |-> dHere, there |-> dThere]
  BY DEF TransferInit, Disk
<1> HIDE DEF dHere, dThere
<1>1. disk \in [Hosts -> Disk]
  BY <1>0 DEF Hosts
<1>2. disk["here"].ca
  BY <1>0 DEF dHere
<1>3. /\ runs \in [Hosts -> {"none", "member", "anchor"}]
      /\ wanted \in [Hosts -> BOOLEAN] /\ enabled \in [Hosts -> BOOLEAN]
      /\ \A h \in Hosts : runs[h] # "none" => wanted[h]
      /\ \A h \in Hosts : runs[h] = "anchor" => h = "here"
  <2>1. runs["here"] = "anchor" /\ runs["there"] = TargetWas
    BY DEF TransferInit
  <2>2. wanted = [h \in Hosts |-> h = "here" \/ TargetWas = "member"]
    BY DEF TransferInit
  <2>3. runs \in [Hosts -> {"none", "member", "anchor"}]
    BY <2>1 DEF TransferInit, Hosts
  <2>4. wanted \in [Hosts -> BOOLEAN] /\ enabled = wanted
    BY DEF TransferInit
  <2>5. wanted["here"] /\ (TargetWas # "none" => wanted["there"])
    BY <2>2 DEF Hosts
  <2> QED
    BY <2>1, <2>3, <2>4, <2>5 DEF Hosts
<1>4. pc \in Steps /\ blob \subseteq Decisions /\ cut \in BOOLEAN
  BY DEF TransferInit, Steps
<1>5. HandoverTypeOK
  BY <1>1, <1>2, <1>3, <1>4 DEF HandoverTypeOK, Disk
<1>6. Order /\ Down
  <2>1. pc = "idle"
    BY DEF TransferInit
  <2>2. enabled = wanted /\ wanted = [h \in Hosts |-> h = "here" \/ TargetWas = "member"]
    BY DEF TransferInit
  <2>3. wanted["here"] /\ enabled["here"]
    BY <2>2 DEF Hosts
  <2> QED
    BY <2>1, <2>3 DEF Order, Down
<1> QED
  BY <1>5, <1>6 DEF HandoverInv

LEMMA LoadsFits ==
  ASSUME HandoverTypeOK, NEW h \in Hosts
  PROVE  /\ Loads(h) \in {"none", "member", "anchor"}
         /\ Loads(h) = "anchor" <=> disk[h].ca /\ disk[h].config = "anchor"
BY DEF Loads, HandoverTypeOK

USE DEF Draw, Upcoming

\* What leaves the units and the history alone.
LEMMA UnitsKept ==
  ASSUME HandoverInv, UNCHANGED <<units, cut>>, pc' \in Steps \ {"done"}, pc # "done",
         pc' \in {"start", "verify", "disable"} => pc' = pc,
         disk' \in [Hosts -> Disk], blob' \subseteq Decisions,
         \A h \in Hosts : disk[h].ca => disk'[h].ca
  PROVE  HandoverTypeOK' /\ Down'
<1>1. /\ runs' \in [Hosts -> {"none", "member", "anchor"}]
      /\ wanted' \in [Hosts -> BOOLEAN] /\ enabled' \in [Hosts -> BOOLEAN]
      /\ \A h \in Hosts : runs'[h] # "none" => wanted'[h]
      /\ \A h \in Hosts : runs'[h] = "anchor" => disk'[h].ca
      /\ cut' \in BOOLEAN
  BY DEF HandoverInv, HandoverTypeOK, units
<1>2. Down'
  BY DEF HandoverInv, Down, units
<1> QED
  BY <1>1, <1>2 DEF HandoverTypeOK, Disk

LEMMA CommandStarts ==
  ASSUME HandoverInv, Begin \/ Backup \/ Restore \/ CopyConfig
  PROVE  HandoverInv'
<1>0. /\ disk \in [Hosts -> Disk] /\ disk["here"] \in Disk /\ disk["there"] \in Disk
      /\ blob \subseteq Decisions
  BY DEF HandoverInv, HandoverTypeOK, Disk, Hosts
<1>1. CASE Begin \/ Backup
  <2>1. /\ UNCHANGED <<units, cut, disk>> /\ pc \in {"idle", "backup"}
        /\ pc' \in {"backup", "restore"} /\ blob' \in {blob, disk["here"].decided}
    BY <1>1 DEF Begin, Backup
  <2>2. HandoverTypeOK' /\ Down'
    BY <1>0, <2>1, UnitsKept DEF Steps, Disk
  <2>3. Order'
    BY <2>1 DEF Order
  <2> QED
    BY <2>2, <2>3 DEF HandoverInv
<1>2. CASE Restore
  <2>1. /\ UNCHANGED <<units, cut, blob>> /\ pc = "restore"
        /\ Restored \/ (UNCHANGED disk /\ pc' = "idle")
        /\ pc' \in {"config", "idle"}
    BY <1>2 DEF Restore
  <2>2. /\ disk' \in [Hosts -> Disk]
        /\ \A h \in Hosts : disk[h].ca => disk'[h].ca
        /\ pc' = "config" => disk'["there"].ca
    <3>1. CASE Restored
      <4>1. disk' = [disk EXCEPT !["there"] = [@ EXCEPT !.ca = TRUE, !.decided = blob]]
        BY <1>0, <3>1 DEF Restored
      <4>2. [disk["there"] EXCEPT !.ca = TRUE, !.decided = blob] \in Disk
        BY <1>0 DEF Disk
      <4> QED
        BY <1>0, <4>1, <4>2 DEF Disk, Hosts
    <3> QED
      BY <1>0, <2>1, <3>1
  <2>3. HandoverTypeOK' /\ Down'
    BY <1>0, <2>1, <2>2, UnitsKept DEF Steps
  <2>4. Order'
    BY <2>1, <2>2 DEF Order
  <2> QED
    BY <2>3, <2>4 DEF HandoverInv
<1>3. CASE CopyConfig
  <2>1. /\ UNCHANGED <<units, cut, blob>> /\ pc = "config" /\ disk["there"].ca
        /\ \/ Overwrites("anchor") /\ pc' = "stop"
           \/ (Overwrites("none") \/ UNCHANGED disk) /\ pc' = "idle"
    BY <1>3 DEF CopyConfig, CopyLost, HandoverInv, Order
  <2>2. /\ disk' \in [Hosts -> Disk]
        /\ \A h \in Hosts : disk'[h].ca = disk[h].ca
        /\ pc' = "stop" => disk'["there"].config = "anchor"
    BY <1>0, <2>1 DEF Overwrites, Disk, Hosts
  <2>3. HandoverTypeOK' /\ Down'
    BY <1>0, <2>1, <2>2, UnitsKept DEF Steps
  <2>4. Order'
    BY <2>1, <2>2 DEF Order, Ready, Hosts
  <2> QED
    BY <2>3, <2>4 DEF HandoverInv
<1> QED
  BY <1>1, <1>2, <1>3

LEMMA CommandHandsOver ==
  ASSUME HandoverInv, StopHere \/ StartThere \/ Verify \/ Rollback \/ Disable
  PROVE  HandoverInv'
<1>1. disk' = disk /\ blob' = blob /\ cut' = cut
  BY DEF StopHere, StartThere, Verify, Rollback, Disable
<1>2. \A h \in Hosts : /\ Loads(h) \in {"none", "member", "anchor"}
                       /\ Loads(h) = "anchor" => disk[h].ca
  BY LoadsFits DEF HandoverInv
<1>3. HandoverTypeOK'
  <2>1. CASE StopHere
    <3>1. /\ runs' = [runs EXCEPT !["here"] = "none"]
          /\ wanted' = [wanted EXCEPT !["here"] = FALSE]
          /\ enabled' = enabled /\ pc' = "start"
      BY <2>1 DEF StopHere
    <3>2. wanted' \in [Hosts -> BOOLEAN]
      BY <3>1 DEF HandoverInv, HandoverTypeOK, Hosts
    <3>3. runs' \in [Hosts -> {"none", "member", "anchor"}]
      BY <3>1 DEF HandoverInv, HandoverTypeOK, Hosts
    <3> QED
      BY <1>1, <3>1, <3>2, <3>3 DEF HandoverInv, HandoverTypeOK, Steps, Hosts
  <2>2. CASE StartThere
    <3>1. pc' \in Steps
      BY <2>2 DEF StartThere, Steps
    <3>2. CASE Enabled
      <4>1. runs' \in [Hosts -> {"none", "member", "anchor"}]
        <5>1. Loads("there") \in {"none", "member", "anchor"}
          BY DEF Loads
        <5>2. runs' = [runs EXCEPT !["there"] = IF @ = "none" THEN Loads("there") ELSE @]
          BY <3>2 DEF Enabled
        <5>3. runs \in [Hosts -> {"none", "member", "anchor"}]
          BY DEF HandoverInv, HandoverTypeOK
        <5> QED
          BY <5>1, <5>2, <5>3
      <4>2. /\ enabled' \in [Hosts -> BOOLEAN] /\ wanted' \in [Hosts -> BOOLEAN]
            /\ wanted'["there"] /\ wanted'["here"] = wanted["here"]
            /\ runs'["here"] = runs["here"]
            /\ runs'["there"] \in {runs["there"], Loads("there")}
        BY <3>2 DEF Enabled, HandoverInv, HandoverTypeOK, Hosts
      <4> QED
        BY <1>1, <1>2, <3>1, <4>1, <4>2 DEF HandoverInv, HandoverTypeOK, Hosts
    <3>3. CASE UNCHANGED <<enabled, wanted, runs>>
      BY <1>1, <3>1, <3>3 DEF HandoverInv, HandoverTypeOK
    <3> QED
      BY <2>2, <3>2, <3>3 DEF StartThere
  <2>3. CASE Verify \/ Disable
    <3>1. runs' = runs /\ wanted' = wanted /\ pc' \in Steps
      BY <2>3 DEF Verify, Disable, Steps, units
    <3>2. enabled' \in [Hosts -> BOOLEAN]
      BY <2>3 DEF Verify, Disable, units, HandoverInv, HandoverTypeOK, Hosts
    <3> QED
      BY <1>1, <3>1, <3>2 DEF HandoverInv, HandoverTypeOK
  <2>4. CASE Rollback
    <3>1. pc' \in Steps /\ enabled' = enabled
      BY <2>4 DEF Rollback, Steps
    <3>2. runs' \in [Hosts -> {"none", "member", "anchor"}]
      <4>1. Loads("here") \in {"none", "member", "anchor"}
        BY DEF Loads
      <4>2. runs' = [runs EXCEPT !["here"] = Loads("here")]
        BY <2>4 DEF Rollback
      <4>3. runs \in [Hosts -> {"none", "member", "anchor"}]
        BY DEF HandoverInv, HandoverTypeOK
      <4> QED
        BY <4>1, <4>2, <4>3
    <3>3. /\ wanted' \in [Hosts -> BOOLEAN]
          /\ wanted'["here"] /\ wanted'["there"] = wanted["there"]
          /\ runs'["there"] = runs["there"] /\ runs'["here"] = Loads("here")
      BY <2>4 DEF Rollback, HandoverInv, HandoverTypeOK, Hosts
    <3> QED
      BY <1>1, <1>2, <3>1, <3>2, <3>3 DEF HandoverInv, HandoverTypeOK, Hosts
  <2> QED
    BY <2>1, <2>2, <2>3, <2>4
<1>4. Order'
  BY <1>1 DEF HandoverInv, Order, Ready, StopHere, StartThere, Verify, Rollback, Disable
<1>5. Down'
  <2>0. /\ DOMAIN wanted = Hosts /\ DOMAIN enabled = Hosts /\ Down
        /\ "here" \in Hosts /\ "there" \in Hosts
    BY DEF HandoverInv, HandoverTypeOK, Hosts
  <2>1. CASE StopHere
    BY <2>0, <2>1 DEF StopHere, Down
  <2>2. CASE StartThere
    <3>1. wanted'["here"] = wanted["here"] /\ enabled'["here"] = enabled["here"]
      BY <2>0, <2>2 DEF StartThere, Enabled
    <3> QED
      BY <2>0, <2>2, <3>1 DEF StartThere, Down
  <2>3. CASE Verify
    BY <2>0, <2>3 DEF Verify, Down, units
  <2>4. CASE Rollback
    BY <2>0, <2>4 DEF Rollback, Down
  <2>5. CASE Disable
    BY <2>0, <2>5 DEF Disable, Down
  <2> QED
    BY <2>1, <2>2, <2>3, <2>4, <2>5
<1> QED
  BY <1>3, <1>4, <1>5 DEF HandoverInv

\* What happens around the command takes neither the target's CA and config
\* away nor, once it is disabled, brings the anchor here back.
LEMMA AroundIt ==
  ASSUME HandoverInv,
         \/ Killed \/ \E d \in Decisions : MakeDecision(d)
         \/ \E h \in Hosts : Crash(h) \/ Restart(h) \/ Reboot(h)
         \/ \E m \in Members : Rejoin(m)
  PROVE  HandoverInv'
<1>0. disk \in [Hosts -> Disk] /\ disk["here"] \in Disk /\ disk["there"] \in Disk
  BY DEF HandoverInv, HandoverTypeOK, Disk, Hosts
<1>1. ASSUME (\E d \in Decisions : MakeDecision(d)) \/ \E m \in Members : Rejoin(m)
      PROVE  HandoverInv'
  <2>1. PICK h \in Hosts :
          \/ \E d \in Decisions : disk' = [disk EXCEPT ![h].decided = @ \cup {d}]
          \/ \E m \in Members : disk' = [disk EXCEPT ![h].known = @ \cup {m}]
    BY <1>1 DEF MakeDecision, Rejoin
  <2>2. /\ disk' \in [Hosts -> Disk]
        /\ \A g \in Hosts : /\ disk'[g].ca = disk[g].ca
                            /\ disk'[g].config = disk[g].config
    BY <1>0, <2>1 DEF Disk
  <2>3. UNCHANGED <<pc, units, blob, cut>>
    BY <1>1 DEF MakeDecision, Rejoin
  <2>4. HandoverTypeOK'
    BY <2>2, <2>3 DEF HandoverInv, HandoverTypeOK, Disk, Hosts, units
  <2>5. Order' /\ Down'
    BY <2>2, <2>3 DEF HandoverInv, Order, Down, Ready, Hosts, units
  <2> QED
    BY <2>4, <2>5 DEF HandoverInv
<1>2. ASSUME NEW h \in Hosts, Crash(h) \/ Restart(h)
      PROVE  HandoverInv'
  <2>1. UNCHANGED <<pc, wanted, enabled, disk, blob, cut>>
    BY <1>2 DEF Crash, Restart
  <2>2. /\ Loads(h) \in {"none", "member", "anchor"}
        /\ Loads(h) = "anchor" => disk[h].ca
    BY LoadsFits DEF HandoverInv
  <2>3. HandoverTypeOK'
    BY <1>2, <2>1, <2>2 DEF Crash, Restart, HandoverInv, HandoverTypeOK, Hosts
  <2>4. Order' /\ Down'
    BY <2>1 DEF HandoverInv, Order, Down, Ready
  <2> QED
    BY <2>3, <2>4 DEF HandoverInv
<1>3. ASSUME NEW h \in Hosts, Reboot(h)
      PROVE  HandoverInv'
  <2>1. /\ UNCHANGED <<enabled, disk, blob, cut>>
        /\ wanted' = [wanted EXCEPT ![h] = enabled[h]] /\ runs' = [runs EXCEPT ![h] = "none"]
        /\ pc' = IF h = "here" /\ pc # "done" THEN "idle" ELSE pc
    BY <1>3 DEF Reboot
  <2>2. wanted' \in [Hosts -> BOOLEAN] /\ \A g \in Hosts \ {h} : wanted'[g] = wanted[g]
    BY <2>1 DEF HandoverInv, HandoverTypeOK
  <2>3. /\ runs' \in [Hosts -> {"none", "member", "anchor"}] /\ runs'[h] = "none"
        /\ \A g \in Hosts \ {h} : runs'[g] = runs[g]
    BY <2>1 DEF HandoverInv, HandoverTypeOK
  <2>4. HandoverTypeOK'
    BY <2>1, <2>2, <2>3 DEF HandoverInv, HandoverTypeOK, Steps
  <2>5. Order'
    BY <2>1 DEF HandoverInv, Order, Ready
  <2>6. Down'
    <3>1. CASE h = "here"
      BY <2>1, <3>1 DEF HandoverInv, HandoverTypeOK, Down, Hosts
    <3>2. CASE h # "here"
      BY <2>1, <2>2, <3>2 DEF HandoverInv, Down, Hosts
    <3> QED
      BY <3>1, <3>2
  <2> QED
    BY <2>4, <2>5, <2>6 DEF HandoverInv
<1>4. CASE Killed
  <2>1. UNCHANGED <<units, disk, blob>> /\ pc' = "idle" /\ pc # "done"
    BY <1>4 DEF Killed
  <2>2. cut' \in BOOLEAN
    BY <1>4, Zenon DEF Killed, HandoverInv, HandoverTypeOK
  <2>3. HandoverTypeOK'
    BY <2>1, <2>2 DEF HandoverInv, HandoverTypeOK, Steps, units
  <2>4. Order' /\ Down'
    BY <2>1 DEF HandoverInv, Order, Down, units
  <2> QED
    BY <2>3, <2>4 DEF HandoverInv
<1> QED
  BY <1>1, <1>2, <1>3, <1>4

LEMMA StepKeeps == HandoverInv /\ [TransferNext]_transferVars => HandoverInv'
<1> SUFFICES ASSUME HandoverInv, [TransferNext]_transferVars PROVE HandoverInv'
  OBVIOUS
<1>1. CASE TransferNext
  BY <1>1, CommandStarts, CommandHandsOver, AroundIt DEF TransferNext, Transfer
<1>2. CASE UNCHANGED transferVars
  BY <1>2 DEF transferVars, units, HandoverInv, HandoverTypeOK, Order, Down, Ready
<1> QED
  BY <1>1, <1>2

LEMMA InvHolds == TransferSpec => []HandoverInv
<1> QED
  BY InitHolds, StepKeeps, PTL DEF TransferSpec

\* Every variable keeps its type; nothing runs whose unit was stopped, and no
\* anchor without its CA.
THEOREM HandoverTypeCorrect == TransferSpec => []HandoverTypeOK
<1>1. HandoverInv => HandoverTypeOK
  BY DEF HandoverInv
<1> QED
  BY <1>1, InvHolds, PTL

\* No step of any transfer, failed, repeated or killed, and no boot stops the
\* anchor here unless a daemon started on the target would be the anchor: the CA
\* and the whole config are there, for which systemd's word is not asked
\* (_do_handoff, cli/anchorcmds.py).
THEOREM AnchorStopsLast == TransferSpec => StopsLast
<1>1. ASSUME HandoverInv, [TransferNext]_transferVars, wanted["here"], ~wanted'["here"]
      PROVE  Loads("there") = "anchor"
  <2>0. /\ DOMAIN wanted = Hosts /\ Down
        /\ "here" \in Hosts /\ "there" \in Hosts
    BY <1>1 DEF HandoverInv, HandoverTypeOK, Hosts
  <2>1. CASE StopHere
    BY <2>1, <1>1, LoadsFits DEF StopHere, HandoverInv, Order, Ready, Hosts
  <2>2. CASE Begin \/ Backup \/ Restore \/ CopyConfig \/ Verify \/ Disable \/ Killed
    BY <1>1, <2>2 DEF Begin, Backup, Restore, CopyConfig, Verify, Disable, Killed, units
  <2>3. CASE StartThere \/ Rollback
    <3>1. wanted'["here"] = wanted["here"] \/ wanted'["here"] = TRUE
      BY <2>0, <2>3 DEF StartThere, Enabled, Rollback
    <3> QED
      BY <1>1, <3>1
  <2>4. ASSUME NEW h \in Hosts, Crash(h) \/ Restart(h) PROVE FALSE
    BY <1>1, <2>4 DEF Crash, Restart
  <2>5. ASSUME NEW h \in Hosts, Reboot(h) PROVE Loads("there") = "anchor"
    <3>1. ~enabled["here"]
      BY <1>1, <2>0, <2>5 DEF Reboot
    <3>2. Ready
      BY <1>1, <2>0, <3>1 DEF Down, HandoverInv, Order
    <3> QED
      BY <1>1, <3>2, LoadsFits DEF HandoverInv, Ready, Hosts
  <2>6. CASE (\E d \in Decisions : MakeDecision(d)) \/ \E m \in Members : Rejoin(m)
    BY <1>1, <2>6 DEF MakeDecision, Rejoin, units
  <2>7. CASE UNCHANGED transferVars
    BY <1>1, <2>7 DEF transferVars, units
  <2> QED
    BY <1>1, <2>1, <2>2, <2>3, <2>4, <2>5, <2>6, <2>7 DEF TransferNext, Transfer
<1>2. HandoverInv /\ [TransferNext]_transferVars =>
        [wanted["here"] /\ ~wanted'["here"] => Loads("there") = "anchor"]_transferVars
  BY <1>1
<1> QED
  BY <1>2, InvHolds, PTL DEF TransferSpec, StopsLast

\* After a transfer the anchor here never runs again: neither systemd, which
\* restarts what dies, nor a boot brings a second one up (cmd_anchor_transfer,
\* cli/anchorcmds.py, systemctl disable).
THEOREM OldAnchorStaysDown == TransferSpec => []StaysDown
<1>1. HandoverInv => StaysDown
  BY DEF HandoverInv, HandoverTypeOK, Down, StaysDown, Hosts
<1> QED
  BY <1>1, InvHolds, PTL
=============================================================================
