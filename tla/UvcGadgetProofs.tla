--------------------------- MODULE UvcGadgetProofs ---------------------------
(***************************************************************************)
(* The life of endpoints and requests for any set of addresses, any        *)
(* alternate settings and any failures of set_interface.                   *)
(***************************************************************************)
EXTENDS UvcGadget, FiniteSetTheorems, WellFoundedInduction, TLAPS

(* The allocator has an address left as long as an endpoint has no request. *)
LEMMA AddressLeft ==
  ASSUME NEW a, NEW b, NEW T, T = Reqs \ {a, b}
  PROVE  \E r \in T : \A q \in T : r <= q
<1>1. T # {}
  <2>1. IsFiniteSet(Reqs) /\ Cardinality(Reqs) > 3
    BY GadgetAssumption
  <2>2. /\ IsFiniteSet(Reqs \ {a})
        /\ \/ Cardinality(Reqs \ {a}) = Cardinality(Reqs) - 1
           \/ Cardinality(Reqs \ {a}) = Cardinality(Reqs)
    BY <2>1, FS_RemoveElement
  <2>3. \/ Cardinality((Reqs \ {a}) \ {b}) = Cardinality(Reqs \ {a}) - 1
        \/ Cardinality((Reqs \ {a}) \ {b}) = Cardinality(Reqs \ {a})
    BY <2>2, FS_RemoveElement
  <2>4. Cardinality(Reqs) \in Nat
    BY <2>1, FS_CardinalityType
  <2>5. Cardinality((Reqs \ {a}) \ {b}) # 0
    BY <2>1, <2>2, <2>3, <2>4, SMT
  <2>6. (Reqs \ {a}) \ {b} # {}
    BY <2>5, FS_EmptySet
  <2> QED BY <2>6
<1>2. T \subseteq Nat
  BY GadgetAssumption
<1>3. PICK r \in T : \A q \in T : ~(<<q, r>> \in OpToRel(<, Nat))
  BY <1>1, <1>2, NatLessThanWellFounded, WFMin
<1>4. ASSUME NEW q \in T PROVE ~(q < r)
  <2>1. q \in Nat /\ r \in Nat
    BY <1>2
  <2>2. q < r => <<q, r>> \in OpToRel(<, Nat)
    BY <2>1 DEF OpToRel
  <2> QED BY <1>3, <2>2
<1>5. \A q \in T : r <= q
  BY <1>2, <1>4, SMT
<1> QED BY <1>5

-----------------------------------------------------------------------------
(* What the helpers make of a device, field by field. *)
NoReqs == [e \in Endpoints |-> NoReq]
Blank(d) == d.req = NoReqs /\ d.allocated = {} /\ \A e \in Endpoints : d.queue[e] = {}
Tidy(d) ==
  /\ d.allocated = {d.req[e] : e \in Endpoints} \ {NoReq}
  /\ \A e, f \in Endpoints : d.req[e] = d.req[f] /\ d.req[e] # NoReq => e = f
Fresh(d) == \A e \in Endpoints : d.queue[e] \subseteq {d.req[e]} \ {NoReq}
Good(d) == d \in Devices /\ Tidy(d) /\ Fresh(d)

LEMMA FreeFacts ==
  ASSUME NEW d \in Devices, Tidy(d), NEW es \in SUBSET Endpoints
  PROVE  LET c == FreeRequests(d, es) IN
         /\ c \in Devices /\ Tidy(c)
         /\ c.enabled = d.enabled /\ c.queue = d.queue /\ c.twice = d.twice
         /\ c.req = [e \in Endpoints |-> IF e \in es THEN NoReq ELSE d.req[e]]
<1> DEFINE gone == {d.req[e] : e \in es} \ {NoReq}
           c == FreeRequests(d, es)
<1>1. gone \subseteq d.allocated
  BY DEF Tidy
<1>2. /\ c.enabled = d.enabled /\ c.queue = d.queue
      /\ c.req = [e \in Endpoints |-> IF e \in es THEN NoReq ELSE d.req[e]]
      /\ c.allocated = d.allocated \ gone
      /\ c.twice = (d.twice \/ ~(gone \subseteq d.allocated))
  BY DEF FreeRequests, Devices
<1>3. c.twice = d.twice
  <2>1. d.twice \in BOOLEAN
    BY DEF Devices
  <2> QED BY <1>1, <1>2, <2>1
<1>4. c \in Devices
  <2>1. c.req \in [Endpoints -> Reqs \cup {NoReq}] /\ c.allocated \in SUBSET Reqs
    BY <1>2 DEF Devices
  <2>2. c.twice \in BOOLEAN
    BY <1>3 DEF Devices
  <2>3. c = [d EXCEPT !.allocated = c.allocated, !.req = c.req, !.twice = c.twice]
    BY <1>2 DEF FreeRequests
  <2> HIDE DEF c
  <2> QED BY <2>1, <2>2, <2>3 DEF Devices
<1>5. Tidy(c)
  BY <1>2 DEF Tidy
<1> QED BY <1>2, <1>3, <1>4, <1>5

LEMMA CleanupFacts ==
  ASSUME NEW d \in Devices, Tidy(d)
  PROVE  LET c == Cleanup(d) IN
         c \in Devices /\ ~c.enabled /\ Blank(c) /\ c.twice = d.twice
<1> DEFINE g == FreeRequests(d, Endpoints)
           c == Cleanup(d)
<1>1. /\ g \in Devices /\ Tidy(g) /\ g.twice = d.twice /\ g.req = NoReqs
  BY FreeFacts DEF NoReqs
<1>2. g.allocated = {}
  BY <1>1 DEF Tidy, NoReqs
<1> HIDE DEF g
<1>3. c = [g EXCEPT !.enabled = FALSE, !.queue = [e \in Endpoints |-> {}]]
  BY DEF Cleanup, DisableEndpoints, g
<1> HIDE DEF c
<1>4. /\ c.enabled = FALSE /\ c.queue = [e \in Endpoints |-> {}] /\ c.req = g.req
      /\ c.allocated = g.allocated /\ c.twice = g.twice
  BY <1>1, <1>3 DEF Devices
<1>5. c \in Devices
  <2>1. [e \in Endpoints |-> {}] \in [Endpoints -> SUBSET Reqs]
    OBVIOUS
  <2> QED BY <1>1, <1>3, <2>1 DEF Devices
<1> QED BY <1>1, <1>2, <1>4, <1>5 DEF Blank, c

\* c is d after a request was allocated for endpoint e, or the endpoint's was queued.
Spare(d) == \E a, b \in Reqs \cup {NoReq} : Reqs \ d.allocated = Reqs \ {a, b}
Allocated(d, c, e) ==
  /\ c.enabled = d.enabled /\ c.queue = d.queue /\ c.twice = d.twice
  /\ \E r \in Reqs \ d.allocated : /\ c.req = [d.req EXCEPT ![e] = r]
                                  /\ c.allocated = d.allocated \cup {r}
Submitted(d, c, e) ==
  /\ c.enabled = d.enabled /\ c.req = d.req /\ c.allocated = d.allocated /\ c.twice = d.twice
  /\ c.queue = [d.queue EXCEPT ![e] = {d.req[e]}]

LEMMA AllocateFacts ==
  ASSUME NEW d, Good(d), Spare(d), NEW e \in Endpoints, d.req[e] = NoReq
  PROVE  Good(Allocate(d, e)) /\ Allocated(d, Allocate(d, e), e)
<1> DEFINE r == CHOOSE r \in Reqs \ d.allocated : \A q \in Reqs \ d.allocated : r <= q
           c == Allocate(d, e)
<1>0. d \in Devices /\ Tidy(d) /\ Fresh(d)
  BY DEF Good
<1>1. r \in Reqs \ d.allocated
  <2> DEFINE T == Reqs \ d.allocated
  <2>1. PICK a, b \in Reqs \cup {NoReq} : T = Reqs \ {a, b}
    BY DEF Spare
  <2> HIDE DEF T
  <2>2. \E x \in T : \A q \in T : x <= q
    BY <2>1, AddressLeft
  <2> QED BY <2>2 DEF T
<1>2. c = [d EXCEPT !.allocated = d.allocated \cup {r}, !.req = [d.req EXCEPT ![e] = r]]
  BY <1>0 DEF Allocate, Devices
<1> HIDE DEF r, c
<1>3. /\ c.enabled = d.enabled /\ c.queue = d.queue /\ c.twice = d.twice
      /\ c.req = [d.req EXCEPT ![e] = r] /\ c.allocated = d.allocated \cup {r}
  BY <1>0, <1>2 DEF Devices
<1>4. c \in Devices
  <2>1. [d.req EXCEPT ![e] = r] \in [Endpoints -> Reqs \cup {NoReq}]
        /\ d.allocated \cup {r} \in SUBSET Reqs
    BY <1>0, <1>1 DEF Devices
  <2> QED BY <1>0, <1>2, <2>1 DEF Devices
<1>5. r # NoReq /\ c.req[e] = r /\ \A f \in Endpoints : f # e => c.req[f] = d.req[f]
  BY <1>0, <1>1, <1>3, GadgetAssumption DEF Devices
<1>6. \A f \in Endpoints : d.req[f] # r
  BY <1>0, <1>1, <1>5 DEF Tidy
<1>7. Tidy(c)
  <2>1. c.allocated = {c.req[f] : f \in Endpoints} \ {NoReq}
    <3>1. ASSUME NEW x PROVE x \in c.allocated <=> x \in {c.req[f] : f \in Endpoints} \ {NoReq}
      <4>1. x \in c.allocated <=> x \in d.allocated \/ x = r
        BY <1>3
      <4>2. x \in d.allocated <=> x # NoReq /\ \E f \in Endpoints : x = d.req[f]
        BY <1>0 DEF Tidy
      <4>3. x \in {c.req[f] : f \in Endpoints} \ {NoReq} <=>
              x # NoReq /\ \E f \in Endpoints : x = c.req[f]
        OBVIOUS
      <4> QED BY <1>5, <4>1, <4>2, <4>3
    <3> QED BY <3>1
  <2>2. \A f, g \in Endpoints : c.req[f] = c.req[g] /\ c.req[f] # NoReq => f = g
    BY <1>0, <1>5, <1>6 DEF Tidy
  <2> QED BY <2>1, <2>2 DEF Tidy
<1>8. Fresh(c)
  BY <1>0, <1>3, <1>5 DEF Fresh
<1> QED BY <1>1, <1>3, <1>4, <1>7, <1>8 DEF Good, Allocated, c

LEMMA SubmitFacts ==
  ASSUME NEW d, Good(d), NEW e \in Endpoints, d.req[e] # NoReq
  PROVE  Good(Submit(d, e)) /\ Submitted(d, Submit(d, e), e)
<1> DEFINE q == [d.queue EXCEPT ![e] = d.queue[e] \cup {d.req[e]}]
           c == Submit(d, e)
<1>0. d \in Devices /\ Tidy(d) /\ Fresh(d)
  BY DEF Good
<1>1. c = [d EXCEPT !.queue = q]
  BY <1>0 DEF Submit, Devices
<1>2. q \in [Endpoints -> SUBSET Reqs]
  BY <1>0 DEF Devices
<1>3. d.queue[e] \cup {d.req[e]} = {d.req[e]}
  BY <1>0 DEF Fresh
<1>4. q = [d.queue EXCEPT ![e] = {d.req[e]}]
  BY <1>3
<1> HIDE DEF q, c
<1>5. /\ c.enabled = d.enabled /\ c.req = d.req /\ c.allocated = d.allocated
      /\ c.twice = d.twice /\ c.queue = q
  BY <1>0, <1>1 DEF Devices
<1>6. c \in Devices
  BY <1>0, <1>1, <1>2 DEF Devices
<1>7. Tidy(c)
  BY <1>0, <1>5 DEF Tidy
<1>8. Fresh(c)
  <2>1. d.queue \in [Endpoints -> SUBSET Reqs]
    BY <1>0 DEF Devices
  <2> QED BY <1>0, <1>4, <1>5, <2>1 DEF Fresh
<1> QED BY <1>4, <1>5, <1>6, <1>7, <1>8 DEF Good, Submitted, c

LEMMA BlankGood ==
  ASSUME NEW d \in Devices, Blank(d)
  PROVE  Good(d)
<1>1. d.allocated = {} /\ \A e \in Endpoints : d.req[e] = NoReq /\ d.queue[e] = {}
  BY DEF Blank, NoReqs
<1>2. {d.req[e] : e \in Endpoints} \ {NoReq} = {}
  BY <1>1
<1> QED BY <1>1, <1>2 DEF Good, Tidy, Fresh

(* Wherever set_interface stops, what it has made is in order: every request it
   allocated is that of one endpoint, what it queued is the endpoint's request. *)
LEMMA SetUpFacts ==
  ASSUME NEW d \in Devices, Blank(d), NEW f \in FailPoints
  PROVE  LET s == SetUp(d, f) IN
         Good(s) /\ s.twice = d.twice /\ (f = "none" => Usable(s))
<1> DEFINE E == [d EXCEPT !.enabled = TRUE]
           V == Allocate(E, Video)
           C == Allocate(V, Cmd)
           Q == Submit(C, Cmd)
           R == Allocate(Q, Resp)
           S == Submit(R, Resp)
<1>0. Good(d)
  BY BlankGood
<1>1. /\ Good(E) /\ E.enabled = TRUE /\ E.twice = d.twice
      /\ E.req = NoReqs /\ E.allocated = {} /\ E.queue = d.queue
  <2>1. /\ E.enabled = TRUE /\ E.twice = d.twice
        /\ E.req = d.req /\ E.allocated = d.allocated /\ E.queue = d.queue
    BY DEF Devices
  <2>2. E \in Devices
    BY DEF Devices
  <2> HIDE DEF E
  <2>3. Tidy(E) /\ Fresh(E)
    BY <1>0, <2>1 DEF Good, Tidy, Fresh
  <2> QED BY <2>1, <2>2, <2>3 DEF Good, Blank
<1> HIDE DEF E
<1>2. PICK r1 \in Reqs :
        /\ Good(V) /\ V.enabled = TRUE /\ V.twice = d.twice /\ V.queue = d.queue
        /\ V.req = [NoReqs EXCEPT ![Video] = r1] /\ V.allocated = {r1}
  <2>1. Spare(E) /\ Video \in Endpoints
    <3>1. Reqs \ E.allocated = Reqs \ {NoReq, NoReq}
      BY <1>1, GadgetAssumption
    <3> QED BY <3>1 DEF Spare, Endpoints
  <2>2. E.req[Video] = NoReq
    BY <1>1 DEF Endpoints, NoReqs
  <2>3. Good(V) /\ Allocated(E, V, Video)
    BY <1>1, <2>1, <2>2, AllocateFacts
  <2> QED BY <1>1, <2>3 DEF Allocated
<1> HIDE DEF V
<1>3. PICK r2 \in Reqs :
        /\ Good(C) /\ C.enabled = TRUE /\ C.twice = d.twice /\ C.queue = d.queue
        /\ C.req = [V.req EXCEPT ![Cmd] = r2] /\ C.allocated = {r1, r2}
  <2>1. Spare(V) /\ Cmd \in Endpoints
    BY <1>2 DEF Spare, Endpoints
  <2>2. V.req[Cmd] = NoReq
    BY <1>2 DEF Endpoints, NoReqs, Video, Cmd
  <2>3. Good(C) /\ Allocated(V, C, Cmd)
    BY <1>2, <2>1, <2>2, AllocateFacts
  <2> QED BY <1>2, <2>3 DEF Allocated
<1> HIDE DEF C
<1>4. C.req[Cmd] = r2 /\ C.req[Resp] = NoReq /\ C.req[Video] = r1 /\ r1 # NoReq /\ r2 # NoReq
  <2>1. V.req[Resp] = NoReq /\ V.req[Video] = r1
    BY <1>2 DEF Endpoints, NoReqs, Video, Resp
  <2>2. V.req \in [Endpoints -> Reqs \cup {NoReq}]
    BY <1>2 DEF Good, Devices
  <2> QED BY <1>3, <2>1, <2>2, GadgetAssumption DEF Endpoints, Video, Cmd, Resp
<1>5. /\ Good(Q) /\ Q.enabled = TRUE /\ Q.twice = d.twice /\ Q.req = C.req
      /\ Q.allocated = {r1, r2} /\ Q.queue = [d.queue EXCEPT ![Cmd] = {r2}]
  <2>1. Cmd \in Endpoints
    BY DEF Endpoints
  <2>2. Good(Q) /\ Submitted(C, Q, Cmd)
    BY <1>3, <1>4, <2>1, SubmitFacts
  <2> QED BY <1>3, <1>4, <2>2 DEF Submitted
<1> HIDE DEF Q
<1>6. PICK r3 \in Reqs :
        /\ Good(R) /\ R.enabled = TRUE /\ R.twice = d.twice /\ R.queue = Q.queue
        /\ R.req = [C.req EXCEPT ![Resp] = r3]
  <2>1. Spare(Q) /\ Resp \in Endpoints
    BY <1>5 DEF Spare, Endpoints
  <2>2. Q.req[Resp] = NoReq
    BY <1>4, <1>5
  <2>3. Good(R) /\ Allocated(Q, R, Resp)
    BY <1>5, <2>1, <2>2, AllocateFacts
  <2> QED BY <1>5, <2>3 DEF Allocated
<1> HIDE DEF R
<1>7. R.req[Resp] = r3 /\ r3 # NoReq /\ R.req[Cmd] = r2 /\ R.req[Video] = r1
  <2>1. C.req \in [Endpoints -> Reqs \cup {NoReq}]
    BY <1>3 DEF Good, Devices
  <2> QED BY <1>4, <1>6, <2>1, GadgetAssumption DEF Endpoints, Video, Cmd, Resp
<1>8. /\ Good(S) /\ S.enabled = TRUE /\ S.twice = d.twice /\ S.req = R.req
      /\ S.queue = [Q.queue EXCEPT ![Resp] = {r3}]
  <2>1. Resp \in Endpoints
    BY DEF Endpoints
  <2>2. Good(S) /\ Submitted(R, S, Resp)
    BY <1>6, <1>7, <2>1, SubmitFacts
  <2> QED BY <1>6, <1>7, <2>2 DEF Submitted
<1> HIDE DEF S
<1>9. Usable(S)
  <2>1. d.queue \in [Endpoints -> SUBSET Reqs]
    BY DEF Devices
  <2>2. S.queue[Cmd] = {r2} /\ S.queue[Resp] = {r3}
    BY <1>5, <1>8, <2>1 DEF Endpoints, Cmd, Resp
  <2>3. \A e \in Endpoints : S.req[e] # NoReq
    BY <1>4, <1>7, <1>8 DEF Endpoints
  <2> QED BY <1>7, <1>8, <2>2, <2>3 DEF Usable
<1>10. SetUp(d, f) \in {d, E, V, C, Q, R, S} /\ (f = "none" => SetUp(d, f) = S)
  BY DEF SetUp, FailPoints, E, V, C, Q, R, S
<1> QED BY <1>0, <1>1, <1>2, <1>3, <1>5, <1>6, <1>8, <1>9, <1>10

LEMMA SetInterfaceFacts ==
  ASSUME NEW d \in Devices, Blank(d), ~d.enabled, ~d.twice, NEW f \in FailPoints
  PROVE  LET new == SetInterface(d, f) IN
         /\ Good(new.dev) /\ ~new.dev.twice
         /\ ~new.dev.enabled => Blank(new.dev)
         /\ new.ret # 0 => ~new.dev.enabled
         /\ f = "none" => new.ret = 0 /\ Usable(new.dev)
         /\ f # "none" => ~new.dev.enabled /\ (new.ret = 0 => f = "alloc resp")
<1> DEFINE s == SetUp(d, f)
           new == SetInterface(d, f)
<1>1. Good(s) /\ s.twice = d.twice /\ (f = "none" => Usable(s))
  BY SetUpFacts
<1>2. /\ new.dev = IF f = "none" THEN s ELSE Cleanup(s)
      /\ new.ret = IF f \in {"none", "alloc resp"} THEN 0 ELSE -1
  BY DEF SetInterface
<1> HIDE DEF s, new
<1>3. CASE f = "none"
  <2>1. new.dev = s /\ new.ret = 0
    BY <1>2, <1>3
  <2>2. s.enabled
    BY <1>1, <1>3 DEF Usable
  <2> QED BY <1>1, <1>3, <2>1, <2>2 DEF new
<1>4. CASE f # "none"
  <2>1. new.dev = Cleanup(s)
    BY <1>2, <1>4
  <2>2. Cleanup(s) \in Devices /\ ~Cleanup(s).enabled /\ Blank(Cleanup(s))
        /\ Cleanup(s).twice = s.twice
    BY <1>1, CleanupFacts DEF Good
  <2>3. Good(Cleanup(s))
    BY <2>2, BlankGood
  <2>4. new.ret = 0 => f = "alloc resp"
    <3>1. -1 # 0
      OBVIOUS
    <3> QED BY <1>2, <1>4, <3>1
  <2> QED BY <1>1, <1>4, <2>1, <2>2, <2>3, <2>4 DEF new
<1> QED BY <1>3, <1>4

-----------------------------------------------------------------------------
(* Without its endpoints the device has no request; and what the controller holds is
   the endpoint's request, unless a task has queued one that had been freed.  A
   disconnect leaves requests in the queues while their pointers are NULL, until the
   device is configured again. *)
Order ==
  /\ ~dev.twice /\ Tidy(dev)
  /\ ~dev.enabled => Blank(dev)
  /\ cfg = 0 => ~dev.enabled
  /\ ~stale => \A e \in Endpoints : dev.req[e] = NoReq \/ dev.queue[e] \subseteq {dev.req[e]}
  /\ ~stale /\ bus = "configured" => Fresh(dev)
  /\ halted => stale

Inv == TypeOK /\ Order

LEMMA InvInit == Init => Inv
<1> SUFFICES ASSUME Init PROVE Inv
  OBVIOUS
<1>1. dev = [enabled |-> FALSE, req |-> NoReqs, allocated |-> {},
             queue |-> [e \in Endpoints |-> {}], twice |-> FALSE]
  BY DEF Init, NoReqs
<1>2. dev \in Devices
  BY <1>1 DEF Devices, NoReqs
<1>3. Blank(dev) /\ dev.enabled = FALSE /\ dev.twice = FALSE
  BY <1>1 DEF Blank
<1>4. Good(dev)
  BY <1>2, <1>3, BlankGood
<1>5. TypeOK
  BY <1>2 DEF Init, TypeOK
<1>6. Order
  BY <1>3, <1>4 DEF Init, Order, Good, Fresh
<1> QED BY <1>5, <1>6 DEF Inv

(* What SET_CONFIG starts from: the endpoints are down, by Cleanup or because there was
   no configuration. *)
LEMMA Torn ==
  ASSUME Inv
  PROVE  LET old == IF cfg # 0 THEN Cleanup(dev) ELSE dev IN
         old \in Devices /\ Blank(old) /\ ~old.enabled /\ ~old.twice
<1>1. CASE cfg # 0
  <2>1. dev \in Devices /\ Tidy(dev) /\ ~dev.twice
    BY DEF Inv, TypeOK, Order
  <2> QED BY <1>1, <2>1, CleanupFacts
<1>2. CASE cfg = 0
  BY <1>2 DEF Inv, TypeOK, Order
<1> QED BY <1>1, <1>2

LEMMA SetConfigFacts ==
  ASSUME Inv, NEW v \in {0, 1}, NEW f \in FailPoints, SetConfig(v, f)
  PROVE  /\ Inv'
         /\ v = 1 /\ f = "none" => Usable(dev')
         /\ v = 1 /\ f # "none" => ~dev'.enabled /\ (served' => f = "alloc resp")
<1> DEFINE old == IF cfg # 0 THEN Cleanup(dev) ELSE dev
           new == IF v = 1 THEN SetInterface(old, f) ELSE [dev |-> old, ret |-> 0]
           ok == new.ret = 0
<1>1. /\ dev' = new.dev
      /\ ifc' = IF cfg # 0 THEN 0 ELSE ifc
      /\ cfg' = IF v = 1 /\ ok THEN 1 ELSE 0
      /\ bus' = IF v = 1 /\ ok THEN "configured" ELSE "default"
      /\ served' = (v = 1 /\ ok)
      /\ UNCHANGED <<taskVars, halted>>
  BY DEF SetConfig
<1>2. old \in Devices /\ Blank(old) /\ ~old.enabled /\ ~old.twice
  BY Torn
<1> HIDE DEF old
<1>3. /\ Good(new.dev) /\ ~new.dev.twice
      /\ ~new.dev.enabled => Blank(new.dev)
      /\ v = 0 \/ ~ok => ~new.dev.enabled
      /\ v = 1 /\ f = "none" => ok /\ Usable(new.dev)
      /\ v = 1 /\ f # "none" => ~new.dev.enabled /\ (ok => f = "alloc resp")
  <2>1. CASE v = 1
    <3>1. new = SetInterface(old, f)
      BY <2>1
    <3>2. LET n == SetInterface(old, f) IN
          /\ Good(n.dev) /\ ~n.dev.twice
          /\ ~n.dev.enabled => Blank(n.dev)
          /\ n.ret # 0 => ~n.dev.enabled
          /\ f = "none" => n.ret = 0 /\ Usable(n.dev)
          /\ f # "none" => ~n.dev.enabled /\ (n.ret = 0 => f = "alloc resp")
      BY <1>2, SetInterfaceFacts
    <3>3. v # 0
      BY <2>1, SMT
    <3> HIDE DEF new
    <3> QED BY <3>1, <3>2, <3>3, Zenon
  <2>2. CASE v = 0
    BY <1>2, <2>2, BlankGood
  <2> QED BY <2>1, <2>2
<1> HIDE DEF new
<1>4. TypeOK'
  BY <1>1, <1>3 DEF Inv, TypeOK, Good, taskVars
<1>5. Order'
  <2>1. Good(dev') /\ ~dev'.twice /\ (~dev'.enabled => Blank(dev'))
    BY <1>1, <1>3
  <2>2. cfg' = 0 => ~dev'.enabled
    BY <1>1, <1>3
  <2>3. halted' => stale'
    BY <1>1 DEF Inv, Order, taskVars
  <2> QED BY <2>1, <2>2, <2>3 DEF Order, Good, Tidy, Fresh, Blank
<1> QED BY <1>1, <1>3, <1>4, <1>5 DEF Inv

LEMMA SelectAltInv ==
  ASSUME Inv, NEW alt \in Alts, NEW f \in FailPoints, SelectAlt(alt, f)
  PROVE  Inv'
<1>1. cfg # 0 /\ UNCHANGED <<bus, cfg, taskVars, halted>>
  BY DEF SelectAlt
<1>2. CASE ifc = alt
  BY <1>1, <1>2 DEF SelectAlt, Inv, TypeOK, Order, taskVars, Tidy, Fresh, Blank
<1>3. CASE ifc # alt
  <2> DEFINE new == SetInterface(Cleanup(dev), f)
  <2>1. /\ dev' = new.dev /\ ifc' = (IF new.ret = 0 THEN alt ELSE ifc)
        /\ served' = (new.ret = 0)
    BY <1>3 DEF SelectAlt
  <2>2. Cleanup(dev) \in Devices /\ Blank(Cleanup(dev)) /\ ~Cleanup(dev).enabled
        /\ ~Cleanup(dev).twice
    BY CleanupFacts DEF Inv, TypeOK, Order
  <2>3. Good(new.dev) /\ ~new.dev.twice /\ (~new.dev.enabled => Blank(new.dev))
    BY <2>2, SetInterfaceFacts
  <2> HIDE DEF new
  <2>4. TypeOK'
    BY <1>1, <2>1, <2>3 DEF Inv, TypeOK, Good, taskVars
  <2>5. Good(dev') /\ ~dev'.twice /\ (~dev'.enabled => Blank(dev'))
    BY <2>1, <2>3
  <2>6. Order'
    BY <1>1, <2>5 DEF Inv, Order, Good, Tidy, Fresh, Blank, taskVars
  <2> QED BY <2>4, <2>6 DEF Inv
<1> QED BY <1>2, <1>3

LEMMA DisconnectInv ==
  ASSUME Inv, Disconnect
  PROVE  Inv'
<1> DEFINE d == FreeRequests(dev, Endpoints)
<1>1. dev \in Devices /\ Tidy(dev) /\ ~dev.twice
  BY DEF Inv, TypeOK, Order
<1>2. dev.enabled \/ \A e \in Endpoints : dev.req[e] = NoReq
  BY DEF Inv, Order, Blank, NoReqs
<1>3. /\ dev' = d /\ bus' = "off" /\ served' = FALSE
      /\ UNCHANGED <<cfg, ifc, taskVars, halted>>
  BY <1>2 DEF Disconnect
<1>4. /\ d \in Devices /\ Tidy(d) /\ d.req = NoReqs
      /\ d.enabled = dev.enabled /\ d.queue = dev.queue /\ d.twice = dev.twice
  BY <1>1, FreeFacts DEF NoReqs
<1> HIDE DEF d
<1>5. d.allocated = {}
  BY <1>4 DEF Tidy, NoReqs
<1>6. TypeOK'
  BY <1>3, <1>4 DEF Inv, TypeOK, taskVars
<1>7. Order'
  BY <1>3, <1>4, <1>5 DEF Inv, Order, Tidy, Blank, NoReqs, taskVars
<1> QED BY <1>6, <1>7 DEF Inv

LEMMA TaskInv ==
  ASSUME Inv, NEW e \in Endpoints, TaskEnter(e) \/ TaskSubmit(e) \/ TaskReturn(e)
  PROVE  Inv'
<1>1. CASE TaskEnter(e)
  <2>1. dev.req[e] \in Reqs \cup {NoReq}
    BY DEF Inv, TypeOK, Devices
  <2>2. TypeOK'
    BY <1>1, <2>1 DEF TaskEnter, Inv, TypeOK
  <2>3. Order'
    BY <1>1 DEF TaskEnter, Inv, Order, Tidy, Blank, Fresh
  <2> QED BY <2>2, <2>3 DEF Inv
<1>2. CASE TaskReturn(e)
  <2>1. TypeOK'
    BY <1>2 DEF TaskReturn, Inv, TypeOK
  <2>2. Order'
    BY <1>2 DEF TaskReturn, Inv, Order, Tidy, Blank, Fresh
  <2> QED BY <2>1, <2>2 DEF Inv
<1>3. CASE TaskSubmit(e)
  <2> DEFINE q == [dev.queue EXCEPT ![e] = {held[e]}]
  <2>1. held[e] \in Reqs /\ dev \in Devices
    BY <1>3 DEF TaskSubmit, Inv, TypeOK
  <2>2. dev' = [dev EXCEPT !.queue = q]
    BY <1>3, <2>1 DEF TaskSubmit, Devices
  <2>3. q \in [Endpoints -> SUBSET Reqs] /\ q[e] = {held[e]}
        /\ \A f \in Endpoints : f # e => q[f] = dev.queue[f]
    BY <2>1 DEF Devices
  <2>4. /\ dev.enabled /\ stale' = (stale \/ held[e] # dev.req[e])
        /\ UNCHANGED <<bus, cfg, ifc, held, served, halted>>
    BY <1>3 DEF TaskSubmit
  <2> HIDE DEF q
  <2>5. /\ dev'.enabled = dev.enabled /\ dev'.req = dev.req /\ dev'.allocated = dev.allocated
        /\ dev'.twice = dev.twice /\ dev'.queue = q
    BY <2>1, <2>2 DEF Devices
  <2>6. dev' \in Devices
    BY <2>1, <2>2, <2>3 DEF Devices
  <2>7. stale \in BOOLEAN
    BY DEF Inv, TypeOK
  <2>8. TypeOK'
    BY <2>4, <2>6, <2>7 DEF Inv, TypeOK
  <2>9. Tidy(dev')
    BY <2>5 DEF Inv, Order, Tidy
  <2>10. ASSUME ~stale'
         PROVE  /\ \A f \in Endpoints : dev'.req[f] = NoReq \/ dev'.queue[f] \subseteq {dev'.req[f]}
                /\ bus' = "configured" => Fresh(dev')
    <3>1. ~stale /\ dev.req[e] = held[e] /\ dev.req[e] # NoReq
      BY <2>1, <2>4, <2>7, <2>10, GadgetAssumption
    <3>2. dev'.queue[e] = {dev'.req[e]} /\ dev'.req[e] # NoReq
      BY <2>3, <2>5, <3>1
    <3>3. \A f \in Endpoints : f # e => dev'.queue[f] = dev.queue[f] /\ dev'.req[f] = dev.req[f]
      BY <2>3, <2>5
    <3>4. \A f \in Endpoints : dev'.req[f] = NoReq \/ dev'.queue[f] \subseteq {dev'.req[f]}
      BY <3>1, <3>2, <3>3 DEF Inv, Order
    <3>5. bus' = "configured" => Fresh(dev')
      BY <2>4, <3>1, <3>2, <3>3 DEF Inv, Order, Fresh
    <3> QED BY <3>4, <3>5
  <2>11. Order'
    BY <2>4, <2>5, <2>7, <2>9, <2>10 DEF Inv, Order, Tidy, Fresh
  <2> QED BY <2>8, <2>11 DEF Inv
<1> QED BY <1>1, <1>2, <1>3

\* A transfer has left the queue of its endpoint.
LEMMA TakenFacts ==
  ASSUME Inv, NEW e \in Endpoints, NEW r \in dev.queue[e]
  PROVE  LET d == [dev EXCEPT !.queue[e] = @ \ {r}] IN
         /\ d \in Devices /\ Tidy(d)
         /\ d.enabled = dev.enabled /\ d.req = dev.req /\ d.allocated = dev.allocated
         /\ d.twice = dev.twice
         /\ d.queue = [dev.queue EXCEPT ![e] = dev.queue[e] \ {r}]
<1> DEFINE q == [dev.queue EXCEPT ![e] = dev.queue[e] \ {r}]
           d == [dev EXCEPT !.queue[e] = @ \ {r}]
<1>1. dev \in Devices /\ Tidy(dev)
  BY DEF Inv, TypeOK, Order
<1>2. d = [dev EXCEPT !.queue = q]
  BY <1>1 DEF Devices
<1>3. q \in [Endpoints -> SUBSET Reqs]
  BY <1>1 DEF Devices
<1> HIDE DEF q, d
<1>4. /\ d.enabled = dev.enabled /\ d.req = dev.req /\ d.allocated = dev.allocated
      /\ d.twice = dev.twice /\ d.queue = q
  BY <1>1, <1>2 DEF Devices
<1>5. d \in Devices
  BY <1>1, <1>2, <1>3 DEF Devices
<1>6. Tidy(d)
  BY <1>1, <1>4 DEF Tidy
<1> QED BY <1>4, <1>5, <1>6 DEF q, d

LEMMA CompleteInv ==
  ASSUME Inv, NEW e \in Endpoints, NEW r \in Reqs, Complete(e, r)
  PROVE  Inv'
<1> DEFINE d == [dev EXCEPT !.queue[e] = @ \ {r}]
<1>1. /\ r \in dev.queue[e] /\ bus = "configured"
      /\ UNCHANGED <<bus, cfg, ifc, taskVars, served>>
  BY DEF Complete
<1>2. CASE r = dev.req[e]
  <2>1. dev' = d /\ UNCHANGED halted
    BY <1>2 DEF Complete
  <2>2. /\ d \in Devices /\ Tidy(d)
        /\ d.enabled = dev.enabled /\ d.req = dev.req /\ d.allocated = dev.allocated
        /\ d.twice = dev.twice /\ d.queue = [dev.queue EXCEPT ![e] = dev.queue[e] \ {r}]
    BY <1>1, TakenFacts
  <2> HIDE DEF d
  <2>3. dev.queue \in [Endpoints -> SUBSET Reqs]
    BY DEF Inv, TypeOK, Devices
  <2>4. dev.enabled
    BY <1>1 DEF Inv, Order, Blank
  <2>5. \A f \in Endpoints : dev'.queue[f] \subseteq dev.queue[f]
    BY <2>1, <2>2, <2>3
  <2>6. TypeOK'
    BY <1>1, <2>1, <2>2 DEF Inv, TypeOK, taskVars
  <2>7. Order'
    BY <1>1, <2>1, <2>2, <2>4, <2>5 DEF Inv, Order, Fresh, Tidy, taskVars
  <2> QED BY <2>6, <2>7 DEF Inv
<1>3. CASE r # dev.req[e]
  <2>1. halted' = TRUE /\ UNCHANGED dev
    BY <1>3 DEF Complete
  <2>2. stale
    BY <1>1, <1>3 DEF Inv, Order, Fresh
  <2>3. TypeOK'
    BY <1>1, <2>1 DEF Inv, TypeOK, taskVars
  <2>4. Order'
    BY <1>1, <2>1, <2>2 DEF Inv, Order, Fresh, Tidy, Blank, taskVars
  <2> QED BY <2>3, <2>4 DEF Inv
<1> QED BY <1>2, <1>3

LEMMA ShutdownInv ==
  ASSUME Inv, NEW e \in Endpoints, NEW r \in Reqs, Shutdown(e, r)
  PROVE  Inv'
<1> DEFINE d == [dev EXCEPT !.queue[e] = @ \ {r}]
           g == FreeRequests(d, {e})
<1>1. r \in dev.queue[e] /\ UNCHANGED <<bus, cfg, ifc, taskVars, served>>
  BY DEF Shutdown
<1>2. /\ d \in Devices /\ Tidy(d)
      /\ d.enabled = dev.enabled /\ d.req = dev.req /\ d.allocated = dev.allocated
      /\ d.twice = dev.twice /\ d.queue = [dev.queue EXCEPT ![e] = dev.queue[e] \ {r}]
  BY <1>1, TakenFacts
<1>3. dev \in Devices /\ dev.queue \in [Endpoints -> SUBSET Reqs]
  BY DEF Inv, TypeOK, Devices
<1>4. dev.enabled
  BY <1>1 DEF Inv, Order, Blank
<1>5. \A f \in Endpoints : d.queue[f] \subseteq dev.queue[f]
  BY <1>2, <1>3
<1>6. CASE dev.req[e] = NoReq
  <2>1. dev' = d /\ UNCHANGED halted
    BY <1>6 DEF Shutdown
  <2> HIDE DEF d
  <2>2. TypeOK'
    BY <1>1, <1>2, <2>1 DEF Inv, TypeOK, taskVars
  <2>3. /\ dev'.req = dev.req /\ dev'.enabled /\ ~dev'.twice /\ Tidy(dev')
        /\ \A f \in Endpoints : dev'.queue[f] \subseteq dev.queue[f]
    BY <1>2, <1>4, <1>5, <2>1 DEF Inv, Order
  <2>4. Order'
    BY <1>1, <1>4, <2>1, <2>3 DEF Inv, Order, Fresh, Tidy, taskVars
  <2> QED BY <2>2, <2>4 DEF Inv
<1>7. CASE dev.req[e] # NoReq /\ r = dev.req[e]
  <2>1. dev' = g /\ UNCHANGED halted
    BY <1>7 DEF Shutdown
  <2>2. /\ g \in Devices /\ Tidy(g)
        /\ g.enabled = d.enabled /\ g.queue = d.queue /\ g.twice = d.twice
        /\ g.req = [f \in Endpoints |-> IF f \in {e} THEN NoReq ELSE d.req[f]]
    <3> HIDE DEF d
    <3>1. {e} \in SUBSET Endpoints
      OBVIOUS
    <3> QED BY <1>2, <3>1, FreeFacts
  <2> HIDE DEF d, g
  <2>3. TypeOK'
    BY <1>1, <2>1, <2>2 DEF Inv, TypeOK, taskVars
  <2>4. g.req[e] = NoReq /\ \A f \in Endpoints : f # e => g.req[f] = dev.req[f]
    BY <1>2, <2>2
  <2>5. ASSUME ~stale PROVE Fresh(dev) => Fresh(g)
    <3>1. Fresh(dev) => dev.queue[e] \ {r} = {}
      BY <1>7 DEF Fresh
    <3>2. g.queue[e] = dev.queue[e] \ {r}
      BY <1>2, <1>3, <2>2
    <3> QED BY <1>5, <2>2, <2>4, <3>1, <3>2 DEF Fresh
  <2>6. ~stale => \A f \in Endpoints : g.req[f] = NoReq \/ g.queue[f] \subseteq {g.req[f]}
    BY <1>5, <2>2, <2>4 DEF Inv, Order
  <2>7. Order'
    BY <1>1, <1>2, <1>4, <2>1, <2>2, <2>5, <2>6 DEF Inv, Order, Tidy, Fresh, taskVars
  <2> QED BY <2>3, <2>7 DEF Inv
<1>8. CASE dev.req[e] # NoReq /\ r # dev.req[e]
  <2>1. halted' = TRUE /\ UNCHANGED dev
    BY <1>8 DEF Shutdown
  <2>2. stale
    BY <1>1, <1>8 DEF Inv, Order
  <2>3. TypeOK'
    BY <1>1, <2>1 DEF Inv, TypeOK, taskVars
  <2>4. Order'
    BY <1>1, <2>1, <2>2 DEF Inv, Order, Fresh, Tidy, Blank, taskVars
  <2> QED BY <2>3, <2>4 DEF Inv
<1> QED BY <1>6, <1>7, <1>8

LEMMA InvStep == Inv /\ [Next]_vars => Inv'
<1> SUFFICES ASSUME Inv, [Next]_vars PROVE Inv'
  OBVIOUS
<1>1. CASE UNCHANGED vars
  BY <1>1 DEF vars, taskVars, Inv, TypeOK, Order, Tidy, Fresh, Blank
<1>2. CASE Connect
  BY <1>2 DEF Connect, taskVars, Inv, TypeOK, Order, Tidy, Fresh, Blank
<1>3. CASE Disconnect
  BY <1>3, DisconnectInv
<1>4. ASSUME NEW v \in {0, 1}, NEW f \in Failures, SetConfig(v, f) PROVE Inv'
  BY <1>4, SetConfigFacts, GadgetAssumption
<1>5. ASSUME NEW alt \in Alts, NEW f \in Failures, SelectAlt(alt, f) PROVE Inv'
  BY <1>5, SelectAltInv, GadgetAssumption
<1>6. ASSUME NEW e \in Endpoints, TaskEnter(e) \/ TaskSubmit(e) \/ TaskReturn(e) PROVE Inv'
  BY <1>6, TaskInv
<1>7. ASSUME NEW e \in Endpoints, NEW r \in Reqs, Complete(e, r) \/ Shutdown(e, r) PROVE Inv'
  BY <1>7, CompleteInv, ShutdownInv
<1> QED
  BY <1>1, <1>2, <1>3, <1>4, <1>5, <1>6, <1>7 DEF Next

LEMMA InvHolds == Spec => []Inv
BY InvInit, InvStep, PTL DEF Spec

-----------------------------------------------------------------------------
(* Every state of the gadget is well typed: whatever fails in set_interface, the
   allocator has an address left when a request is allocated. *)
THEOREM TypeCorrect == Spec => []TypeOK
<1>1. Inv => TypeOK
  BY DEF Inv
<1> QED BY InvHolds, <1>1, PTL

(* A request is freed once, although five places free requests: set_interface, cleanup,
   disconnect and complete() agree on the pointer that says whether it is still there. *)
THEOREM FreedOnceHolds == Spec => []FreedOnce
<1>1. Inv => FreedOnce
  BY DEF Inv, Order, FreedOnce
<1> QED BY InvHolds, <1>1, PTL

(* No request is lost and no two endpoints share one, also after an allocation or a
   submission in the middle of set_interface has failed. *)
THEOREM NothingLeakedHolds == Spec => []NothingLeaked
<1>1. Inv => NothingLeaked
  BY DEF Inv, Order, Tidy, NothingLeaked
<1> QED BY InvHolds, <1>1, PTL

(* The assertions of complete() and disconnect() fail only after a task has queued a
   request that had been freed; the host and the controller alone never cause it. *)
THEOREM AssertionsHoldAlways == Spec => []AssertionsHold
<1>1. Inv => AssertionsHold
  BY DEF Inv, Order, AssertionsHold
<1> QED BY InvHolds, <1>1, PTL

(* Without a configuration no endpoint is enabled and nothing is queued. *)
THEOREM QuietHolds == Spec => []QuietWhenUnconfigured
<1>1. Inv => QuietWhenUnconfigured
  BY DEF Inv, Order, Blank, QuietWhenUnconfigured
<1> QED BY InvHolds, <1>1, PTL

(* A SET_CONFIG in which nothing fails makes the device usable from every state that
   can be reached; after one in which something fails nothing is enabled, and it is refused
   but for the one allocation ConfigRecovers names. *)
THEOREM ConfigRecoversHolds == Spec => ConfigRecovers
<1> DEFINE Served(f) == IF f = "none" THEN Usable(dev')
                        ELSE ~dev'.enabled /\ (served' => f = "alloc resp")
<1>1. Inv /\ [Next]_vars => [\A f \in FailPoints : SetConfig(1, f) => Served(f)]_vars
  <2> SUFFICES ASSUME Inv, NEW f \in FailPoints, SetConfig(1, f) PROVE Served(f)
    OBVIOUS
  <2>1. 1 \in {0, 1}
    OBVIOUS
  <2> QED BY <2>1, SetConfigFacts
<1> QED BY InvHolds, <1>1, PTL DEF Spec, ConfigRecovers
=============================================================================
