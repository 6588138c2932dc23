------------------------ MODULE SubagentSeam_proofs ------------------------
(***************************************************************************)
(* Theorems of the dispatch seam: types, the origin of every role, one     *)
(* notice per child, the verdict of a mounted child, and whose a record is.*)
(***************************************************************************)
EXTENDS SubagentSeam, TLAPS

\* A call that has not been made asks for nothing.
BlankCall(x) == x.child = None /\ x.role = None /\ x.key = None /\ ~x.mount /\ ~x.reserved
Blank == \A d \in Dispatch : dispatch[d].pc = "idle" => BlankCall(dispatch[d])

\* Every claim repeats the role of a call made under its key.
ClaimsMeant ==
  \A k \in Key : claims[k].role # None =>
     \E d \in Dispatch : dispatch[d].key = k /\ dispatch[d].role = claims[k].role

\* What a step does to the calls: a call that was made keeps role and key, and
\* a child once it has one.
CallsGrow ==
  \A d \in Dispatch : dispatch[d].pc # "idle" =>
     /\ dispatch'[d].role = dispatch[d].role
     /\ dispatch'[d].key = dispatch[d].key
     /\ dispatch[d].child # None => dispatch'[d].child = dispatch[d].child

Inv == TypeOK /\ Blank

\* Constants differ from None.
LEMMA NoneIsNone ==
  None \notin Role /\ None \notin Child /\ None \notin Key /\ None \notin Dispatch
BY SeamAssumption

\* Rewriting or deleting a record gives records.
LEMMA RecordsKept ==
  ASSUME NEW recs \in [Child -> Record], NEW c, NEW role \in Role \union {None},
         NEW mounted \in BOOLEAN
  PROVE  /\ c \in Child => Written(recs, c, role, mounted) \in [Child -> Record]
         /\ Deleted(recs, c) \in [Child -> Record]
BY DEF Written, Deleted, Record, NoRecord

\* Claiming a key gives claims.
LEMMA ClaimsKept ==
  ASSUME TypeOK, NEW key \in Key \union {None}, NEW role \in Role
  PROVE  Claimed(key, role) \in [Key -> Claim]
<1>1. claims \in [Key -> Claim] /\ claimed + 1 \in Nat
  BY DEF TypeOK
<1>2. NoClaim \in Claim /\ [role |-> role, at |-> claimed + 1] \in Claim
  BY <1>1 DEF NoClaim, Claim
<1>3. [claims EXCEPT ![Stalest] = NoClaim] \in [Key -> Claim]
  BY <1>1, <1>2
<1>4. QED
  BY <1>1, <1>2, <1>3 DEF Claimed

\* A call's record just started.
LEMMA StartedIsCall ==
  ASSUME TypeOK, NEW d \in Dispatch, NEW role \in Role, NEW key \in Key \union {None},
         NEW c \in Child \union {None}, NEW mount \in BOOLEAN
  PROVE  /\ Started(role, key) \in Call
         /\ [Started(role, key) EXCEPT !.child = c, !.reserved = TRUE, !.local = TRUE,
                                          !.mount = mount] \in Call
         /\ [Started(role, key) EXCEPT !.child = c, !.local = TRUE] \in Call
         /\ [Started(role, key) EXCEPT !.pc = "failed", !.child = c] \in Call
<1>1. Idle \in Call
  BY DEF Idle, Call
<1>2. \A x \in Call :
        [x EXCEPT !.pc = "starting", !.role = role, !.key = key, !.live = TRUE] \in Call
  BY DEF Call
<1>3. Started(role, key) \in Call
  BY <1>1, <1>2 DEF Started
<1>4. \A x \in Call :
        /\ [x EXCEPT !.child = c, !.reserved = TRUE, !.local = TRUE, !.mount = mount] \in Call
        /\ [x EXCEPT !.child = c, !.local = TRUE] \in Call
        /\ [x EXCEPT !.pc = "failed", !.child = c] \in Call
  BY DEF Call
<1>5. QED
  BY <1>3, <1>4

\* Initially the types hold and no call has been made.
LEMMA InitSound == Init => Inv
<1> SUFFICES ASSUME Init PROVE Inv
  OBVIOUS
<1>1. NoRecord \in Record /\ NoClaim \in Claim /\ Idle \in Call
  BY DEF NoRecord, Record, NoClaim, Claim, Idle, Call
<1>2. [state |-> "absent", by |-> None] \in Kid
  BY DEF Kid
<1>3. <<>> \in Seq(Child) /\ Len(<<>>) = 0 /\ <<>> \in Seq(Role) /\ 0 \in Nat /\ 0 <= EmittedLimit
  BY SeamAssumption
<1>4. QED
  BY <1>1, <1>2, <1>3 DEF Init, Inv, TypeOK, Blank, BlankCall, Idle

\* Marking a child keeps the marks within their limit.
LEMMA MarksKept ==
  ASSUME TypeOK, NEW c \in Child
  PROVE  /\ Marked(c) \in Seq(Child) /\ Len(Marked(c)) <= EmittedLimit
         /\ c \in {Marked(c)[i] : i \in 1 .. Len(Marked(c))}
<1>1. emitted \in Seq(Child) /\ Len(emitted) <= EmittedLimit /\ EmittedLimit \in Nat \ {0}
  BY SeamAssumption DEF TypeOK
<1>2. CASE c \in MarkSet
  BY <1>1, <1>2 DEF Marked, MarkSet
<1>3. CASE c \notin MarkSet
  <2> DEFINE kept == IF Len(emitted) >= EmittedLimit THEN Tail(emitted) ELSE emitted
  <2>1. kept \in Seq(Child) /\ Len(kept) + 1 <= EmittedLimit
    BY <1>1
  <2>2. Marked(c) = Append(kept, c)
    BY <1>3 DEF Marked
  <2> HIDE DEF kept
  <2>3. /\ Marked(c) \in Seq(Child) /\ Len(Marked(c)) = Len(kept) + 1
        /\ Marked(c)[Len(kept) + 1] = c
    BY <2>1, <2>2
  <2>4. QED
    BY <2>1, <2>3
<1>4. QED
  BY <1>2, <1>3

-----------------------------------------------------------------------------
\* Every step keeps the types.

\* One call's record replaced: role and key stay once the call was made.
LEMMA CallChanged ==
  ASSUME TypeOK, Blank, NEW d \in Dispatch, NEW x \in Call, x.pc # "idle",
         dispatch' = [dispatch EXCEPT ![d] = x],
         dispatch[d].pc # "idle" =>
           /\ x.role = dispatch[d].role /\ x.key = dispatch[d].key
           /\ dispatch[d].child # None => x.child = dispatch[d].child
  PROVE  /\ dispatch' \in [Dispatch -> Call] /\ Blank' /\ CallsGrow
         /\ dispatch'[d] = x
         /\ \A e \in Dispatch \ {d} : dispatch'[e] = dispatch[e]
<1>1. dispatch' \in [Dispatch -> Call]
  BY DEF TypeOK
<1>2. dispatch'[d] = x /\ \A e \in Dispatch \ {d} : dispatch'[e] = dispatch[e]
  BY DEF TypeOK
<1>3. Blank'
  BY <1>2 DEF Blank
<1>4. CallsGrow
  BY <1>2 DEF CallsGrow
<1>5. QED
  BY <1>1, <1>2, <1>3, <1>4

\* The four ways a start can go keep the types, and change no call made before.
LEMMA StartSound ==
  ASSUME Inv, NEW d \in Dispatch,
         StartLocal(d) \/ StartExternal(d) \/ StartUnreserved(d) \/ StartThrows(d)
  PROVE  /\ Inv' /\ CallsGrow
         /\ dispatch[d].pc = "idle" /\ BlankCall(dispatch[d])
         /\ \A e \in Dispatch \ {d} : dispatch'[e] = dispatch[e]
<1>0. TypeOK /\ Blank /\ BlankCall(dispatch[d])
  BY DEF Inv, Blank, StartLocal, StartExternal, StartUnreserved, StartThrows
<1>a. claimed + 1 \in Nat /\ \A key \in KeyOf[d] : key \in Key \union {None}
  BY <1>0, SeamAssumption DEF TypeOK
<1>b. dispatch[d].pc = "idle"
  BY DEF StartLocal, StartExternal, StartUnreserved, StartThrows
<1>1. CASE StartLocal(d)
  <2>1. PICK c \in Child, role \in Role, key \in KeyOf[d], mount \in BOOLEAN :
           /\ records' = Written(records, c, role, mount)
           /\ Correlates(role, key)
           /\ dispatch' = [dispatch EXCEPT ![d] =
                [Started(role, key) EXCEPT !.child = c, !.reserved = TRUE,
                                              !.local = TRUE, !.mount = mount]]
    BY <1>1, Zenon DEF StartLocal
  <2>2. records' \in [Child -> Record]
    BY <1>0, <2>1, RecordsKept DEF TypeOK
  <2>3. claims' \in [Key -> Claim] /\ claimed' \in Nat
    BY <1>0, <1>a, <2>1, ClaimsKept DEF Correlates
  <2>4. \E x \in Call : dispatch' = [dispatch EXCEPT ![d] = x] /\ x.pc # "idle"
    <3> DEFINE x == [Started(role, key) EXCEPT !.child = c, !.reserved = TRUE,
                                                  !.local = TRUE, !.mount = mount]
    <3>1. x \in Call
      BY <1>0, <1>a, StartedIsCall
    <3>2. x.pc = "starting"
      BY DEF Started, Idle
    <3>3. QED
      BY <2>1, <3>1, <3>2
  <2>5. UNCHANGED <<emitted, fibers, owner, kid, rows, forgotten>>
    BY <1>1 DEF StartLocal
  <2>6. QED
    <3>1. /\ dispatch' \in [Dispatch -> Call] /\ Blank' /\ CallsGrow
          /\ \A e \in Dispatch \ {d} : dispatch'[e] = dispatch[e]
      BY <1>0, <1>b, <2>4, CallChanged
    <3>2. TypeOK'
      BY <1>0, <2>2, <2>3, <2>5, <3>1 DEF TypeOK
    <3>3. QED
      BY <1>0, <1>b, <3>1, <3>2 DEF Inv
<1>2. CASE StartExternal(d)
  <2>1. PICK role \in Role, key \in KeyOf[d] :
           /\ Correlates(role, key)
           /\ dispatch' = [dispatch EXCEPT ![d] = Started(role, key)]
    BY <1>2 DEF StartExternal
  <2>2. claims' \in [Key -> Claim] /\ claimed' \in Nat
    BY <1>0, <1>a, <2>1, ClaimsKept DEF Correlates
  <2>3. Started(role, key) \in Call /\ Started(role, key).pc = "starting"
    BY <1>0, <1>a, StartedIsCall DEF Started, Idle
  <2>4. UNCHANGED <<records, emitted, fibers, owner, kid, rows, forgotten>>
    BY <1>2 DEF StartExternal
  <2>5. QED
    <3>1. /\ dispatch' \in [Dispatch -> Call] /\ Blank' /\ CallsGrow
          /\ \A e \in Dispatch \ {d} : dispatch'[e] = dispatch[e]
      BY <1>0, <1>b, <2>1, <2>3, CallChanged
    <3>2. TypeOK'
      BY <1>0, <2>2, <2>4, <3>1 DEF TypeOK
    <3>3. QED
      BY <1>0, <1>b, <3>1, <3>2 DEF Inv
<1>3. CASE StartUnreserved(d)
  <2>1. PICK c \in Child \union {None}, role \in Role, key \in KeyOf[d] :
           /\ records' = IF c = None THEN records ELSE Deleted(records, c)
           /\ Correlates(role, key)
           /\ dispatch' = [dispatch EXCEPT ![d] =
                [Started(role, key) EXCEPT !.child = c, !.local = TRUE]]
    BY <1>3 DEF StartUnreserved
  <2>2. records' \in [Child -> Record]
    BY <1>0, <2>1, RecordsKept DEF TypeOK
  <2>3. claims' \in [Key -> Claim] /\ claimed' \in Nat
    BY <1>0, <1>a, <2>1, ClaimsKept DEF Correlates
  <2>4. \E x \in Call : dispatch' = [dispatch EXCEPT ![d] = x] /\ x.pc # "idle"
    <3> DEFINE x == [Started(role, key) EXCEPT !.child = c, !.local = TRUE]
    <3>1. x \in Call
      BY <1>0, <1>a, StartedIsCall
    <3>2. x.pc = "starting"
      BY DEF Started, Idle
    <3>3. QED
      BY <2>1, <3>1, <3>2
  <2>5. UNCHANGED <<emitted, fibers, owner, kid, rows, forgotten>>
    BY <1>3 DEF StartUnreserved
  <2>6. QED
    <3>1. /\ dispatch' \in [Dispatch -> Call] /\ Blank' /\ CallsGrow
          /\ \A e \in Dispatch \ {d} : dispatch'[e] = dispatch[e]
      BY <1>0, <1>b, <2>4, CallChanged
    <3>2. TypeOK'
      BY <1>0, <2>2, <2>3, <2>5, <3>1 DEF TypeOK
    <3>3. QED
      BY <1>0, <1>b, <3>1, <3>2 DEF Inv
<1>4. CASE StartThrows(d)
  <2>1. PICK c \in Child \union {None}, role \in Role, key \in KeyOf[d] :
           /\ records' = IF c = None THEN records ELSE Deleted(records, c)
           /\ claims' = IF key = None THEN claims
                        ELSE [Claimed(key, role) EXCEPT ![key] = NoClaim]
           /\ claimed' = claimed + 1
           /\ dispatch' = [dispatch EXCEPT ![d] =
                [Started(role, key) EXCEPT !.pc = "failed", !.child = c]]
    BY <1>4 DEF StartThrows
  <2>2. records' \in [Child -> Record]
    BY <1>0, <2>1, RecordsKept DEF TypeOK
  <2>3. claims' \in [Key -> Claim] /\ claimed' \in Nat
    <3>1. Claimed(key, role) \in [Key -> Claim] /\ NoClaim \in Claim
      BY <1>0, <1>a, ClaimsKept DEF NoClaim, Claim
    <3>2. QED
      BY <1>0, <1>a, <2>1, <3>1 DEF TypeOK
  <2>4. \E x \in Call : dispatch' = [dispatch EXCEPT ![d] = x] /\ x.pc # "idle"
    <3> DEFINE x == [Started(role, key) EXCEPT !.pc = "failed", !.child = c]
    <3>1. x \in Call
      BY <1>0, <1>a, StartedIsCall
    <3>2. x.pc = "failed"
      BY DEF Started, Idle
    <3>3. QED
      BY <2>1, <3>1, <3>2
  <2>5. UNCHANGED <<emitted, fibers, owner, kid, rows, forgotten>>
    BY <1>4 DEF StartThrows
  <2>6. QED
    <3>1. /\ dispatch' \in [Dispatch -> Call] /\ Blank' /\ CallsGrow
          /\ \A e \in Dispatch \ {d} : dispatch'[e] = dispatch[e]
      BY <1>0, <1>b, <2>4, CallChanged
    <3>2. TypeOK'
      BY <1>0, <2>2, <2>3, <2>5, <3>1 DEF TypeOK
    <3>3. QED
      BY <1>0, <1>b, <3>1, <3>2 DEF Inv
<1>5. QED
  BY <1>1, <1>2, <1>3, <1>4
\* Ending a claim gives claims.
LEMMA EndedKept ==
  ASSUME TypeOK, NEW d \in Dispatch
  PROVE  Ended(d) \in [Key -> Claim]
BY DEF TypeOK, Ended, NoClaim, Claim

\* What the host and the results do.
LEMMA HostSound ==
  ASSUME Inv, NEW d \in Dispatch,
         \/ HostCreates(d) \/ Catalogued(d) \/ ResolvesWithChild(d)
         \/ ResolvesWithJob(d) \/ Rejects(d)
  PROVE  Inv' /\ CallsGrow /\ \A e \in Dispatch \ {d} : dispatch'[e] = dispatch[e]
<1>0. TypeOK /\ Blank /\ dispatch[d] \in Call
  BY DEF Inv, TypeOK
<1>1. CASE HostCreates(d)
  <2>1. PICK c \in Child :
           /\ IF dispatch[d].child # None
              THEN c = dispatch[d].child /\ kid[c].state \in {"absent", "gone"}
              ELSE ~Named(c) /\ kid[c].state = "absent"
           /\ kid' = [kid EXCEPT ![c] =
                [state |-> IF dispatch[d].local THEN "alive" ELSE "remote", by |-> d]]
           /\ dispatch' = [dispatch EXCEPT ![d].child = c]
    BY <1>1 DEF HostCreates
  <2>2. kid' \in [Child -> Kid]
    BY <1>0, <2>1 DEF TypeOK, Kid
  <2>3. UNCHANGED <<records, claims, claimed, emitted, fibers, owner, rows, forgotten>>
    BY <1>1 DEF HostCreates
  <2> DEFINE x == [dispatch[d] EXCEPT !.child = c]
  <2>4. /\ x \in Call /\ x.pc = dispatch[d].pc /\ x.pc # "idle"
        /\ x.role = dispatch[d].role /\ x.key = dispatch[d].key
        /\ dispatch[d].child # None => x.child = dispatch[d].child
    <3>1. x \in Call /\ x.pc = dispatch[d].pc /\ x.role = dispatch[d].role
          /\ x.key = dispatch[d].key /\ x.child = c
      BY <1>0 DEF Call
    <3>2. dispatch[d].pc # "idle"
      BY <1>1 DEF HostCreates
    <3>3. QED
      BY <2>1, <3>1, <3>2
  <2>5. dispatch' = [dispatch EXCEPT ![d] = x]
    BY <2>1
  <2> HIDE DEF x
  <2>6. /\ dispatch' \in [Dispatch -> Call] /\ Blank' /\ CallsGrow
        /\ \A e \in Dispatch \ {d} : dispatch'[e] = dispatch[e]
    BY <1>0, <2>4, <2>5, CallChanged
  <2>7. TypeOK'
    BY <1>0, <2>2, <2>3, <2>6 DEF TypeOK
  <2>8. QED
    BY <2>6, <2>7 DEF Inv
<1>2. CASE Catalogued(d)
  <2> DEFINE x == [dispatch[d] EXCEPT !.listed = TRUE]
  <2>1. dispatch[d].child \in Child /\ dispatch[d].key \in Key /\ dispatch[d].pc # "idle"
    BY <1>0, <1>2 DEF Catalogued, Created, Call, Blank, BlankCall
  <2>2. /\ x \in Call /\ x.pc = dispatch[d].pc /\ x.pc # "idle"
        /\ x.role = dispatch[d].role /\ x.key = dispatch[d].key
        /\ x.child = dispatch[d].child
    BY <1>0, <2>1 DEF Call, Blank
  <2>3. dispatch' = [dispatch EXCEPT ![d] = x]
    BY <1>2 DEF Catalogued
  <2> HIDE DEF x
  <2>4. /\ dispatch' \in [Dispatch -> Call] /\ Blank' /\ CallsGrow
        /\ \A e \in Dispatch \ {d} : dispatch'[e] = dispatch[e]
    BY <1>0, <2>2, <2>3, CallChanged
  <2>5. ClaimFor(d) \in Claim /\ NoClaim \in Claim
    BY <1>0, <2>1 DEF TypeOK, ClaimFor, NoClaim, Claim
  <2>6. records' \in [Child -> Record] /\ claims' \in [Key -> Claim]
    <3>1. CASE owner # None /\ ClaimFor(d) # NoClaim
      <4>1. records' = Written(records, dispatch[d].child, ClaimFor(d).role, FALSE)
            /\ claims' = [claims EXCEPT ![dispatch[d].key] = NoClaim]
        BY <1>2, <3>1 DEF Catalogued
      <4>2. ClaimFor(d).role \in Role \union {None}
        BY <2>5 DEF Claim
      <4>3. QED
        BY <1>0, <2>1, <2>5, <4>1, <4>2, RecordsKept DEF TypeOK
    <3>2. CASE ~(owner # None /\ ClaimFor(d) # NoClaim)
      BY <1>0, <1>2, <3>2 DEF Catalogued, TypeOK
    <3>3. QED
      BY <3>1, <3>2
  <2>7. UNCHANGED <<claimed, emitted, fibers, owner, kid, rows, forgotten>>
    BY <1>2 DEF Catalogued
  <2>8. TypeOK'
    BY <1>0, <2>4, <2>6, <2>7 DEF TypeOK
  <2>9. QED
    BY <2>4, <2>8 DEF Inv
<1>3. CASE ResolvesWithChild(d) \/ ResolvesWithJob(d) \/ Rejects(d)
  <2>1. PICK pc \in {"job", "done", "failed"} : dispatch' = [dispatch EXCEPT ![d].pc = pc]
    BY <1>3 DEF ResolvesWithChild, ResolvesWithJob, Rejects
  <2> DEFINE x == [dispatch[d] EXCEPT !.pc = pc]
  <2>2. /\ x \in Call /\ x.pc # "idle"
        /\ x.role = dispatch[d].role /\ x.key = dispatch[d].key
        /\ x.child = dispatch[d].child
    BY <1>0 DEF Call
  <2>3. dispatch' = [dispatch EXCEPT ![d] = x]
    BY <2>1
  <2> HIDE DEF x
  <2>4. /\ dispatch' \in [Dispatch -> Call] /\ Blank' /\ CallsGrow
        /\ \A e \in Dispatch \ {d} : dispatch'[e] = dispatch[e]
    BY <1>0, <2>2, <2>3, CallChanged
  <2>5. claims' \in [Key -> Claim]
    BY <1>0, <1>3, EndedKept DEF ResolvesWithChild, ResolvesWithJob, Rejects, TypeOK
  <2>6. records' \in [Child -> Record]
    <3>1. CASE ResolvesWithChild(d)
      <4>1. dispatch[d].child \in Child /\ dispatch[d].role \in Role \union {None}
        BY <1>0, <3>1 DEF ResolvesWithChild, Created, Call
      <4>2. QED
        BY <1>0, <3>1, <4>1, RecordsKept DEF ResolvesWithChild, TypeOK
    <3>2. CASE Rejects(d)
      BY <1>0, <3>2, RecordsKept DEF Rejects, RolledBack, TypeOK
    <3>3. CASE ResolvesWithJob(d)
      BY <1>0, <3>3 DEF ResolvesWithJob, TypeOK
    <3>4. QED
      BY <1>3, <3>1, <3>2, <3>3
  <2>7. UNCHANGED <<claimed, emitted, fibers, owner, kid, rows, forgotten>>
    BY <1>3 DEF ResolvesWithChild, ResolvesWithJob, Rejects
  <2>8. TypeOK'
    BY <1>0, <2>4, <2>5, <2>6, <2>7 DEF TypeOK
  <2>9. QED
    BY <2>4, <2>8 DEF Inv
<1>4. QED
  BY <1>1, <1>2, <1>3
\* A child goes, or is announced.
LEMMA ChildSound ==
  ASSUME Inv, NEW c \in Child, AgentDisposed(c) \/ Notice(c)
  PROVE  Inv' /\ dispatch' = dispatch
<1>0. TypeOK /\ Blank
  BY DEF Inv
<1>1. CASE AgentDisposed(c)
  <2>1. records' \in [Child -> Record]
    BY <1>0, <1>1, RecordsKept DEF AgentDisposed, TypeOK
  <2>2. kid' \in [Child -> Kid]
    BY <1>0, <1>1 DEF AgentDisposed, TypeOK, Kid
  <2>3. QED
    BY <1>0, <1>1, <2>1, <2>2 DEF AgentDisposed, Inv, TypeOK, Blank
<1>2. CASE Notice(c)
  <2>1. emitted' \in Seq(Child) /\ Len(emitted') <= EmittedLimit /\ forgotten' \subseteq Child
    <3>1. emitted' = Marked(c) /\ forgotten' \subseteq forgotten \union MarkSet
      BY <1>2 DEF Notice
    <3>2. MarkSet \subseteq Child /\ forgotten \subseteq Child
      BY <1>0 DEF TypeOK, MarkSet
    <3>3. QED
      BY <1>0, <3>1, <3>2, MarksKept
  <2>2. records' \in [Child -> Record]
    BY <1>0, <1>2 DEF Notice, TypeOK, Record
  <2>3. records[c].role \in Role
    BY <1>0, <1>2 DEF Notice, Unannounced, TypeOK, Record
  <2>4. rows' \in [Child -> Seq(Role)]
    BY <1>0, <1>2, <2>3 DEF Notice, TypeOK
  <2>5. QED
    BY <1>0, <1>2, <2>1, <2>2, <2>4 DEF Notice, Inv, TypeOK, Blank
<1>3. QED
  BY <1>1, <1>2

\* A fiber comes or goes: the calls keep all but live and cut.
LEMMA FiberSound ==
  ASSUME Inv, NEW f \in Fiber, Install(f) \/ Dispose(f)
  PROVE  /\ Inv' /\ CallsGrow
         /\ \A d \in Dispatch : /\ dispatch'[d].pc = dispatch[d].pc
                                /\ dispatch'[d].child = dispatch[d].child
                                /\ dispatch'[d].reserved = dispatch[d].reserved
                                /\ dispatch'[d].mount = dispatch[d].mount
                                /\ dispatch'[d].role = dispatch[d].role
                                /\ dispatch'[d].key = dispatch[d].key
<1>0. TypeOK /\ Blank
  BY DEF Inv
<1>1. NoClaim \in Claim /\ NoRecord \in Record
  BY DEF NoClaim, Claim, NoRecord, Record
<1>2. CASE Install(f)
  BY <1>0, <1>1, <1>2 DEF Install, Inv, TypeOK, Blank, CallsGrow
<1>3. CASE Dispose(f)
  <2> DEFINE after(d) == [dispatch[d] EXCEPT !.live = dispatch[d].live /\ owner # f,
                            !.cut = dispatch[d].cut \/ (fibers = {f} /\ dispatch[d].pc # "idle")]
  <2>1. dispatch' = [d \in Dispatch |-> after(d)]
    BY <1>3 DEF Dispose
  <2>2. \A d \in Dispatch : /\ after(d) \in Call
                            /\ after(d).pc = dispatch[d].pc
                            /\ after(d).child = dispatch[d].child
                            /\ after(d).reserved = dispatch[d].reserved
                            /\ after(d).mount = dispatch[d].mount
                            /\ after(d).role = dispatch[d].role
                            /\ after(d).key = dispatch[d].key
    <3> TAKE d \in Dispatch
    <3>1. dispatch[d] \in Call
      BY <1>0 DEF TypeOK
    <3>2. /\ (dispatch[d].live /\ owner # f) \in BOOLEAN
          /\ (dispatch[d].cut \/ (fibers = {f} /\ dispatch[d].pc # "idle")) \in BOOLEAN
      BY <3>1, Zenon DEF Call
    <3>3. PICK live \in BOOLEAN : live = (dispatch[d].live /\ owner # f)
      BY <3>2, Zenon
    <3>4. PICK cut \in BOOLEAN :
            cut = (dispatch[d].cut \/ (fibers = {f} /\ dispatch[d].pc # "idle"))
      BY <3>2, Zenon
    <3>5. after(d) = [dispatch[d] EXCEPT !.live = live, !.cut = cut]
      BY <3>3, <3>4, Zenon
    <3> HIDE DEF after
    <3>6. QED
      BY <3>1, <3>5 DEF Call
  <2> HIDE DEF after
  <2>4. dispatch' \in [Dispatch -> Call] /\ Blank' /\ CallsGrow
    BY <1>0, <2>1, <2>2 DEF Blank, BlankCall, CallsGrow
  <2>5. fibers' \subseteq Fiber /\ owner' \in fibers' \union {None} /\ claims' \in [Key -> Claim]
    BY <1>0, <1>1, <1>3 DEF Dispose, TypeOK
  <2>6. /\ records' \in [Child -> Record] /\ forgotten' \subseteq Child
        /\ emitted' \in Seq(Child) /\ Len(emitted') <= EmittedLimit
    <3>1. MarkSet \subseteq Child /\ <<>> \in Seq(Child) /\ Len(<<>>) <= EmittedLimit
      BY <1>0, SeamAssumption DEF TypeOK, MarkSet
    <3>2. QED
      BY <1>0, <1>1, <1>3, <3>1 DEF Dispose, TypeOK
  <2>7. UNCHANGED <<claimed, kid, rows>>
    BY <1>3 DEF Dispose
  <2>8. TypeOK'
    BY <1>0, <2>4, <2>5, <2>6, <2>7 DEF TypeOK
  <2>9. QED
    BY <2>1, <2>2, <2>4, <2>8 DEF Inv
<1>4. QED
  BY <1>2, <1>3

\* Every step keeps the types, and what was asked of a call.
LEMMA NextSound == Inv /\ [Next]_vars => Inv' /\ CallsGrow
<1> SUFFICES ASSUME Inv, [Next]_vars PROVE Inv' /\ CallsGrow
  OBVIOUS
<1>1. ASSUME NEW d \in Dispatch,
             StartLocal(d) \/ StartExternal(d) \/ StartUnreserved(d) \/ StartThrows(d)
      PROVE  Inv' /\ CallsGrow
  BY <1>1, StartSound
<1>2. ASSUME NEW d \in Dispatch,
             \/ HostCreates(d) \/ Catalogued(d) \/ ResolvesWithChild(d)
             \/ ResolvesWithJob(d) \/ Rejects(d)
      PROVE  Inv' /\ CallsGrow
  BY <1>2, HostSound
<1>3. ASSUME NEW c \in Child, AgentDisposed(c) \/ Notice(c) PROVE Inv' /\ CallsGrow
  BY <1>3, ChildSound DEF CallsGrow
<1>4. ASSUME NEW f \in Fiber, Install(f) \/ Dispose(f) PROVE Inv' /\ CallsGrow
  BY <1>4, FiberSound
<1>5. CASE UNCHANGED vars
  BY <1>5 DEF vars, Inv, TypeOK, Blank, CallsGrow
<1>6. QED
  BY <1>1, <1>2, <1>3, <1>4, <1>5 DEF Next

\* The seam's state is well typed: in particular the marks stay within their
\* limit, for any roles, children, calls, labels and fibers.
THEOREM TypeCorrect == Spec => []TypeOK
<1>1. Inv => TypeOK
  BY DEF Inv
<1>2. QED
  BY <1>1, InitSound, NextSound, PTL DEF Spec

-----------------------------------------------------------------------------
\* One notice per child.

\* A child with a row is marked, or its mark was dropped.
RowsMarked == \A c \in Child : Len(rows[c]) > 0 => c \in MarkSet \union forgotten
NoticeInv == Inv /\ RowsMarked /\ OneNotice

\* Every step keeps what marks and rows say of each other.
LEMMA NextNotices == NoticeInv /\ [Next]_vars => NoticeInv'
<1> SUFFICES ASSUME NoticeInv, [Next]_vars PROVE NoticeInv'
  OBVIOUS
<1>0. Inv /\ Inv' /\ TypeOK /\ RowsMarked /\ OneNotice
  BY NextSound DEF NoticeInv, Inv
<1>1. CASE UNCHANGED <<rows, emitted, forgotten>>
  BY <1>0, <1>1 DEF NoticeInv, RowsMarked, OneNotice, MarkSet
<1>2. ASSUME NEW c \in Child, Notice(c) PROVE NoticeInv'
  <2>1. rows' = [rows EXCEPT ![c] = Append(@, records[c].role)] /\ emitted' = Marked(c)
        /\ c \notin MarkSet /\ forgotten' = forgotten \union (MarkSet \ MarkSet')
    BY <1>2 DEF Notice, Unannounced
  <2>2. MarkSet' = {Marked(c)[i] : i \in 1 .. Len(Marked(c))}
    BY <2>1 DEF MarkSet
  <2>3. MarkSet \subseteq MarkSet' \union forgotten' /\ c \in MarkSet' /\ forgotten \subseteq forgotten'
    BY <1>0, <2>1, <2>2, MarksKept
  <2>4. \A x \in Child \ {c} : rows'[x] = rows[x]
    BY <1>0, <2>1 DEF TypeOK
  <2>5. records[c].role \in Role
    BY <1>0, <1>2 DEF Notice, Unannounced, TypeOK, Record
  <2>6. rows[c] \in Seq(Role) /\ rows'[c] = Append(rows[c], records[c].role)
    BY <1>0, <2>1 DEF TypeOK
  <2>7. Len(rows'[c]) > 1 => c \in forgotten'
    <3>1. Len(rows'[c]) = Len(rows[c]) + 1 /\ Len(rows[c]) \in Nat
      BY <2>5, <2>6
    <3>2. Len(rows[c]) > 0 => c \in forgotten
      BY <1>0, <2>1 DEF RowsMarked
    <3>3. QED
      BY <2>3, <3>1, <3>2
  <2>8. RowsMarked'
    BY <1>0, <2>3, <2>4 DEF RowsMarked
  <2>9. OneNotice'
    BY <1>0, <2>3, <2>4, <2>7 DEF OneNotice
  <2>10. QED
    BY <1>0, <2>8, <2>9 DEF NoticeInv
<1>3. ASSUME NEW f \in Fiber, Dispose(f) PROVE NoticeInv'
  <2>1. rows' = rows /\ (\/ emitted' = emitted /\ forgotten' = forgotten
                         \/ forgotten' = forgotten \union MarkSet)
    BY <1>3 DEF Dispose
  <2>2. QED
    BY <1>0, <2>1 DEF NoticeInv, RowsMarked, OneNotice, MarkSet
<1>4. QED
  BY <1>1, <1>2, <1>3 DEF Next, vars, StartLocal, StartExternal, StartUnreserved, StartThrows,
     HostCreates, Catalogued, ResolvesWithChild, ResolvesWithJob, Rejects, AgentDisposed, Install

\* A child session gets one notice row, through any number of starts under its
\* id, unless its mark was evicted at the limit or cleared with the last fiber.
THEOREM ChildAnnouncedOnce == Spec => []OneNotice
<1>1. Init => NoticeInv
  BY InitSound DEF Init, NoticeInv, RowsMarked, OneNotice
<1>2. NoticeInv => OneNotice
  BY DEF NoticeInv
<1>3. QED
  BY <1>1, <1>2, NextNotices, PTL DEF Spec
-----------------------------------------------------------------------------
\* Where roles come from.

RolesInv == Inv /\ ClaimsMeant /\ RoleIsMeant

\* A role meant for a child stays meant for it.
LEMMA MeantStays ==
  ASSUME Inv, CallsGrow, NEW c \in Child, NEW role \in Role, Meant(c, role)
  PROVE  Meant(c, role)'
<1>0. Blank /\ role # None /\ c # None
  BY NoneIsNone DEF Inv
<1>1. PICK d \in Dispatch :
         /\ dispatch[d].role = role
         /\ \/ dispatch[d].child = c
            \/ \E e \in Dispatch : /\ dispatch[e].child = c
                                   /\ dispatch[e].key = dispatch[d].key
                                   /\ dispatch[e].key # None
  BY DEF Meant
<1>2. dispatch[d].pc # "idle" /\ dispatch'[d].role = role /\ dispatch'[d].key = dispatch[d].key
  BY <1>0, <1>1 DEF Blank, BlankCall, CallsGrow
<1>3. \A e \in Dispatch : dispatch[e].child = c =>
         dispatch'[e].child = c /\ dispatch'[e].key = dispatch[e].key
  BY <1>0 DEF Blank, BlankCall, CallsGrow
<1>4. QED
  BY <1>1, <1>2, <1>3 DEF Meant

\* A step that takes each role from where it was, from the call's own request
\* or from a claim, keeps every role meant.
LEMMA RolesStay ==
  ASSUME RolesInv, Inv', CallsGrow,
         \A c \in Child : \/ records'[c].role \in {records[c].role, None}
                          \/ Meant(c, records[c].role)',
         \A k \in Key : \/ claims'[k].role \in {claims[k].role, None}
                        \/ \E d \in Dispatch : /\ dispatch'[d].key = k
                                               /\ dispatch'[d].role = claims'[k].role,
         \A c \in Child : \A i \in 1 .. Len(rows'[c]) :
            \/ i \in 1 .. Len(rows[c]) /\ rows'[c][i] = rows[c][i]
            \/ rows'[c][i] = records[c].role /\ records[c].role # None
  PROVE  RolesInv'
<1>0. Inv /\ TypeOK /\ Blank /\ ClaimsMeant /\ RoleIsMeant /\ TypeOK'
  BY DEF RolesInv, Inv
<1>1. \A c \in Child : records'[c].role # None => Meant(c, records[c].role)'
  <2> SUFFICES ASSUME NEW c \in Child, records'[c].role = records[c].role,
                      records[c].role # None
               PROVE  Meant(c, records[c].role)'
    OBVIOUS
  <2>1. records[c].role \in Role /\ Meant(c, records[c].role)
    BY <1>0 DEF TypeOK, Record, RoleIsMeant
  <2> DEFINE role == records[c].role
  <2>2. role \in Role /\ Meant(c, role) /\ records'[c].role = role
    BY <2>1
  <2>3. PICK r \in Role : r = role /\ Meant(c, r)
    BY <2>2
  <2>4. Meant(c, r)'
    BY <1>0, <2>3, MeantStays
  <2>5. QED
    BY <2>2, <2>3, <2>4 DEF Meant
<1>2. ClaimsMeant'
  <2> SUFFICES ASSUME NEW k \in Key, claims'[k].role = claims[k].role, claims[k].role # None
               PROVE  \E d \in Dispatch : /\ dispatch'[d].key = k
                                          /\ dispatch'[d].role = claims'[k].role
    BY DEF ClaimsMeant
  <2>1. PICK d \in Dispatch : dispatch[d].key = k /\ dispatch[d].role = claims[k].role
    BY <1>0 DEF ClaimsMeant
  <2>2. dispatch[d].pc # "idle"
    BY <1>0, <2>1 DEF Blank, BlankCall
  <2>3. QED
    BY <2>1, <2>2 DEF CallsGrow
<1>3. \A c \in Child : \A i \in 1 .. Len(rows'[c]) : Meant(c, rows[c][i])'
  <2> TAKE c \in Child
  <2> TAKE i \in 1 .. Len(rows'[c])
  <2>1. PICK r \in Role : rows'[c][i] = r /\ Meant(c, r)
    <3>1. CASE i \in 1 .. Len(rows[c]) /\ rows'[c][i] = rows[c][i]
      BY <1>0, <3>1 DEF TypeOK, RoleIsMeant
    <3>2. CASE rows'[c][i] = records[c].role /\ records[c].role # None
      BY <1>0, <3>2 DEF TypeOK, Record, RoleIsMeant
    <3>3. QED
      BY <3>1, <3>2
  <2>2. Meant(c, r)'
    BY <1>0, <2>1, MeantStays
  <2>3. QED
    BY <2>1, <2>2 DEF Meant
<1>4. QED
  BY <1>1, <1>2, <1>3 DEF RolesInv, RoleIsMeant

\* A start claims its key for its own role.
LEMMA ClaimedForRole ==
  ASSUME TypeOK, NEW key \in Key \union {None}, NEW role \in Role
  PROVE  \A k \in Key : \/ Claimed(key, role)[k].role \in {claims[k].role, None}
                        \/ k = key /\ Claimed(key, role)[k].role = role
BY DEF TypeOK, Claimed, NoClaim, Claim

\* Every step keeps every role meant.
LEMMA NextRoles == RolesInv /\ [Next]_vars => RolesInv'
<1> SUFFICES ASSUME RolesInv, [Next]_vars PROVE RolesInv'
  OBVIOUS
<1>0. Inv /\ TypeOK /\ Inv' /\ CallsGrow /\ ClaimsMeant /\ RoleIsMeant
  BY NextSound DEF RolesInv, Inv
<1>a. UNCHANGED rows => \A c \in Child : \A i \in 1 .. Len(rows'[c]) :
        i \in 1 .. Len(rows[c]) /\ rows'[c][i] = rows[c][i]
  OBVIOUS
<1>b. \A d \in Dispatch : \A key \in KeyOf[d] : key \in Key \union {None}
  BY SeamAssumption
<1>1. ASSUME NEW d \in Dispatch, StartLocal(d) PROVE RolesInv'
  <2>1. PICK c \in Child, role \in Role, key \in KeyOf[d], mount \in BOOLEAN :
           /\ records' = Written(records, c, role, mount)
           /\ Correlates(role, key)
           /\ dispatch' = [dispatch EXCEPT ![d] =
                [Started(role, key) EXCEPT !.child = c, !.reserved = TRUE,
                                              !.local = TRUE, !.mount = mount]]
    BY <1>1, Zenon DEF StartLocal
  <2>2. dispatch'[d].role = role /\ dispatch'[d].key = key /\ dispatch'[d].child = c
    BY <1>0, <2>1 DEF TypeOK, Started, Idle
  <2>3. \A x \in Child : \/ records'[x].role \in {records[x].role, None}
                         \/ Meant(x, records[x].role)'
    BY <1>0, <2>1, <2>2 DEF TypeOK, Record, Written, Meant
  <2>4. \A k \in Key : \/ claims'[k].role \in {claims[k].role, None}
                       \/ \E e \in Dispatch : /\ dispatch'[e].key = k
                                              /\ dispatch'[e].role = claims'[k].role
    BY <1>0, <1>b, <2>1, <2>2, ClaimedForRole DEF Correlates
  <2>5. QED
    BY <1>0, <1>1, <1>a, <2>3, <2>4, RolesStay DEF StartLocal
<1>2. ASSUME NEW d \in Dispatch, StartExternal(d) PROVE RolesInv'
  <2>1. PICK role \in Role, key \in KeyOf[d] :
           Correlates(role, key) /\ dispatch' = [dispatch EXCEPT ![d] = Started(role, key)]
    BY <1>2 DEF StartExternal
  <2>2. dispatch'[d].role = role /\ dispatch'[d].key = key
    BY <1>0, <2>1 DEF TypeOK, Started, Idle
  <2>3. \A k \in Key : \/ claims'[k].role \in {claims[k].role, None}
                       \/ \E e \in Dispatch : /\ dispatch'[e].key = k
                                              /\ dispatch'[e].role = claims'[k].role
    BY <1>0, <1>b, <2>1, <2>2, ClaimedForRole DEF Correlates
  <2>4. QED
    BY <1>0, <1>2, <1>a, <2>3, RolesStay DEF StartExternal
<1>3. ASSUME NEW d \in Dispatch, StartUnreserved(d) PROVE RolesInv'
  <2>1. PICK c \in Child \union {None}, role \in Role, key \in KeyOf[d] :
           /\ records' = IF c = None THEN records ELSE Deleted(records, c)
           /\ Correlates(role, key)
           /\ dispatch' = [dispatch EXCEPT ![d] =
                [Started(role, key) EXCEPT !.child = c, !.local = TRUE]]
    BY <1>3 DEF StartUnreserved
  <2>2. dispatch'[d].role = role /\ dispatch'[d].key = key
    BY <1>0, <2>1 DEF TypeOK, Started, Idle
  <2>3. \A x \in Child : records'[x].role \in {records[x].role, None}
    BY <1>0, <2>1 DEF TypeOK, Deleted, NoRecord
  <2>4. \A k \in Key : \/ claims'[k].role \in {claims[k].role, None}
                       \/ \E e \in Dispatch : /\ dispatch'[e].key = k
                                              /\ dispatch'[e].role = claims'[k].role
    BY <1>0, <1>b, <2>1, <2>2, ClaimedForRole DEF Correlates
  <2>5. QED
    BY <1>0, <1>3, <1>a, <2>3, <2>4, RolesStay DEF StartUnreserved
<1>4. ASSUME NEW d \in Dispatch, StartThrows(d) PROVE RolesInv'
  <2>1. PICK c \in Child \union {None}, role \in Role, key \in KeyOf[d] :
           /\ records' = IF c = None THEN records ELSE Deleted(records, c)
           /\ claims' = IF key = None THEN claims
                        ELSE [Claimed(key, role) EXCEPT ![key] = NoClaim]
    BY <1>4 DEF StartThrows
  <2>2. \A x \in Child : records'[x].role \in {records[x].role, None}
    BY <1>0, <2>1 DEF TypeOK, Deleted, NoRecord
  <2>3. \A k \in Key : claims'[k].role \in {claims[k].role, None}
    <3>1. Claimed(key, role) \in [Key -> Claim]
      BY <1>0, <1>b, ClaimsKept
    <3>2. QED
      BY <1>0, <1>b, <2>1, <3>1, ClaimedForRole DEF NoClaim
  <2>4. QED
    BY <1>0, <1>4, <1>a, <2>2, <2>3, RolesStay DEF StartThrows
<1>5. ASSUME NEW d \in Dispatch, HostCreates(d) PROVE RolesInv'
  BY <1>0, <1>5, <1>a, RolesStay DEF HostCreates
<1>6. ASSUME NEW d \in Dispatch, Catalogued(d) PROVE RolesInv'
  <2>1. PICK c \in Child, k \in Key : c = dispatch[d].child /\ k = dispatch[d].key
    BY <1>0, <1>6 DEF Catalogued, Created, TypeOK, Call
  <2>2. dispatch'[d].child = c /\ dispatch'[d].key = k
    BY <1>0, <1>6, <2>1 DEF Catalogued, TypeOK
  <2>3. CASE records' = records /\ claims' = claims
    BY <1>0, <1>6, <1>a, <2>3, RolesStay DEF Catalogued
  <2>4. CASE /\ ClaimFor(d) # NoClaim
             /\ records' = Written(records, c, ClaimFor(d).role, FALSE)
             /\ claims' = [claims EXCEPT ![k] = NoClaim]
    <3>1. records'[c].role = claims[k].role
          /\ \A x \in Child \ {c} : records'[x] = records[x]
      BY <1>0, <2>1, <2>4 DEF TypeOK, Written, ClaimFor
    <3>2. \A l \in Key : claims'[l].role \in {claims[l].role, None}
      BY <1>0, <2>4 DEF TypeOK, NoClaim
    <3>3. records'[c].role # None => Meant(c, records[c].role)'
      <4> SUFFICES ASSUME claims[k].role # None PROVE Meant(c, records[c].role)'
        BY <3>1
      <4>1. PICK e \in Dispatch : dispatch[e].key = k /\ dispatch[e].role = claims[k].role
        BY <1>0, <2>1 DEF ClaimsMeant
      <4>2. dispatch[e].pc # "idle"
        BY <1>0, <4>1 DEF Inv, Blank, BlankCall
      <4>3. dispatch'[e].key = k /\ dispatch'[e].role = records'[c].role
        BY <1>0, <3>1, <4>1, <4>2 DEF CallsGrow
      <4>4. k # None
        BY <2>1, NoneIsNone
      <4>5. QED
        BY <2>2, <4>3, <4>4 DEF Meant
    <3>4. \A x \in Child : \/ records'[x].role \in {records[x].role, None}
                           \/ Meant(x, records[x].role)'
      BY <3>1, <3>3
    <3>5. QED
      BY <1>0, <1>6, <1>a, <3>2, <3>4, RolesStay DEF Catalogued
  <2>5. QED
    BY <1>6, <2>1, <2>3, <2>4 DEF Catalogued
<1>7. ASSUME NEW d \in Dispatch, ResolvesWithChild(d) PROVE RolesInv'
  <2>1. PICK c \in Child : c = dispatch[d].child
    BY <1>0, <1>7 DEF ResolvesWithChild, Created, TypeOK, Call
  <2>2. dispatch'[d].child = c /\ dispatch'[d].role = dispatch[d].role
    BY <1>0, <1>7, <2>1 DEF ResolvesWithChild, TypeOK
  <2>3. records'[c].role = dispatch[d].role
        /\ \A x \in Child \ {c} : records'[x] = records[x]
    BY <1>0, <1>7, <2>1 DEF ResolvesWithChild, TypeOK, Written
  <2>4. Meant(c, records[c].role)'
    BY <2>2, <2>3 DEF Meant
  <2>5. \A k \in Key : claims'[k].role \in {claims[k].role, None}
    BY <1>0, <1>7 DEF ResolvesWithChild, TypeOK, Ended, NoClaim
  <2>6. \A x \in Child : \/ records'[x].role \in {records[x].role, None}
                         \/ Meant(x, records[x].role)'
    BY <2>3, <2>4
  <2>7. QED
    BY <1>0, <1>7, <1>a, <2>5, <2>6, RolesStay DEF ResolvesWithChild
<1>8. ASSUME NEW d \in Dispatch, ResolvesWithJob(d) \/ Rejects(d) PROVE RolesInv'
  <2>1. \A k \in Key : claims'[k].role \in {claims[k].role, None}
    BY <1>0, <1>8 DEF ResolvesWithJob, Rejects, TypeOK, Ended, NoClaim
  <2>2. \A x \in Child : records'[x].role \in {records[x].role, None}
    <3>1. \A y : \A x \in Child : Deleted(records, y)[x].role \in {records[x].role, None}
      BY <1>0 DEF Deleted, TypeOK, NoRecord
    <3>2. records' = records \/ \E y : records' = Deleted(records, y)
      BY <1>8 DEF ResolvesWithJob, Rejects, RolledBack
    <3>3. QED
      BY <3>1, <3>2
  <2>3. QED
    BY <1>0, <1>8, <1>a, <2>1, <2>2, RolesStay DEF ResolvesWithJob, Rejects
<1>9. ASSUME NEW c \in Child, AgentDisposed(c) PROVE RolesInv'
  <2>1. \A x \in Child : records'[x].role \in {records[x].role, None}
    BY <1>0, <1>9 DEF AgentDisposed, Deleted, TypeOK, NoRecord
  <2>2. QED
    BY <1>0, <1>9, <1>a, <2>1, RolesStay DEF AgentDisposed
<1>10. ASSUME NEW c \in Child, Notice(c) PROVE RolesInv'
  <2>1. \A x \in Child : records'[x].role = records[x].role
    BY <1>0, <1>10 DEF Notice, TypeOK, Record
  <2>2. records[c].role # None /\ rows' = [rows EXCEPT ![c] = Append(@, records[c].role)]
    BY <1>10 DEF Notice, Unannounced
  <2>3. \A x \in Child : \A i \in 1 .. Len(rows'[x]) :
            \/ i \in 1 .. Len(rows[x]) /\ rows'[x][i] = rows[x][i]
            \/ rows'[x][i] = records[x].role /\ records[x].role # None
    <3> TAKE x \in Child
    <3>1. CASE x = c
      <4>1. rows[c] \in Seq(Role) /\ records[c].role \in Role
            /\ rows'[c] = Append(rows[c], records[c].role)
        BY <1>0, <2>2 DEF TypeOK, Record
      <4>2. QED
        BY <2>2, <3>1, <4>1
    <3>2. CASE x # c
      BY <1>0, <2>2, <3>2 DEF TypeOK
    <3>3. QED
      BY <3>1, <3>2
  <2>4. QED
    BY <1>0, <1>10, <2>1, <2>3, RolesStay DEF Notice
<1>11. ASSUME NEW f \in Fiber, Install(f) \/ Dispose(f) PROVE RolesInv'
  <2>1. \A k \in Key : claims'[k].role \in {claims[k].role, None}
    <3>1. claims' = claims \/ claims' = [k \in Key |-> NoClaim]
      BY <1>11 DEF Install, Dispose
    <3>2. QED
      BY <3>1 DEF NoClaim
  <2>2. \A x \in Child : records'[x].role \in {records[x].role, None}
    <3>1. records' = records \/ records' = [c \in Child |-> NoRecord]
      BY <1>11 DEF Install, Dispose
    <3>2. QED
      BY <3>1 DEF NoRecord
  <2>3. QED
    BY <1>0, <1>11, <1>a, <2>1, <2>2, RolesStay DEF Install, Dispose
<1>12. CASE UNCHANGED vars
  BY <1>0, <1>12, <1>a, RolesStay DEF vars
<1>13. QED
  BY <1>1, <1>2, <1>3, <1>4, <1>5, <1>6, <1>7, <1>8, <1>9, <1>10, <1>11, <1>12 DEF Next

\* No role crosses parents or labels: whatever a record or a notice row says of
\* a child was asked for by a call for it, or by one with its parent and label.
THEOREM RolesComeFromCalls == Spec => []RoleIsMeant
<1>1. Init => RolesInv
  BY InitSound DEF Init, RolesInv, ClaimsMeant, RoleIsMeant, NoRecord, NoClaim
<1>2. RolesInv => RoleIsMeant
  BY DEF RolesInv
<1>3. QED
  BY <1>1, <1>2, NextRoles, PTL DEF Spec
-----------------------------------------------------------------------------
\* The mount verdict.

Open == {"starting", "job", "done"}

\* A child the host has created is the child of the call it was created for,
\* and while it is there this call has not failed.
KidsMatch ==
  \A c \in Child : kid[c].state # "absent" =>
     /\ kid[c].by \in Dispatch
     /\ dispatch[kid[c].by].child = c
     /\ kid[c].state # "gone" => dispatch[kid[c].by].pc \in Open

\* A mount is recorded from the start of the call until its child goes, if no
\* other call names this child.
VerdictsHeld ==
  \A d \in Dispatch : dispatch[d].mount =>
     /\ dispatch[d].child \in Child
     /\ (/\ dispatch[d].pc \in Open /\ ~dispatch[d].cut /\ Sole(d)
         /\ kid[dispatch[d].child].state # "gone")
           => records[dispatch[d].child].mounted

MountInv == Inv /\ KidsMatch /\ VerdictsHeld

\* A call that is not the only one for its child never becomes so.
LEMMA SoleBefore ==
  ASSUME Inv, CallsGrow, NEW d \in Dispatch, dispatch[d].child # None, Sole(d)'
  PROVE  Sole(d)
<1> SUFFICES ASSUME NEW e \in Dispatch, dispatch[e].child = dispatch[d].child
             PROVE  e = d
  BY DEF Sole
<1>1. dispatch[d].pc # "idle" /\ dispatch[e].pc # "idle"
  BY DEF Inv, Blank, BlankCall
<1>2. dispatch'[e].child = dispatch'[d].child
  BY <1>1 DEF CallsGrow
<1>3. QED
  BY <1>2 DEF Sole

\* A start touches no record but that of the child it names.
LEMMA MountsStart ==
  ASSUME MountInv, Inv', CallsGrow, NEW d \in Dispatch,
         StartLocal(d) \/ StartExternal(d) \/ StartUnreserved(d) \/ StartThrows(d)
  PROVE  MountInv'
<1>0. Inv /\ TypeOK /\ KidsMatch /\ VerdictsHeld /\ TypeOK'
  BY DEF MountInv, Inv
<1>1. /\ dispatch[d].pc = "idle" /\ dispatch[d].child = None
      /\ \A e \in Dispatch \ {d} : dispatch'[e] = dispatch[e]
      /\ kid' = kid
  BY StartSound DEF MountInv, BlankCall, StartLocal, StartExternal, StartUnreserved, StartThrows
<1>2. PICK c \in Child \union {None} :
         /\ dispatch'[d].child = c
         /\ \A x \in Child \ {c} : records'[x] = records[x]
         /\ dispatch'[d].mount => c # None /\ records'[c].mounted
  <2>1. CASE StartLocal(d)
    <3>1. PICK c \in Child, role \in Role, key \in KeyOf[d], mount \in BOOLEAN :
             /\ records' = Written(records, c, role, mount)
             /\ Correlates(role, key)
             /\ dispatch' = [dispatch EXCEPT ![d] =
                  [Started(role, key) EXCEPT !.child = c, !.reserved = TRUE,
                                                !.local = TRUE, !.mount = mount]]
      BY <2>1, Zenon DEF StartLocal
    <3>2. dispatch'[d].child = c /\ dispatch'[d].mount = mount
      BY <1>0, <3>1 DEF TypeOK, Started, Idle
    <3>3. records'[c].mounted = (mount \/ records[c].mounted)
          /\ \A x \in Child \ {c} : records'[x] = records[x]
      BY <1>0, <3>1 DEF TypeOK, Written
    <3>4. c # None
      BY NoneIsNone
    <3>5. QED
      BY <3>2, <3>3, <3>4
  <2>2. CASE StartExternal(d)
    <3>1. PICK role \in Role, key \in KeyOf[d] :
             dispatch' = [dispatch EXCEPT ![d] = Started(role, key)]
      BY <2>2 DEF StartExternal
    <3>2. dispatch'[d].child = None /\ dispatch'[d].mount = FALSE /\ records' = records
      BY <1>0, <2>2, <3>1 DEF TypeOK, Started, Idle, StartExternal
    <3>3. QED
      BY <3>2
  <2>3. CASE StartUnreserved(d)
    <3>1. PICK c \in Child \union {None}, role \in Role, key \in KeyOf[d] :
             /\ records' = IF c = None THEN records ELSE Deleted(records, c)
             /\ dispatch' = [dispatch EXCEPT ![d] =
                  [Started(role, key) EXCEPT !.child = c, !.local = TRUE]]
      BY <2>3 DEF StartUnreserved
    <3>2. dispatch'[d].child = c /\ dispatch'[d].mount = FALSE
      BY <1>0, <3>1 DEF TypeOK, Started, Idle
    <3>3. \A x \in Child \ {c} : records'[x] = records[x]
      BY <1>0, <3>1 DEF TypeOK, Deleted
    <3>4. QED
      BY <3>2, <3>3
  <2>4. CASE StartThrows(d)
    <3>1. PICK c \in Child \union {None}, role \in Role, key \in KeyOf[d] :
             /\ records' = IF c = None THEN records ELSE Deleted(records, c)
             /\ dispatch' = [dispatch EXCEPT ![d] =
                  [Started(role, key) EXCEPT !.pc = "failed", !.child = c]]
      BY <2>4 DEF StartThrows
    <3>2. dispatch'[d].child = c /\ dispatch'[d].mount = FALSE
      BY <1>0, <3>1 DEF TypeOK, Started, Idle
    <3>3. \A x \in Child \ {c} : records'[x] = records[x]
      BY <1>0, <3>1 DEF TypeOK, Deleted
    <3>4. QED
      BY <3>2, <3>3
  <2>5. QED
    BY <2>1, <2>2, <2>3, <2>4
<1>3. KidsMatch'
  <2>1. \A x \in Child : kid[x].state # "absent" => kid[x].by # d
    BY <1>0, <1>1, NoneIsNone DEF KidsMatch
  <2>2. QED
    BY <1>0, <1>1, <2>1 DEF KidsMatch
<1>4. VerdictsHeld'
  <2> SUFFICES ASSUME NEW e \in Dispatch, dispatch'[e].mount
               PROVE  /\ dispatch'[e].child \in Child
                      /\ (/\ dispatch'[e].pc \in Open /\ ~dispatch'[e].cut /\ Sole(e)'
                          /\ kid'[dispatch'[e].child].state # "gone")
                            => records'[dispatch'[e].child].mounted
    BY DEF VerdictsHeld
  <2>1. CASE e = d
    BY <1>2, <2>1
  <2>2. CASE e # d
    <3>1. dispatch'[e] = dispatch[e] /\ dispatch[e].child \in Child /\ dispatch[e].child # None
      BY <1>0, <1>1, <2>2, NoneIsNone DEF VerdictsHeld
    <3>2. Sole(e)' => Sole(e) /\ c # dispatch[e].child
      BY <1>0, <1>2, <2>2, <3>1, SoleBefore DEF Sole
    <3>3. QED
      BY <1>0, <1>1, <1>2, <3>1, <3>2 DEF VerdictsHeld
  <2>3. QED
    BY <2>1, <2>2
<1>5. QED
  BY <1>3, <1>4 DEF MountInv

\* A step that changes a call's progress only, and no verdict to the worse.
LEMMA MountsStay ==
  ASSUME MountInv, Inv', NEW d \in Dispatch, NEW c \in Child \union {None}, kid' = kid,
         c = dispatch[d].child \/ records' = records,
         \A e \in Dispatch : /\ dispatch'[e].child = dispatch[e].child
                             /\ dispatch'[e].mount = dispatch[e].mount
                             /\ dispatch'[e].cut = dispatch[e].cut
                             /\ e # d => dispatch'[e].pc = dispatch[e].pc,
         dispatch'[d].pc \in Open => dispatch[d].pc \in Open,
         \/ dispatch'[d].pc \in Open
         \/ dispatch[d].pc \notin Open
         \/ \A x \in Child : kid[x].by = d => kid[x].state \in {"absent", "gone"},
         \A x \in Child \ {c} : records[x].mounted => records'[x].mounted,
         records[c].mounted /\ dispatch'[d].pc \in Open => records'[c].mounted
  PROVE  MountInv'
<1>0. Inv /\ TypeOK /\ KidsMatch /\ VerdictsHeld
  BY DEF MountInv, Inv
<1>1. \A e \in Dispatch : Sole(e)' = Sole(e)
  BY DEF Sole
<1>2. KidsMatch'
  BY <1>0 DEF KidsMatch
<1>3. VerdictsHeld'
  <2> SUFFICES ASSUME NEW e \in Dispatch, dispatch[e].mount
               PROVE  /\ dispatch[e].child \in Child
                      /\ (/\ dispatch'[e].pc \in Open /\ ~dispatch[e].cut /\ Sole(e)
                          /\ kid[dispatch[e].child].state # "gone")
                            => records'[dispatch[e].child].mounted
    BY <1>1 DEF VerdictsHeld
  <2>1. dispatch[e].child \in Child /\ dispatch[e].child # None
    BY <1>0, NoneIsNone DEF VerdictsHeld
  <2>2. (/\ dispatch'[e].pc \in Open /\ ~dispatch[e].cut /\ Sole(e)
         /\ kid[dispatch[e].child].state # "gone") => records[dispatch[e].child].mounted
    BY <1>0 DEF VerdictsHeld
  <2>3. CASE e = d
    BY <2>1, <2>2, <2>3
  <2>4. CASE e # d
    <3>1. Sole(e) => dispatch[e].child # dispatch[d].child
      BY <2>4 DEF Sole
    <3>2. QED
      BY <2>1, <2>2, <3>1
  <2>5. QED
    BY <2>3, <2>4
<1>4. QED
  BY <1>2, <1>3 DEF MountInv

\* Every step keeps the verdicts.
LEMMA NextMounts == MountInv /\ [Next]_vars => MountInv'
<1> SUFFICES ASSUME MountInv, [Next]_vars PROVE MountInv'
  OBVIOUS
<1>0. Inv /\ TypeOK /\ Inv' /\ CallsGrow /\ KidsMatch /\ VerdictsHeld
  BY NextSound DEF MountInv, Inv
<1>1. ASSUME NEW d \in Dispatch,
             StartLocal(d) \/ StartExternal(d) \/ StartUnreserved(d) \/ StartThrows(d)
      PROVE  MountInv'
  BY <1>0, <1>1, MountsStart
<1>2. ASSUME NEW d \in Dispatch, HostCreates(d) PROVE MountInv'
  <2>1. PICK c \in Child :
           /\ IF dispatch[d].child # None
              THEN c = dispatch[d].child /\ kid[c].state \in {"absent", "gone"}
              ELSE ~Named(c) /\ kid[c].state = "absent"
           /\ kid' = [kid EXCEPT ![c] =
                [state |-> IF dispatch[d].local THEN "alive" ELSE "remote", by |-> d]]
           /\ dispatch' = [dispatch EXCEPT ![d].child = c]
    BY <1>2 DEF HostCreates
  <2>2. /\ dispatch'[d].child = c /\ dispatch'[d].pc = dispatch[d].pc
        /\ dispatch'[d].mount = dispatch[d].mount /\ dispatch'[d].cut = dispatch[d].cut
        /\ \A e \in Dispatch \ {d} : dispatch'[e] = dispatch[e]
        /\ dispatch[d].pc \in Open /\ records' = records
    BY <1>0, <1>2, <2>1 DEF TypeOK, HostCreates, Open
  <2>3. kid'[c].by = d /\ kid'[c].state # "absent" /\ \A x \in Child \ {c} : kid'[x] = kid[x]
    BY <1>0, <2>1 DEF TypeOK
  <2>4. KidsMatch'
    <3>1. \A x \in Child \ {c} : (kid[x].state # "absent") => kid[x].by # d
      <4> SUFFICES ASSUME NEW x \in Child \ {c}, kid[x].state # "absent", kid[x].by = d
                   PROVE  FALSE
        OBVIOUS
      <4>1. dispatch[d].child = x
        BY <1>0 DEF KidsMatch
      <4>2. QED
        BY <2>1, <4>1, NoneIsNone
    <3>2. QED
      BY <1>0, <2>2, <2>3, <3>1 DEF KidsMatch
  <2>5. VerdictsHeld'
    <3> SUFFICES ASSUME NEW e \in Dispatch, dispatch'[e].mount
                 PROVE  /\ dispatch'[e].child \in Child
                        /\ (/\ dispatch'[e].pc \in Open /\ ~dispatch'[e].cut /\ Sole(e)'
                            /\ kid'[dispatch'[e].child].state # "gone")
                              => records'[dispatch'[e].child].mounted
      BY DEF VerdictsHeld
    <3>1. dispatch[e].mount /\ dispatch[e].child \in Child /\ dispatch[e].child # None
      BY <1>0, <2>2, NoneIsNone DEF VerdictsHeld
    <3>2. Sole(e)' => Sole(e)
      BY <1>0, <3>1, SoleBefore
    <3>3. CASE e = d
      <4>1. dispatch[d].child = c /\ kid[c].by # d /\ kid[c].state \in {"absent", "gone"}
        BY <1>2, <2>1, <3>1, <3>3 DEF HostCreates
      <4>2. Sole(d) => kid[c].state # "gone"
        BY <1>0, <4>1 DEF KidsMatch, Sole
      <4>3. QED
        BY <1>0, <2>2, <3>1, <3>2, <3>3, <4>1, <4>2 DEF VerdictsHeld
    <3>4. CASE e # d
      <4>1. Sole(e)' => dispatch[e].child # c
        BY <2>2, <3>4 DEF Sole
      <4>2. QED
        BY <1>0, <2>2, <2>3, <3>1, <3>2, <3>4, <4>1 DEF VerdictsHeld
    <3>5. QED
      BY <3>3, <3>4
  <2>6. QED
    BY <1>0, <2>4, <2>5 DEF MountInv
<1>3. ASSUME NEW d \in Dispatch, Catalogued(d) \/ ResolvesWithChild(d) PROVE MountInv'
  <2>1. PICK c \in Child : c = dispatch[d].child
    BY <1>0, <1>3 DEF Catalogued, ResolvesWithChild, Created, TypeOK, Call
  <2>2. /\ \A e \in Dispatch : /\ dispatch'[e].child = dispatch[e].child
                               /\ dispatch'[e].mount = dispatch[e].mount
                               /\ dispatch'[e].cut = dispatch[e].cut
                               /\ e # d => dispatch'[e].pc = dispatch[e].pc
        /\ (dispatch'[d].pc \in Open) <=> (dispatch[d].pc \in Open)
        /\ kid' = kid
    <3>1. CASE Catalogued(d)
      BY <1>0, <3>1 DEF Catalogued, TypeOK
    <3>2. CASE ResolvesWithChild(d)
      BY <1>0, <3>2 DEF ResolvesWithChild, TypeOK, Open
    <3>3. QED
      BY <1>3, <3>1, <3>2
  <2>3. \A x \in Child : records[x].mounted => records'[x].mounted
    <3>1. \A role : \A x \in Child :
            records[x].mounted => Written(records, c, role, FALSE)[x].mounted
      BY <1>0 DEF Written, TypeOK
    <3>2. records' = records \/ \E role : records' = Written(records, c, role, FALSE)
      BY <1>3, <2>1 DEF Catalogued, ResolvesWithChild
    <3>3. QED
      BY <3>1, <3>2
  <2>4. QED
    BY <1>0, <2>1, <2>2, <2>3, MountsStay
<1>4. ASSUME NEW d \in Dispatch, ResolvesWithJob(d) PROVE MountInv'
  <2>1. /\ \A e \in Dispatch : /\ dispatch'[e].child = dispatch[e].child
                               /\ dispatch'[e].mount = dispatch[e].mount
                               /\ dispatch'[e].cut = dispatch[e].cut
                               /\ e # d => dispatch'[e].pc = dispatch[e].pc
        /\ dispatch'[d].pc \in Open /\ dispatch[d].pc \in Open
        /\ kid' = kid /\ records' = records
    BY <1>0, <1>4 DEF ResolvesWithJob, TypeOK, Open
  <2>2. QED
    BY <1>0, <2>1, MountsStay
<1>5. ASSUME NEW d \in Dispatch, Rejects(d) PROVE MountInv'
  <2>1. /\ \A e \in Dispatch : /\ dispatch'[e].child = dispatch[e].child
                               /\ dispatch'[e].mount = dispatch[e].mount
                               /\ dispatch'[e].cut = dispatch[e].cut
                               /\ e # d => dispatch'[e].pc = dispatch[e].pc
        /\ dispatch'[d].pc = "failed" /\ kid' = kid
        /\ dispatch[d].child \in Child \union {None}
    BY <1>0, <1>5 DEF Rejects, TypeOK, Call
  <2>2. \A x \in Child : kid[x].by = d => kid[x].state \in {"absent", "gone"}
    BY <1>0, <1>5, NoneIsNone DEF Rejects, Created, KidsMatch
  <2>3. \A x \in Child \ {dispatch[d].child} : records'[x] = records[x]
    BY <1>0, <1>5 DEF Rejects, RolledBack, Deleted, TypeOK
  <2>4. "failed" \notin Open
    BY DEF Open
  <2>5. QED
    BY <1>0, <2>1, <2>2, <2>3, <2>4, MountsStay
<1>6. ASSUME NEW c \in Child, AgentDisposed(c) PROVE MountInv'
  <2>1. /\ dispatch' = dispatch /\ \A x \in Child \ {c} : records'[x] = records[x]
        /\ kid'[c].state = "gone" /\ \A x \in Child : kid'[x].by = kid[x].by
        /\ kid[c].state = "alive" /\ \A x \in Child \ {c} : kid'[x] = kid[x]
    BY <1>0, <1>6 DEF AgentDisposed, Deleted, TypeOK, Kid
  <2>2. QED
    BY <1>0, <2>1 DEF MountInv, KidsMatch, VerdictsHeld, Sole
<1>7. ASSUME NEW c \in Child, Notice(c) PROVE MountInv'
  <2>1. /\ dispatch' = dispatch /\ kid' = kid
        /\ \A x \in Child : records'[x].mounted = records[x].mounted
    BY <1>0, <1>7 DEF Notice, TypeOK, Record
  <2>2. QED
    BY <1>0, <2>1 DEF MountInv, KidsMatch, VerdictsHeld, Sole
<1>8. ASSUME NEW f \in Fiber, Install(f) PROVE MountInv'
  BY <1>0, <1>8 DEF Install, MountInv, KidsMatch, VerdictsHeld, Sole
<1>9. ASSUME NEW f \in Fiber, Dispose(f) PROVE MountInv'
  <2>1. \A d \in Dispatch : /\ dispatch'[d].pc = dispatch[d].pc
                            /\ dispatch'[d].child = dispatch[d].child
                            /\ dispatch'[d].mount = dispatch[d].mount
    BY <1>0, <1>9, FiberSound
  <2>2. \A d \in Dispatch : ~dispatch'[d].cut /\ dispatch[d].pc # "idle" => ~dispatch[d].cut /\ fibers # {f}
    <3> SUFFICES ASSUME NEW d \in Dispatch, ~dispatch'[d].cut, dispatch[d].pc # "idle"
                 PROVE  ~dispatch[d].cut /\ fibers # {f}
      OBVIOUS
    <3> DEFINE x == dispatch[d]
               cut == x.cut \/ (fibers = {f} /\ x.pc # "idle")
    <3>1. dispatch'[d] = [x EXCEPT !.live = x.live /\ owner # f, !.cut = cut]
      BY <1>9 DEF Dispose
    <3>2. x \in Call
      BY <1>0 DEF TypeOK
    <3> HIDE DEF x, cut
    <3>3. dispatch'[d].cut = cut
      BY <3>1, <3>2 DEF Call
    <3>4. QED
      BY <3>3 DEF cut, x
  <2>3. kid' = kid /\ (fibers # {f} => records' = records)
    BY <1>9 DEF Dispose, IsLast
  <2>4. "idle" \notin Open
    BY DEF Open
  <2>5. \A d \in Dispatch : Sole(d)' = Sole(d)
    BY <2>1 DEF Sole
  <2>6. QED
    BY <1>0, <2>1, <2>2, <2>3, <2>4, <2>5 DEF MountInv, KidsMatch, VerdictsHeld
<1>10. CASE UNCHANGED vars
  BY <1>0, <1>10 DEF vars, MountInv, KidsMatch, VerdictsHeld, Sole
<1>11. QED
  BY <1>1, <1>2, <1>3, <1>4, <1>5, <1>6, <1>7, <1>8, <1>9, <1>10 DEF Next

\* A living child that was mounted, and that no other call names, has its verdict
\* until the last fiber goes, whatever the other calls and fibers do.
THEOREM MountsAreKept == Spec => []MountVerdictKept
<1>1. Init => MountInv
  BY InitSound DEF Init, MountInv, KidsMatch, VerdictsHeld, Idle
<1>2. MountInv => MountVerdictKept
  <2> SUFFICES ASSUME MountInv, NEW c \in Child, Mounted(c), Sole(kid[c].by),
                      ~dispatch[kid[c].by].cut
               PROVE  records[c].mounted
    BY DEF MountVerdictKept
  <2>1. /\ kid[c].by \in Dispatch /\ dispatch[kid[c].by].child = c
        /\ dispatch[kid[c].by].pc \in Open /\ kid[c].state = "alive"
        /\ dispatch[kid[c].by].mount
    BY DEF MountInv, KidsMatch, Mounted
  <2>2. QED
    BY <2>1 DEF MountInv, VerdictsHeld
<1>3. QED
  BY <1>1, <1>2, NextMounts, PTL DEF Spec
-----------------------------------------------------------------------------
\* Whose a record is.

\* A call backs the record of its child: its reservation stands, or the child is its own.
Recorded(d, c) ==
  /\ dispatch[d].child = c
  /\ (dispatch[d].reserved /\ dispatch[d].pc \in Open) \/ kid[c].by = d
RecordsBacked ==
  \A c \in Child : records[c].role # None => \E d \in Dispatch : Recorded(d, c)

OrphanInv == Inv /\ RecordsBacked

\* A record that is there after a step is backed, if a call that backed it still does or
\* the step gives it one.
LEMMA BackingStays ==
  ASSUME RecordsBacked, Inv',
         \A c \in Child : records'[c].role # None =>
           \/ \E d \in Dispatch : Recorded(d, c)'
           \/ /\ records[c].role # None
              /\ \A d \in Dispatch : Recorded(d, c) => Recorded(d, c)'
  PROVE  OrphanInv'
<1>1. ASSUME NEW c \in Child, records'[c].role # None
      PROVE  \E d \in Dispatch : Recorded(d, c)'
  BY <1>1 DEF RecordsBacked
<1>2. QED
  BY <1>1 DEF OrphanInv, RecordsBacked

\* A start backs what it writes, and what it takes back is gone.
LEMMA RecordsStart ==
  ASSUME OrphanInv, Inv', NEW d \in Dispatch,
         StartLocal(d) \/ StartExternal(d) \/ StartUnreserved(d) \/ StartThrows(d)
  PROVE  OrphanInv'
<1>0. Inv /\ TypeOK /\ RecordsBacked /\ TypeOK'
  BY DEF OrphanInv, Inv
<1>1. /\ dispatch[d].pc = "idle" /\ dispatch[d].child = None
      /\ \A e \in Dispatch \ {d} : dispatch'[e] = dispatch[e]
      /\ kid' = kid
  BY <1>0, StartSound DEF Inv, Blank, BlankCall, StartLocal, StartExternal, StartUnreserved, StartThrows
<1>2. PICK c \in Child \union {None} :
         /\ \A x \in Child \ {c} : records'[x] = records[x]
         /\ c # None /\ records'[c].role # None =>
              dispatch'[d].child = c /\ dispatch'[d].reserved /\ dispatch'[d].pc = "starting"
  <2>1. CASE StartLocal(d)
    <3>1. PICK c \in Child, role \in Role, key \in KeyOf[d], mount \in BOOLEAN :
             /\ records' = Written(records, c, role, mount)
             /\ Correlates(role, key)
             /\ dispatch' = [dispatch EXCEPT ![d] =
                  [Started(role, key) EXCEPT !.child = c, !.reserved = TRUE,
                                                !.local = TRUE, !.mount = mount]]
      BY <2>1, Zenon DEF StartLocal
    <3>2. dispatch'[d].child = c /\ dispatch'[d].reserved /\ dispatch'[d].pc = "starting"
      BY <1>0, <3>1 DEF TypeOK, Started, Idle
    <3>3. \A x \in Child \ {c} : records'[x] = records[x]
      BY <1>0, <3>1 DEF TypeOK, Written
    <3>4. QED
      BY <3>2, <3>3
  <2>2. CASE StartExternal(d)
    BY <2>2 DEF StartExternal
  <2>3. CASE StartUnreserved(d) \/ StartThrows(d)
    <3>1. PICK c \in Child \union {None} :
             records' = IF c = None THEN records ELSE Deleted(records, c)
      BY <2>3 DEF StartUnreserved, StartThrows
    <3>2. /\ \A x \in Child \ {c} : records'[x] = records[x]
          /\ c # None => records'[c].role = None
      BY <1>0, <3>1 DEF TypeOK, Deleted, NoRecord
    <3>3. QED
      BY <3>2
  <2>4. QED
    BY <2>1, <2>2, <2>3
<1>3. ASSUME NEW x \in Child, records'[x].role # None
      PROVE  \/ \E e \in Dispatch : Recorded(e, x)'
             \/ /\ records[x].role # None
                /\ \A e \in Dispatch : Recorded(e, x) => Recorded(e, x)'
  <2>1. CASE x = c
    BY <1>2, <1>3, <2>1, NoneIsNone DEF Recorded, Open
  <2>2. CASE x # c
    BY <1>1, <1>2, <1>3, <2>2, NoneIsNone DEF Recorded
  <2>3. QED
    BY <2>1, <2>2
<1>4. QED
  BY <1>0, <1>3, BackingStays

\* Every step keeps each record with a call of its child.
LEMMA NextRecords == OrphanInv /\ [Next]_vars => OrphanInv'
<1> SUFFICES ASSUME OrphanInv, [Next]_vars PROVE OrphanInv'
  OBVIOUS
<1>0. Inv /\ TypeOK /\ Blank /\ Inv' /\ RecordsBacked
  BY NextSound DEF OrphanInv, Inv
<1>1. ASSUME NEW d \in Dispatch,
             StartLocal(d) \/ StartExternal(d) \/ StartUnreserved(d) \/ StartThrows(d)
      PROVE  OrphanInv'
  BY <1>0, <1>1, RecordsStart
<1>2. ASSUME NEW d \in Dispatch, HostCreates(d) PROVE OrphanInv'
  <2>1. PICK c \in Child :
           /\ dispatch[d].child # None => c = dispatch[d].child
           /\ kid' = [kid EXCEPT ![c] =
                [state |-> IF dispatch[d].local THEN "alive" ELSE "remote", by |-> d]]
           /\ dispatch' = [dispatch EXCEPT ![d].child = c]
    BY <1>2 DEF HostCreates
  <2>2. /\ dispatch'[d].child = c /\ dispatch'[d].pc = dispatch[d].pc
        /\ dispatch'[d].reserved = dispatch[d].reserved
        /\ \A e \in Dispatch \ {d} : dispatch'[e] = dispatch[e]
    BY <1>0, <2>1 DEF TypeOK
  <2>3. kid'[c].by = d /\ \A x \in Child \ {c} : kid'[x] = kid[x]
    BY <1>0, <2>1 DEF TypeOK
  <2>4. Recorded(d, c)'
    BY <2>2, <2>3 DEF Recorded
  <2>5. ASSUME NEW x \in Child, x # c, NEW e \in Dispatch, Recorded(e, x)
        PROVE  Recorded(e, x)'
    <3>1. e # d
      BY <2>1, <2>5, NoneIsNone DEF Recorded
    <3>2. QED
      BY <2>2, <2>3, <2>5, <3>1 DEF Recorded
  <2>6. records' = records
    BY <1>2 DEF HostCreates
  <2>7. QED
    BY <1>0, <2>4, <2>5, <2>6, BackingStays
<1>3. ASSUME NEW d \in Dispatch, Catalogued(d) \/ ResolvesWithChild(d) PROVE OrphanInv'
  <2>1. PICK c \in Child : c = dispatch[d].child /\ kid[c].by = d
    BY <1>0, <1>3 DEF Catalogued, ResolvesWithChild, Created, TypeOK, Call
  <2>2. /\ \A e \in Dispatch : /\ dispatch'[e].child = dispatch[e].child
                               /\ dispatch'[e].reserved = dispatch[e].reserved
                               /\ dispatch[e].pc \in Open => dispatch'[e].pc \in Open
        /\ kid' = kid
    <3>1. CASE Catalogued(d)
      BY <1>0, <3>1 DEF Catalogued, TypeOK
    <3>2. CASE ResolvesWithChild(d)
      BY <1>0, <3>2 DEF ResolvesWithChild, TypeOK, Open
    <3>3. QED
      BY <1>3, <3>1, <3>2
  <2>3. \A e \in Dispatch, x \in Child : Recorded(e, x) => Recorded(e, x)'
    BY <2>2 DEF Recorded
  <2>4. Recorded(d, c)'
    BY <2>1, <2>2 DEF Recorded
  <2>5. \A x \in Child \ {c} : records'[x] = records[x]
    <3>1. \A role : \A x \in Child \ {c} : Written(records, c, role, FALSE)[x] = records[x]
      BY <1>0 DEF Written, TypeOK
    <3>2. records' = records \/ \E role : records' = Written(records, c, role, FALSE)
      BY <1>3, <2>1 DEF Catalogued, ResolvesWithChild
    <3>3. QED
      BY <3>1, <3>2
  <2>6. QED
    BY <1>0, <2>3, <2>4, <2>5, BackingStays
<1>4. ASSUME NEW d \in Dispatch, ResolvesWithJob(d) PROVE OrphanInv'
  <2>1. /\ \A e \in Dispatch : /\ dispatch'[e].child = dispatch[e].child
                               /\ dispatch'[e].reserved = dispatch[e].reserved
                               /\ dispatch[e].pc \in Open => dispatch'[e].pc \in Open
        /\ kid' = kid /\ records' = records
    BY <1>0, <1>4 DEF ResolvesWithJob, TypeOK, Open
  <2>2. \A e \in Dispatch, x \in Child : Recorded(e, x) => Recorded(e, x)'
    BY <2>1 DEF Recorded
  <2>3. QED
    BY <1>0, <2>1, <2>2, BackingStays
<1>5. ASSUME NEW d \in Dispatch, Rejects(d) PROVE OrphanInv'
  <2>1. /\ \A e \in Dispatch : /\ dispatch'[e].child = dispatch[e].child
                               /\ dispatch'[e].reserved = dispatch[e].reserved
                               /\ e # d => dispatch'[e].pc = dispatch[e].pc
        /\ kid' = kid /\ records' = RolledBack(d)
    BY <1>0, <1>5 DEF Rejects, TypeOK
  <2>2. ASSUME NEW x \in Child, records'[x].role # None
        PROVE  /\ records[x].role # None
               /\ \A e \in Dispatch : Recorded(e, x) => Recorded(e, x)'
    <3>1. /\ records'[x] = records[x]
          /\ dispatch[d].reserved => x # dispatch[d].child
      BY <1>0, <2>1, <2>2 DEF RolledBack, Deleted, NoRecord, TypeOK
    <3>2. QED
      BY <2>1, <2>2, <3>1 DEF Recorded
  <2>3. QED
    BY <1>0, <2>2, BackingStays
<1>6. ASSUME NEW c \in Child, AgentDisposed(c) PROVE OrphanInv'
  <2>1. /\ dispatch' = dispatch /\ \A x \in Child : kid'[x].by = kid[x].by
        /\ \A x \in Child : records'[x].role # None => records'[x] = records[x]
    BY <1>0, <1>6 DEF AgentDisposed, Deleted, NoRecord, TypeOK, Kid
  <2>2. \A e \in Dispatch, x \in Child : Recorded(e, x) => Recorded(e, x)'
    BY <2>1 DEF Recorded
  <2>3. QED
    BY <1>0, <2>1, <2>2, BackingStays
<1>7. ASSUME NEW c \in Child, Notice(c) PROVE OrphanInv'
  <2>1. /\ dispatch' = dispatch /\ kid' = kid
        /\ \A x \in Child : records'[x].role = records[x].role
    BY <1>0, <1>7 DEF Notice, TypeOK, Record
  <2>2. \A e \in Dispatch, x \in Child : Recorded(e, x) => Recorded(e, x)'
    BY <2>1 DEF Recorded
  <2>3. QED
    BY <1>0, <2>1, <2>2, BackingStays
<1>8. ASSUME NEW f \in Fiber, Install(f) \/ Dispose(f) PROVE OrphanInv'
  <2>1. \A d \in Dispatch : /\ dispatch'[d].pc = dispatch[d].pc
                            /\ dispatch'[d].child = dispatch[d].child
                            /\ dispatch'[d].reserved = dispatch[d].reserved
    <3>1. CASE Install(f)
      BY <3>1 DEF Install
    <3>2. CASE Dispose(f)
      BY <1>0, <3>2 DEF Dispose, TypeOK, Call
    <3>3. QED
      BY <1>8, <3>1, <3>2
  <2>2. kid' = kid /\ \A x \in Child : records'[x].role # None => records'[x] = records[x]
    <3>1. records' = records \/ records' = [x \in Child |-> NoRecord]
      BY <1>8 DEF Install, Dispose
    <3>2. NoRecord.role = None
      BY DEF NoRecord
    <3>3. kid' = kid
      BY <1>8 DEF Install, Dispose
    <3>4. QED
      BY <3>1, <3>2, <3>3
  <2>3. \A e \in Dispatch, x \in Child : Recorded(e, x) => Recorded(e, x)'
    BY <2>1, <2>2 DEF Recorded
  <2>4. QED
    BY <1>0, <2>2, <2>3, BackingStays
<1>9. CASE UNCHANGED vars
  BY <1>0, <1>9 DEF vars, OrphanInv, RecordsBacked, Recorded
<1>10. QED
  BY <1>1, <1>2, <1>3, <1>4, <1>5, <1>6, <1>7, <1>8, <1>9 DEF Next

\* No record is left of a start that failed, and none is written for a child nobody
\* started: every record is of a call under way for its child, or that created it.
THEOREM RecordsHaveTheirCall == Spec => []NoOrphanRecord
<1>1. Init => OrphanInv
  BY InitSound DEF Init, OrphanInv, RecordsBacked, NoRecord
<1>2. OrphanInv => NoOrphanRecord
  <2> SUFFICES ASSUME OrphanInv, NEW c \in Child, records[c].role # None
               PROVE  \E d \in Dispatch :
                        /\ dispatch[d].child = c
                        /\ dispatch[d].pc \in {"starting", "job", "done"} \/ Created(d)
    BY DEF NoOrphanRecord
  <2>1. PICK d \in Dispatch : Recorded(d, c)
    BY DEF OrphanInv, RecordsBacked
  <2>2. QED
    BY <2>1, NoneIsNone DEF Recorded, Created, Open
<1>3. QED
  BY <1>1, <1>2, NextRecords, PTL DEF Spec
=============================================================================
