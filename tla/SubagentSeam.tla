---------------------------- MODULE SubagentSeam ----------------------------
(***************************************************************************)
(* The dispatch seam of subagents-seam.ts: every role-tagged start of a    *)
(* subagent passes a wrapper, which records the child's role and whether   *)
(* the child is mounted on the virtual route.  The walk reads both from    *)
(* the record, and the role notice (role-notice.ts) announces the role     *)
(* once in the child's session.                                            *)
(*                                                                         *)
(* A start runs without interruption up to the return of the native call;  *)
(* the native runtime, which is the host's, then creates the child, puts   *)
(* it into the parent's catalog, and resolves or rejects the promise, in   *)
(* any order it likes.  Records and notice marks are shared by all plugin  *)
(* fibers of one root; the wrapper and its claims belong to one of them.   *)
(*                                                                         *)
(* Left out: what the persona listener adds to a record, the diagnostics   *)
(* map of chain heads, and starts without a role, which the wrapper does   *)
(* not touch.  A start without a header takes its role from the record of  *)
(* the child it names: one of the roles a header could have named.         *)
(***************************************************************************)
EXTENDS Integers, Sequences, FiniteSets

CONSTANTS
  Role, Child,   \* declared roles, session ids of children
  Dispatch,      \* calls of startActivation, each made at most once
  Key,           \* parent session and label, the join key of a claim
  Fiber,         \* applied instances of the plugin over one root
  None,
  KeyOf,         \* the keys a call may carry, None among them or not
  JobResults,    \* results may carry a job id and no child id
  PendingLimit,  \* PENDING_CORRELATION_LIMIT
  EmittedLimit   \* NOTICE_EMITTED_LIMIT

ASSUME SeamAssumption ==
  /\ None \notin Role \union Child \union Key \union Fiber \union Dispatch
  /\ KeyOf \in [Dispatch -> SUBSET (Key \union {None})]
  /\ JobResults \in BOOLEAN
  /\ PendingLimit \in Nat \ {0} /\ EmittedLimit \in Nat \ {0}

Record == [role : Role \union {None}, pending : BOOLEAN, mounted : BOOLEAN]
NoRecord == [role |-> None, pending |-> TRUE, mounted |-> FALSE]
Claim  == [role : Role \union {None}, at : Nat]
NoClaim == [role |-> None, at |-> 0]

VARIABLES
  records,   \* SubagentSeamRecord per child, NoRecord when there is none
  claims,    \* the owner's pending correlations
  claimed,   \* claims made so far: a later one has a larger `at`
  emitted,   \* children announced, oldest first
  fibers,    \* applied fibers
  owner,     \* the fiber that owns wrapper and catalog listener
  dispatch,  \* the calls of startActivation
  kid,       \* what the host did to a child, and for which call
  rows,      \* history: the roles announced in the child's session
  forgotten  \* history: children whose mark was evicted or cleared

vars == <<records, claims, claimed, emitted, fibers, owner, dispatch, kid,
          rows, forgotten>>

Idle == [pc |-> "idle", child |-> None, reserved |-> FALSE, local |-> FALSE,
         role |-> None, key |-> None, live |-> FALSE, mount |-> FALSE,
         listed |-> FALSE, cut |-> FALSE]
(***************************************************************************)
(* reserved: the child's id was written before the native call.  live: the *)
(* claim's map is the present owner's.  listed: the catalog event has      *)
(* been emitted.  cut is history: the last fiber went after the start.     *)
(***************************************************************************)
Call == [pc : {"idle", "starting", "job", "done", "failed"},
         child : Child \union {None}, reserved : BOOLEAN, local : BOOLEAN,
         role : Role \union {None}, key : Key \union {None}, live : BOOLEAN,
         mount : BOOLEAN, listed : BOOLEAN, cut : BOOLEAN]
Kid == [state : {"absent", "alive", "remote", "gone"}, by : Dispatch \union {None}]

TypeOK ==
  /\ records \in [Child -> Record]
  /\ claims \in [Key -> Claim] /\ claimed \in Nat
  /\ emitted \in Seq(Child) /\ Len(emitted) <= EmittedLimit
  /\ fibers \subseteq Fiber /\ owner \in fibers \union {None}
  /\ dispatch \in [Dispatch -> Call]
  /\ kid \in [Child -> Kid]
  /\ rows \in [Child -> Seq(Role)]
  /\ forgotten \subseteq Child

Init ==
  /\ records = [c \in Child |-> NoRecord]
  /\ claims = [k \in Key |-> NoClaim]
  /\ claimed = 0
  /\ emitted = <<>>
  /\ fibers = {} /\ owner = None
  /\ dispatch = [d \in Dispatch |-> Idle]
  /\ kid = [c \in Child |-> [state |-> "absent", by |-> None]]
  /\ rows = [c \in Child |-> <<>>]
  /\ forgotten = {}

-----------------------------------------------------------------------------
\* The bookkeeping.

\* Mutant: a rewrite carries only its own verdict.
WrittenAnew(recs, c, role, mounted) ==
  [recs EXCEPT ![c] = [role |-> role, pending |-> TRUE, mounted |-> mounted]]

\* recordChild: a rewrite keeps a cleared notice marker and every verdict.
Written(recs, c, role, mounted) ==
  [recs EXCEPT ![c] = [role |-> role, pending |-> recs[c].pending,
                       mounted |-> mounted \/ recs[c].mounted]]

Deleted(recs, c) == [recs EXCEPT ![c] = NoRecord]

HeldKeys == {k \in Key : claims[k] # NoClaim}
Stalest == CHOOSE k \in HeldKeys : \A l \in HeldKeys : claims[k].at <= claims[l].at
Full == Cardinality(HeldKeys) >= PendingLimit

(***************************************************************************)
(* beginCorrelation: at the limit the least recent claim makes room; a     *)
(* claim under a key that has one replaces it and becomes the most recent. *)
(***************************************************************************)
Claimed(key, role) ==
  IF key = None THEN claims
  ELSE LET room == IF claims[key] = NoClaim /\ Full
                   THEN [claims EXCEPT ![Stalest] = NoClaim] ELSE claims
       IN  [room EXCEPT ![key] = [role |-> role, at |-> claimed + 1]]

\* endCorrelation, on the map of the owner the call started under.
Ended(d) == IF dispatch[d].key = None \/ ~dispatch[d].live THEN claims
            ELSE [claims EXCEPT ![dispatch[d].key] = NoClaim]

-----------------------------------------------------------------------------
\* Start.

Named(c) == \E d \in Dispatch : dispatch[d].child = c

Started(role, key) ==
  [Idle EXCEPT !.pc = "starting", !.role = role, !.key = key, !.live = TRUE]

\* What every start does with the claim.
Correlates(role, key) ==
  /\ claims' = Claimed(key, role)
  /\ claimed' = claimed + 1

(***************************************************************************)
(* A local backend: the id is reserved and the record written before the   *)
(* native call; mount is the decision of injectRoute.                      *)
(***************************************************************************)
StartLocal(d) ==
  /\ dispatch[d].pc = "idle"
  /\ owner # None
  /\ \E c \in Child, role \in Role, key \in KeyOf[d], mount \in BOOLEAN :
        /\ records' = Written(records, c, role, mount)
        /\ Correlates(role, key)
        /\ dispatch' = [dispatch EXCEPT ![d] =
             [Started(role, key) EXCEPT !.child = c, !.reserved = TRUE,
                                           !.local = TRUE, !.mount = mount]]
  /\ UNCHANGED <<emitted, fibers, owner, kid, rows, forgotten>>

\* An external backend mints its own id: nothing to record yet.
StartExternal(d) ==
  /\ dispatch[d].pc = "idle"
  /\ owner # None
  /\ \E role \in Role, key \in KeyOf[d] :
        /\ Correlates(role, key)
        /\ dispatch' = [dispatch EXCEPT ![d] = Started(role, key)]
  /\ UNCHANGED <<records, emitted, fibers, owner, kid, rows, forgotten>>

(***************************************************************************)
(* The reservation itself throws: nothing stays written under the id, and  *)
(* the native runtime is called with the caller's own spec, which names a  *)
(* child or leaves the id to the runtime.                                  *)
(***************************************************************************)
StartUnreserved(d) ==
  /\ dispatch[d].pc = "idle"
  /\ owner # None
  /\ \E c \in Child \union {None}, role \in Role, key \in KeyOf[d] :
        /\ records' = IF c = None THEN records ELSE Deleted(records, c)
        /\ Correlates(role, key)
        /\ dispatch' = [dispatch EXCEPT ![d] =
             [Started(role, key) EXCEPT !.child = c, !.local = TRUE]]
  /\ UNCHANGED <<emitted, fibers, owner, kid, rows, forgotten>>

(***************************************************************************)
(* The native call throws before it returns: claim and reservation are     *)
(* made and rolled back.  An eviction the claim caused stays.              *)
(***************************************************************************)
StartThrows(d) ==
  /\ dispatch[d].pc = "idle"
  /\ owner # None
  /\ \E c \in Child \union {None}, role \in Role, key \in KeyOf[d] :
        /\ records' = IF c = None THEN records ELSE Deleted(records, c)
        /\ claims' = IF key = None THEN claims
                     ELSE [Claimed(key, role) EXCEPT ![key] = NoClaim]
        /\ claimed' = claimed + 1
        /\ dispatch' = [dispatch EXCEPT ![d] =
             [Started(role, key) EXCEPT !.pc = "failed", !.child = c]]
  /\ UNCHANGED <<emitted, fibers, owner, kid, rows, forgotten>>

-----------------------------------------------------------------------------
\* The host and the results.

Created(d) == dispatch[d].child # None /\ kid[dispatch[d].child].by = d

(***************************************************************************)
(* The runtime creates the child: under the id it was given, if no living  *)
(* child has it (DUPLICATE_CHILD), or under a new one.  An external child  *)
(* is no agent of this host.                                               *)
(***************************************************************************)
HostCreates(d) ==
  /\ dispatch[d].pc \in {"starting", "job"}
  /\ \/ dispatch[d].child # None /\ kid[dispatch[d].child].by # d
     \/ dispatch[d].child = None
  /\ \E c \in Child :
        /\ IF dispatch[d].child # None
           THEN c = dispatch[d].child /\ kid[c].state \in {"absent", "gone"}
           ELSE ~Named(c) /\ kid[c].state = "absent"
        /\ kid' = [kid EXCEPT ![c] =
             [state |-> IF dispatch[d].local THEN "alive" ELSE "remote", by |-> d]]
        /\ dispatch' = [dispatch EXCEPT ![d].child = c]
  /\ UNCHANGED <<records, claims, claimed, emitted, fibers, owner, rows, forgotten>>

\* Mutant: the event is joined on the label alone.
AnyClaim(d) == IF HeldKeys = {} THEN NoClaim ELSE claims[Stalest]

\* The claim a catalog event finds.
ClaimFor(d) == claims[dispatch[d].key]

(***************************************************************************)
(* The parent's subagent/catalog event: the claim under its key, whoever   *)
(* made it, is consumed by the child the event names.  Without an owner    *)
(* nobody listens.                                                         *)
(***************************************************************************)
Catalogued(d) ==
  LET c == dispatch[d].child
      k == dispatch[d].key
  IN  /\ Created(d)
      /\ k # None
      /\ ~dispatch[d].listed
      /\ dispatch' = [dispatch EXCEPT ![d].listed = TRUE]
      /\ IF owner # None /\ ClaimFor(d) # NoClaim
         THEN /\ records' = Written(records, c, ClaimFor(d).role, FALSE)
              /\ claims' = [claims EXCEPT ![k] = NoClaim]
         ELSE UNCHANGED <<records, claims>>
      /\ UNCHANGED <<claimed, emitted, fibers, owner, kid, rows, forgotten>>

\* The promise resolves and its value names the child.
ResolvesWithChild(d) ==
  /\ dispatch[d].pc = "starting"
  /\ Created(d)
  /\ dispatch' = [dispatch EXCEPT ![d].pc = "done"]
  /\ claims' = Ended(d)
  /\ records' = Written(records, dispatch[d].child, dispatch[d].role, FALSE)
  /\ UNCHANGED <<claimed, emitted, fibers, owner, kid, rows, forgotten>>

\* The value carries a job id: the claim stays for the catalog event.
ResolvesWithJob(d) ==
  /\ JobResults
  /\ dispatch[d].pc = "starting"
  /\ dispatch' = [dispatch EXCEPT ![d].pc = "job"]
  /\ UNCHANGED <<records, claims, claimed, emitted, fibers, owner, kid, rows, forgotten>>

\* Mutant: the reservation of a call that failed is left behind.
KeepsReservation(d) == records

\* What a failed call leaves of its reservation.
RolledBack(d) == IF dispatch[d].reserved THEN Deleted(records, dispatch[d].child)
                 ELSE records

\* The promise rejects: this call has no living child.
Rejects(d) ==
  /\ dispatch[d].pc = "starting"
  /\ Created(d) => kid[dispatch[d].child].state = "gone"
  /\ dispatch' = [dispatch EXCEPT ![d].pc = "failed"]
  /\ claims' = Ended(d)
  /\ records' = RolledBack(d)
  /\ UNCHANGED <<claimed, emitted, fibers, owner, kid, rows, forgotten>>

\* agent/disposed: every fiber drops the record, and keeps the mark.
AgentDisposed(c) ==
  /\ kid[c].state = "alive"
  /\ kid' = [kid EXCEPT ![c].state = "gone"]
  /\ records' = IF fibers = {} THEN records ELSE Deleted(records, c)
  /\ UNCHANGED <<claims, claimed, emitted, fibers, owner, dispatch, rows, forgotten>>

-----------------------------------------------------------------------------
\* The notice.

MarkSet == {emitted[i] : i \in 1 .. Len(emitted)}

\* markNoticeEmitted: at the limit the oldest mark goes, for a new one.
Marked(c) ==
  IF c \in MarkSet THEN emitted
  ELSE Append(IF Len(emitted) >= EmittedLimit THEN Tail(emitted) ELSE emitted, c)

\* Mutant: only the record says whether the child was announced.
Announceable(c) == records[c].role # None /\ records[c].pending

\* The guard of the emitter, which runs after its await.
Unannounced(c) == c \notin MarkSet /\ records[c].role # None /\ records[c].pending

(***************************************************************************)
(* A step of the child that has something to say: check, mark and row are  *)
(* one segment, so a second fiber's emitter finds the mark.                *)
(***************************************************************************)
Notice(c) ==
  /\ fibers # {}
  /\ kid[c].state = "alive"
  /\ Unannounced(c)
  /\ emitted' = Marked(c)
  /\ forgotten' = forgotten \union (MarkSet \ MarkSet')
  /\ records' = [records EXCEPT ![c].pending = FALSE]
  /\ rows' = [rows EXCEPT ![c] = Append(@, records[c].role)]
  /\ UNCHANGED <<claims, claimed, fibers, owner, dispatch, kid>>

-----------------------------------------------------------------------------
\* The plugin's fibers.

\* The first fiber of a root, or the first after the owner went, owns the wrapper.
Install(f) ==
  /\ f \notin fibers
  /\ fibers' = fibers \union {f}
  /\ IF owner = None
     THEN owner' = f /\ claims' = [k \in Key |-> NoClaim]
     ELSE UNCHANGED <<owner, claims>>
  /\ UNCHANGED <<records, claimed, emitted, dispatch, kid, rows, forgotten>>

\* Mutant: any fiber that goes drops the shared state.
Whichever(f) == TRUE

IsLast(f) == fibers = {f}

(***************************************************************************)
(* dispose: an owner takes its claims along (calls in flight hold keys of  *)
(* a map nobody reads); the last fiber clears records and marks.           *)
(***************************************************************************)
Dispose(f) ==
  /\ f \in fibers
  /\ fibers' = fibers \ {f}
  /\ IF owner = f
     THEN owner' = None /\ claims' = [k \in Key |-> NoClaim]
     ELSE UNCHANGED <<owner, claims>>
  /\ IF IsLast(f)
     THEN /\ records' = [c \in Child |-> NoRecord]
          /\ emitted' = <<>>
          /\ forgotten' = forgotten \union MarkSet
     ELSE UNCHANGED <<records, emitted, forgotten>>
  /\ dispatch' = [d \in Dispatch |->
       [dispatch[d] EXCEPT !.live = @ /\ owner # f,
                           !.cut = @ \/ (fibers = {f} /\ dispatch[d].pc # "idle")]]
  /\ UNCHANGED <<claimed, kid, rows>>

Next ==
  \/ \E d \in Dispatch : \/ StartLocal(d) \/ StartExternal(d)
                         \/ StartUnreserved(d) \/ StartThrows(d)
                         \/ HostCreates(d) \/ Catalogued(d)
                         \/ ResolvesWithChild(d) \/ ResolvesWithJob(d)
                         \/ Rejects(d)
  \/ \E c \in Child : AgentDisposed(c) \/ Notice(c)
  \/ \E f \in Fiber : Install(f) \/ Dispose(f)

Spec == Init /\ [][Next]_vars

-----------------------------------------------------------------------------
\* What must hold.

Mounted(c) == kid[c].state = "alive" /\ dispatch[kid[c].by].mount

\* No other call names d's child.
Sole(d) == \A e \in Dispatch : dispatch[e].child = dispatch[d].child => e = d

(***************************************************************************)
(* A living child that the seam mounted keeps its verdict, whatever calls  *)
(* for other children, catalog events and fibers do, until the last fiber  *)
(* goes: the walk filters by the host's allowlist only a child that has it *)
(* (recordChild and dispose of subagents-seam.ts).                         *)
(***************************************************************************)
MountVerdictKept ==
  \A c \in Child :
     (Mounted(c) /\ Sole(kid[c].by) /\ ~dispatch[kid[c].by].cut) => records[c].mounted

(***************************************************************************)
(* A role comes from a call for this child, or from one of the calls that  *)
(* share key with a call for it: never from another parent or label        *)
(* (the catalog join of subagents-seam.ts).  So says the record, and so    *)
(* say the rows of the child's session.                                    *)
(***************************************************************************)
Meant(c, role) ==
  \E d \in Dispatch :
     /\ dispatch[d].role = role
     /\ \/ dispatch[d].child = c
        \/ \E e \in Dispatch : /\ dispatch[e].child = c
                               /\ dispatch[e].key = dispatch[d].key
                               /\ dispatch[e].key # None
RoleIsMeant ==
  \A c \in Child :
     /\ records[c].role # None => Meant(c, records[c].role)
     /\ \A i \in 1 .. Len(rows[c]) : Meant(c, rows[c][i])

(***************************************************************************)
(* One notice row per child session, also when a continuable child is      *)
(* disposed of and started again, unless its mark was evicted or cleared   *)
(* (role-notice.ts, CF-6).                                                 *)
(***************************************************************************)
OneNotice == \A c \in Child : Len(rows[c]) > 1 => c \in forgotten

(***************************************************************************)
(* A record belongs to a call that is under way for the child or has       *)
(* created it: a start that fails leaves nothing behind, and no event      *)
(* writes a record for a child nobody started (the rollbacks of            *)
(* startActivation).                                                       *)
(***************************************************************************)
NoOrphanRecord ==
  \A c \in Child : records[c].role # None =>
     \E d \in Dispatch : /\ dispatch[d].child = c
                         /\ dispatch[d].pc \in {"starting", "job", "done"} \/ Created(d)

-----------------------------------------------------------------------------
\* A statement of the documentation that the code does not keep.

(***************************************************************************)
(* "A rejected native call established no child": a call that fails takes  *)
(* no mount verdict from a living child of another call.                   *)
(***************************************************************************)
RollbackSparesOthers ==
  [][\A d \in Dispatch : (dispatch[d].pc # "failed" /\ dispatch'[d].pc = "failed") =>
       \A c \in Child : (Mounted(c) /\ kid[c].by # d /\ records[c].mounted)
                          => records'[c].mounted]_vars

=============================================================================
