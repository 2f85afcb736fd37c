--------------------------- MODULE Handles_proofs ---------------------------
(***************************************************************************)
(* Proofs about Handles, for any number of secondary Masters.              *)
(*                                                                         *)
(* That the rule of leak_ptr is safe is not inductive: it needs that as    *)
(* long as it is kept, nobody holds a context that has been freed          *)
(* (RuledInv).                                                             *)
(***************************************************************************)
EXTENDS Handles, TLAPS

LEMMA OneMore == ASSUME NEW n \in Nat PROVE n + 1 \in Nat
  OBVIOUS

LEMMA TypeStart == HandlesInit => HandlesTypeOK
<1> SUFFICES ASSUME HandlesInit PROVE HandlesTypeOK
  OBVIOUS
<1>1. exported \in BOOLEAN
  BY Zenon DEF HandlesInit
<1> QED
  BY <1>1 DEF HandlesInit, HandlesTypeOK

LEMMA HandlesTypeStep ==
  ASSUME HandlesTypeOK, [HandlesNext]_handlesVars
  PROVE  HandlesTypeOK'
<1>0. exported' \in BOOLEAN
  <2>1. exported \in BOOLEAN
    BY Zenon DEF HandlesTypeOK
  <2>2. UNCHANGED exported \/ Ptr
    BY Zenon DEF HandlesNext, TryNew, FromPtr, Enter, Leave, LeaveEarly, Drop,
      LeakPtr, Unwind, handlesVars
  <2> QED
    BY <2>1, <2>2, Zenon DEF Ptr
<1>f. frees + 1 \in Nat
  <2>1. frees \in Nat
    BY DEF HandlesTypeOK
  <2> QED
    BY <2>1, OneMore
<1> USE <1>0, <1>f DEF HandlesTypeOK, Goes, Free, Touch, Breaks, Handles
<1>1. CASE TryNew
  BY <1>1 DEF TryNew
<1>2. CASE Ptr
  BY <1>2 DEF Ptr
<1>3. ASSUME NEW h \in Handles, FromPtr(h) PROVE HandlesTypeOK'
  BY <1>3 DEF FromPtr
<1>4. ASSUME NEW h \in Handles, Enter(h) \/ Leave(h) \/ LeaveEarly(h)
      PROVE  HandlesTypeOK'
  BY <1>4 DEF Enter, Leave, LeaveEarly
<1>5. ASSUME NEW h \in Handles, Drop(h) \/ Unwind(h) PROVE HandlesTypeOK'
  BY <1>5 DEF Drop, Unwind
<1>6. ASSUME NEW h \in Handles, LeakPtr(h) PROVE HandlesTypeOK'
  BY <1>6 DEF LeakPtr
<1>7. CASE UNCHANGED handlesVars
  BY <1>7 DEF handlesVars
<1> QED
  BY <1>1, <1>2, <1>3, <1>4, <1>5, <1>6, <1>7 DEF HandlesNext

\* The Masters and the context keep their types.
THEOREM HandlesTypeCorrect == HandlesSpec => []HandlesTypeOK
<1>1. HandlesInit => HandlesTypeOK
  BY TypeStart
<1>2. HandlesTypeOK /\ [HandlesNext]_handlesVars => HandlesTypeOK'
  BY HandlesTypeStep
<1> QED
  BY <1>1, <1>2, PTL DEF HandlesSpec

----------------------------------------------------------------------------
\* Before try_new there is nothing; the context lives as long as its owner, and
\* when it has gone, nobody is left.
RuledInv ==
  /\ handle[Owner] = "none" =>
       context = "none" /\ exported = FALSE /\ \A g \in Others : handle[g] = "none"
  /\ handle[Owner] \in {"idle", "calling"} => context = "live"
  /\ handle[Owner] = "gone" => context = "freed" /\ \A g \in Others : ~InUse(g)
  /\ frees = (IF context = "freed" THEN 1 ELSE 0)
  /\ faults = {}

RuledIInv == HandlesTypeOK /\ (broken = {} => RuledInv)

LEMMA RuledStart == HandlesInit => RuledIInv
  BY TypeStart DEF HandlesInit, RuledIInv, RuledInv, Handles

\* A Master that is in use has a context.
LEMMA HeldIsLive ==
  ASSUME RuledInv, HandlesTypeOK, NEW h \in Handles, InUse(h)
  PROVE  context = "live"
<1>1. handle[Owner] \in {"none", "idle", "calling", "gone"}
  BY DEF HandlesTypeOK, Handles
<1> QED
  BY <1>1, HandlesAssumption DEF RuledInv, InUse, Handles

\* An end that keeps the rule: a secondary Master is leaked, or the owner is
\* dropped as the last one.
LEMMA RuledEnd ==
  ASSUME HandlesTypeOK, RuledInv, NEW h \in Handles, InUse(h), Goes(h, "gone"),
         UNCHANGED exported,
         \/ h \in Others /\ UNCHANGED <<context, frees, faults>>
         \/ h = Owner /\ Free /\ \A g \in Others : ~InUse(g)
  PROVE  RuledInv'
<1>1. context = "live"
  BY HeldIsLive
<1>2. Owner \in Handles /\ \A g \in Others : g \in Handles /\ g # Owner
  BY HandlesAssumption DEF Handles
<1>3. CASE h \in Others /\ UNCHANGED <<context, frees, faults>>
  <2>1. handle'[Owner] = handle[Owner]
    BY <1>2, <1>3 DEF Goes, HandlesTypeOK
  <2>2. \A g \in Others : InUse(g)' => InUse(g)
    BY <1>2, <1>3 DEF Goes, HandlesTypeOK, InUse
  <2>3. handle[Owner] # "none"
    BY <1>1 DEF RuledInv
  <2> QED
    BY <1>3, <2>1, <2>2, <2>3 DEF RuledInv
<1>4. CASE h = Owner /\ Free /\ \A g \in Others : ~InUse(g)
  <2>1. handle'[Owner] = "gone"
    BY <1>2, <1>4 DEF Goes, HandlesTypeOK
  <2>2. \A g \in Others : ~InUse(g)'
    BY <1>2, <1>4 DEF Goes, HandlesTypeOK, InUse
  <2>3. context' = "freed" /\ frees' = 1 /\ faults' = {}
    BY <1>1, <1>4 DEF Free, RuledInv
  <2> QED
    BY <2>1, <2>2, <2>3 DEF RuledInv
<1> QED
  BY <1>3, <1>4

\* What the rule leaves of the ways a Master can end.
LEMMA BreaksNothing ==
  ASSUME NEW h \in Handles, NEW how \in {"dropped", "leaked"}, Breaks(h, how) = {}
  PROVE  /\ how = "dropped" => h = Owner /\ \A g \in Others : ~InUse(g)
         /\ how = "leaked" => h \in Others
<1>1. how = "dropped" => h = Owner
  <2> SUFFICES ASSUME how = "dropped", h # Owner PROVE FALSE
    OBVIOUS
  <2>1. "secondary dropped" \in Breaks(h, how)
    BY DEF Breaks
  <2> QED
    BY <2>1
<1>2. how = "leaked" => h # Owner
  <2> SUFFICES ASSUME how = "leaked", h = Owner PROVE FALSE
    OBVIOUS
  <2>1. "owner leaked" \in Breaks(h, how)
    BY DEF Breaks
  <2> QED
    BY <2>1
<1>3. h = Owner => \A g \in Others : ~InUse(g)
  <2> SUFFICES ASSUME h = Owner, NEW g \in Others, InUse(g) PROVE FALSE
    OBVIOUS
  <2>1. "owner first" \in Breaks(h, how)
    BY DEF Breaks
  <2> QED
    BY <2>1
<1> QED
  BY <1>1, <1>2, <1>3 DEF Handles

LEMMA RuledStep == RuledIInv /\ [HandlesNext]_handlesVars => RuledIInv'
<1> SUFFICES ASSUME HandlesTypeOK, broken = {} => RuledInv, [HandlesNext]_handlesVars,
                    broken' = {}
             PROVE  RuledInv'
  BY HandlesTypeStep DEF RuledIInv
<1>0. Owner \in Handles /\ \A g \in Others : g \in Handles /\ g # Owner
  BY HandlesAssumption DEF Handles
<1>1. CASE TryNew
  <2>1. RuledInv /\ handle[Owner] = "none"
    BY <1>1 DEF TryNew
  <2>2. \A g \in Others : handle'[g] = "none"
    BY <1>0, <1>1, <2>1 DEF TryNew, Goes, RuledInv, HandlesTypeOK
  <2>3. CASE context' = "live" /\ Goes(Owner, "idle") /\ UNCHANGED <<frees, faults>>
    <3>1. handle'[Owner] = "idle"
      BY <1>0, <2>3 DEF Goes, HandlesTypeOK
    <3> QED
      BY <2>1, <2>3, <3>1 DEF RuledInv
  <2>4. CASE context' = "freed" /\ frees' = frees + 1 /\ Goes(Owner, "gone")
             /\ UNCHANGED faults
    <3>1. handle'[Owner] = "gone"
      BY <1>0, <2>4 DEF Goes, HandlesTypeOK
    <3>2. frees' = 1
      BY <2>1, <2>4 DEF RuledInv
    <3> QED
      BY <2>1, <2>2, <2>4, <3>1, <3>2 DEF RuledInv, InUse
  <2> QED
    BY <1>1, <2>3, <2>4 DEF TryNew
<1>2. CASE Ptr
  BY <1>2 DEF Ptr, RuledInv, InUse
<1>3. ASSUME NEW h \in Handles, FromPtr(h) PROVE RuledInv'
  <2>1. RuledInv /\ ~Gone(Owner) /\ h \in Others /\ Goes(h, "idle") /\ exported
        /\ UNCHANGED <<context, exported, frees, faults>>
    BY <1>3 DEF FromPtr
  <2>2. handle'[Owner] = handle[Owner]
    BY <1>0, <2>1 DEF Goes, HandlesTypeOK
  <2>3. handle[Owner] # "none"
    BY <2>1 DEF RuledInv
  <2> QED
    BY <2>1, <2>2, <2>3 DEF RuledInv, Gone
<1>4. ASSUME NEW h \in Handles, Enter(h) \/ Leave(h) \/ LeaveEarly(h)
      PROVE  RuledInv'
  <2>1. InUse(h) /\ RuledInv
    BY <1>4 DEF Enter, Leave, LeaveEarly, InUse
  <2>2. context = "live"
    BY <2>1, HeldIsLive
  <2>3. UNCHANGED <<context, exported, frees>> /\ faults' = {}
    BY <1>4, <2>1, <2>2 DEF Enter, Leave, LeaveEarly, Touch, RuledInv
  <2>4. handle'[Owner] \in {"idle", "calling"}
    BY <1>0, <1>4, <2>1, <2>2 DEF Enter, Leave, LeaveEarly, Goes, HandlesTypeOK, RuledInv
  <2> QED
    BY <2>1, <2>2, <2>3, <2>4 DEF RuledInv
<1>5. ASSUME NEW h \in Handles, Drop(h) \/ Unwind(h) PROVE RuledInv'
  <2>1. RuledInv /\ Breaks(h, "dropped") = {} /\ InUse(h) /\ Goes(h, "gone") /\ Free
        /\ UNCHANGED exported
    BY <1>5 DEF Drop, Unwind, InUse
  <2> QED
    BY <2>1, BreaksNothing, RuledEnd
<1>6. ASSUME NEW h \in Handles, LeakPtr(h) PROVE RuledInv'
  <2>1. /\ RuledInv /\ Breaks(h, "leaked") = {} /\ InUse(h) /\ Goes(h, "gone")
        /\ UNCHANGED <<context, exported, frees, faults>>
    BY <1>6 DEF LeakPtr, InUse
  <2> QED
    BY <2>1, BreaksNothing, RuledEnd
<1>7. CASE UNCHANGED handlesVars
  BY <1>7 DEF handlesVars, RuledInv, InUse
<1> QED
  BY <1>1, <1>2, <1>3, <1>4, <1>5, <1>6, <1>7 DEF HandlesNext

\* As long as secondary Masters are leaked and the owner is dropped last, no
\* freed context is used and none is freed twice.
THEOREM RuleIsSafe == HandlesSpec => []SafeWhenRuled
<1>1. RuledIInv => SafeWhenRuled
  BY DEF RuledIInv, RuledInv, SafeWhenRuled
<1> QED
  BY <1>1, RuledStart, RuledStep, PTL DEF HandlesSpec

\* And the context has been freed, once, when its owner has gone.
THEOREM RuleReclaims == HandlesSpec => []ReclaimedWhenRuled
<1>1. RuledIInv => ReclaimedWhenRuled
  BY DEF RuledIInv, RuledInv, ReclaimedWhenRuled, Gone
<1> QED
  BY <1>1, RuledStart, RuledStep, PTL DEF HandlesSpec
=============================================================================
