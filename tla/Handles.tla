------------------------------ MODULE Handles ------------------------------
(***************************************************************************)
(* Who owns SOEM's context: Master::try_new, ptr, from_ptr, leak_ptr and   *)
(* the end of a Master, of src/lib.rs.                                     *)
(*                                                                         *)
(* A Master owns the Box of its context and frees it when it is dropped.   *)
(* from_ptr makes a second Box of the same context from a raw pointer, so  *)
(* from there on the compiler watches over nothing: who drops what, and    *)
(* when, is up to the application and to the panics that unwind it.  The   *)
(* first use of a freed context, or the second free, is undefined          *)
(* behaviour; the model stops there.                                       *)
(***************************************************************************)
EXTENDS Naturals, FiniteSets

CONSTANTS
  Owner,   \* the Master that try_new makes
  Others   \* the Masters that from_ptr makes

ASSUME HandlesAssumption == Owner \notin Others

Handles == {Owner} \cup Others

VARIABLES
  context,   \* the Box<Ctx>: "none", "live" or "freed"
  exported,  \* ptr has been called: the application knows the address
  handle,    \* of each Master: "none", "idle", "calling" or "gone"
  frees,     \* how often the Box has been freed
  faults,    \* undefined behaviour that has happened
  broken     \* history: the ways in which the rule of leak_ptr was broken

handlesVars == <<context, exported, handle, frees, faults, broken>>

HandlesInit ==
  /\ context = "none"
  /\ exported = FALSE
  /\ handle = [h \in Handles |-> "none"]
  /\ frees = 0
  /\ faults = {} /\ broken = {}

Goes(h, state) == handle' = [handle EXCEPT ![h] = state]

\* Access to the context through a Box.
Touch ==
  faults' = faults \cup (IF context = "live" THEN {} ELSE {"use_after_free"})

\* Drop of a Box<Ctx>.
Free ==
  /\ context' = "freed"
  /\ frees' = frees + 1
  /\ faults' = faults \cup (IF context = "live" THEN {} ELSE {"double_free"})

Gone(h) == handle[h] = "gone"
InUse(h) == handle[h] \in {"idle", "calling"}

\* What the comment of leak_ptr asks for, when h ends by how: a secondary Master
\* is leaked, and the one that frees the context is dropped after all others.
Breaks(h, how) ==
  {rule \in {"secondary dropped", "owner leaked", "owner first"} :
     \/ rule = "secondary dropped" /\ h # Owner /\ how = "dropped"
     \/ rule = "owner leaked" /\ h = Owner /\ how = "leaked"
     \/ rule = "owner first" /\ h = Owner /\ \E g \in Others : InUse(g)}

----------------------------------------------------------------------------
\* try_new: if init fails, the local that owns the new context is dropped.
TryNew ==
  /\ handle[Owner] = "none"
  /\ \/ context' = "live" /\ Goes(Owner, "idle") /\ UNCHANGED <<frees, faults>>
     \/ context' = "freed" /\ frees' = frees + 1 /\ Goes(Owner, "gone")
        /\ UNCHANGED faults
  /\ UNCHANGED <<exported, broken>>

Ptr ==
  /\ handle[Owner] = "idle"
  /\ exported' = TRUE
  /\ UNCHANGED <<context, handle, frees, faults, broken>>

\* from_ptr: nothing is accessed yet, and nobody asks whether the address is
\* still that of a context.
FromPtr(g) ==
  /\ exported /\ faults = {}
  /\ g \in Others /\ handle[g] = "none"
  /\ Goes(g, "idle")
  /\ broken' = broken \cup (IF Gone(Owner) THEN {"owner first"} ELSE {})
  /\ UNCHANGED <<context, exported, frees, faults>>

\* A method is entered.
Enter(h) ==
  /\ handle[h] = "idle" /\ faults = {}
  /\ Goes(h, "calling")
  /\ UNCHANGED <<context, exported, frees, faults, broken>>

\* A method returns from the bus, and accesses the context.
Leave(h) ==
  /\ handle[h] = "calling" /\ faults = {}
  /\ Goes(h, "idle") /\ Touch
  /\ UNCHANGED <<context, exported, frees, broken>>

\* A method returns early and has not accessed the context.
LeaveEarly(h) ==
  /\ handle[h] = "calling" /\ faults = {}
  /\ Goes(h, "idle")
  /\ UNCHANGED <<context, exported, frees, faults, broken>>

\* The end of a Master that is a local: its function returns, or is unwound
\* between two calls, as by the unwrap of read_sdo.rs:48.
Drop(h) ==
  /\ handle[h] = "idle" /\ faults = {}
  /\ Goes(h, "gone") /\ Free
  /\ broken' = broken \cup Breaks(h, "dropped")
  /\ UNCHANGED exported

\* Mutant: the Box is dropped with the rest of self.
LeakPtr_Drops(h) ==
  /\ handle[h] = "idle" /\ faults = {}
  /\ Goes(h, "gone") /\ Free
  /\ broken' = broken \cup Breaks(h, "leaked")
  /\ UNCHANGED exported

\* leak_ptr: the caches are dropped, the Box is not.
LeakPtr(h) ==
  /\ handle[h] = "idle" /\ faults = {}
  /\ Goes(h, "gone")
  /\ broken' = broken \cup Breaks(h, "leaked")
  /\ UNCHANGED <<context, exported, frees, faults>>

\* Mutant: what a panic unwinds through is not freed.
Unwind_Leaks(h) ==
  /\ handle[h] = "calling" /\ faults = {}
  /\ Goes(h, "gone")
  /\ broken' = broken \cup Breaks(h, "dropped")
  /\ UNCHANGED <<context, exported, frees, faults>>

\* A panic inside a method unwinds the function that owns the Master, which is
\* dropped there like any other local.
Unwind(h) ==
  /\ handle[h] = "calling" /\ faults = {}
  /\ Goes(h, "gone") /\ Free
  /\ broken' = broken \cup Breaks(h, "dropped")
  /\ UNCHANGED exported

HandlesNext ==
  \/ TryNew \/ Ptr
  \/ \E h \in Handles :
       \/ FromPtr(h) \/ Enter(h) \/ Leave(h) \/ LeaveEarly(h)
       \/ Drop(h) \/ LeakPtr(h) \/ Unwind(h)

HandlesSpec == HandlesInit /\ [][HandlesNext]_handlesVars

----------------------------------------------------------------------------
(* Properties                                                              *)

\* Type invariant of the ownership.
HandlesTypeOK ==
  /\ context \in {"none", "live", "freed"}
  /\ exported \in BOOLEAN
  /\ handle \in [Handles -> {"none", "idle", "calling", "gone"}]
  /\ frees \in Nat
  /\ faults \subseteq {"use_after_free", "double_free"}
  /\ broken \subseteq {"secondary dropped", "owner leaked", "owner first"}

\* The rule in the comment of leak_ptr (lib.rs:108) is enough: as long as every
\* secondary Master is leaked, before the first one is dropped, no Master uses
\* a freed context and none frees it again, in whatever order they are made,
\* call and wait.  A panic counts as what it does, a drop.
SafeWhenRuled == broken = {} => faults = {}

\* It loses nothing either: when all Masters are gone and the rule was kept, the
\* context has been freed exactly once.
ReclaimedWhenRuled ==
  broken = {} /\ Gone(Owner) => context = "freed" /\ frees = 1
=============================================================================
