---------------------- MODULE EditingContextInvariants ----------------------
(***************************************************************************)
(* Why ChangesTracked, NoDanglingReference, SavesAsUnit and EveryoneAsked  *)
(* hold: the inductive invariants behind them, for applications that       *)
(* change objects in callbacks once and before the save, and for delete    *)
(* rules that carry the deletion out.                                      *)
(***************************************************************************)
EXTENDS EditingContext

Calm ==
  /\ ~Chained
  /\ HookOps \cap {"late", "peek"} = {}
  /\ \A m \in Master : Rule[m] \in {"nullify", "cascade"}

(* What the context knows of its objects is consistent.                    *)
Registered(x) ==
  /\ x.gone \subseteq x.objects
  /\ InSome(x, "deleted") \subseteq x.gone
  /\ \A o \in Object : db[o] # Absent => o \in x.objects
  /\ \A o \in Live(x) : x.values[o] # Absent /\ (x.values[o] \in Master => x.values[o] \in Live(x))
  /\ \A m \in Live(x) \cap Master : x.values[m] = None

(* ChangesTracked, of any context; only new objects are insertions.        *)
Unsaved(x) ==
  /\ \A o \in Live(x) :
       /\ db[o] = Absent => o \in InSome(x, "inserted")
       /\ db[o] \notin {Absent, x.values[o]} => o \in InSome(x, "updated")
  /\ \A o \in Object \ Live(x) : db[o] # Absent => o \in InSome(x, "deleted")
  /\ \A o \in InSome(x, "inserted") : o \in Live(x) /\ db[o] = Absent

(* After the store has written, what the change trackers hold is obsolete: *)
(* what has changed since is in updatedQueue.                              *)
Saved(x) ==
  /\ x.queued.inserted = {} /\ x.queued.deleted = {}
  /\ x.tracked.inserted \subseteq Live(x)
  /\ \A o \in Live(x) : db[o] # Absent /\ (db[o] = x.values[o] \/ o \in x.queued.updated)
  /\ \A o \in Object \ Live(x) : db[o] = Absent

(* The queues are empty when the store is called, and a queue that is      *)
(* emptied has been moved.                                                 *)
PassInv ==
  /\ phase \in {"prepare", "validate", "store"} => ctx.cache = {}
  /\ phase = "store" => \A k \in Kind : ctx.queued[k] = {}
  /\ phase \notin {"prepare", "validate"} => pass.src = "tracked"
  /\ pass.src = "queued" => /\ todo \subseteq ctx.queued[pass.kind]
                            /\ ctx.queued[pass.kind] \subseteq ctx.tracked[pass.kind] \cup todo

(* The strengthening of ChangesTracked that every step preserves.          *)
ContextInv ==
  /\ Registered(ctx)
  /\ IF phase = "done" THEN Saved(ctx) ELSE Unsaved(ctx)
  /\ PassInv

(* An object that is still to be called: in the rest of this dictionary, a *)
(* later one, or a queue that is not the one gone through.                 *)
Later(k) == CASE k = "updated" -> {"inserted", "deleted"}
              [] k = "inserted" -> {"deleted"}
              [] k = "deleted" -> {}

Ahead ==
  todo \cup {o \in Object :
            \/ pass.src = "tracked" /\ \E k \in Later(pass.kind) : o \in ctx.tracked[k]
            \/ \E k \in Kind : o \in ctx.queued[k] /\ pass # [src |-> "queued", kind |-> k]}

(* What EveryoneAsked rests on: during the callbacks that precede a save,  *)
(* whatever has changed has been called since or is still to be called.    *)
AskedInv ==
  phase \in {"prepare", "validate"} =>
    /\ pass.src = "tracked" => todo \subseteq ctx.tracked[pass.kind]
    /\ Pending(ctx) \subseteq told \cup Ahead
=============================================================================
