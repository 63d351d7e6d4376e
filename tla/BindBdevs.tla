------------------------------ MODULE BindBdevs ------------------------------
(***************************************************************************)
(* The block devices as a script has them: src/src/lua/bind-bdevs.c, the   *)
(* constructors and the close functions of the layers it binds, and the    *)
(* part of src/src/lua/main.c that drives Lua's collector.                 *)
(*                                                                         *)
(* A device is closed by its finalizer, bind_bdev_close, and by nothing    *)
(* else.  A layer keeps bare pointers to the devices it is stacked on, so  *)
(* it also keeps references to them in the registry, to outlive them.      *)
(* What the devices store is the subject of the modules of the layers.     *)
(*                                                                         *)
(* A definition ...Mutant is a plausible mistake in the definition that    *)
(* follows it; no specification uses it (see README, "Mutants").           *)
(***************************************************************************)
EXTENDS Integers

CONSTANTS
    Devs,              \* struct bdev_data, each used for one device
    GC_INTERVAL

ASSUME IntervalAssumption == GC_INTERVAL \in Nat \ {0}

VARIABLES
    phase,             \* what main is doing
    gc_counter,        \* of gc_loop_fn
    dev,               \* the state of each device
    born,              \* when its userdata was made
    clock,             \* the userdata made so far
    below,             \* the devices it points to
    dev_refs,          \* the devices it has references to in the registry
    lost,              \* the devices in the registry by references nobody has
    held,              \* the devices in the script's variables
    condemned          \* the userdata to finalize in this cycle (tmudata)

heap == <<dev, born, clock, below, dev_refs>>
bdev_vars == <<phase, gc_counter, dev, born, clock, below, dev_refs, lost, held, condemned>>

Open == {d \in Devs : dev[d] = "open"}

-----------------------------------------------------------------------------
(* Lua's collector. *)

(* What a mark phase does not reach: in no variable and not in the registry. *)
Garbage ==
    {d \in Open : d \notin held /\ d \notin lost /\ \A u \in Open : d \notin dev_refs[u]}

(* Userdata separated together are finalized from the newest to the oldest. *)
NextToFinalize == {d \in condemned : \A e \in condemned : born[e] <= born[d]}

(* bind_bdev_close: the device's own close, then the references. *)
Finalize(d) ==
    /\ d \in NextToFinalize
    /\ condemned' = condemned \ {d}
    /\ dev' = [dev EXCEPT ![d] = "closed"]
    /\ dev_refs' = [dev_refs EXCEPT ![d] = {}]
    /\ UNCHANGED <<born, clock, below, lost, held>>

Mark ==
    /\ condemned = {}
    /\ condemned' = Garbage
    /\ UNCHANGED <<heap, lost, held>>

CollectorStep == Mark \/ \E d \in Devs : Finalize(d)

(* A collector step that an allocation of the script sets off. *)
Allocation == phase = "run" /\ CollectorStep /\ UNCHANGED <<phase, gc_counter>>

(* gc_loop_fn, after every turn of the event loop *)
GcLoopMutant ==
    /\ phase = "run"
    /\ gc_counter' = (gc_counter + 1) % GC_INTERVAL
    /\ IF gc_counter' = GC_INTERVAL THEN CollectorStep ELSE UNCHANGED <<heap, lost, held, condemned>>
    /\ UNCHANGED phase
GcLoop ==
    /\ phase = "run"
    /\ IF gc_counter + 1 = GC_INTERVAL
         THEN gc_counter' = 0 /\ CollectorStep
         ELSE gc_counter' = gc_counter + 1 /\ UNCHANGED <<heap, lost, held, condemned>>
    /\ UNCHANGED phase

-----------------------------------------------------------------------------
(* What a script may do. *)

(* bind_bdev_wrap of a device that could be made *)
WrapMutant(d, S, rs) ==
    /\ dev' = [dev EXCEPT ![d] = "open"]
    /\ born' = [born EXCEPT ![d] = clock]
    /\ clock' = clock + 1
    /\ below' = [below EXCEPT ![d] = S]
    /\ dev_refs' = [dev_refs EXCEPT ![d] = {}]
    /\ held' = held \cup {d}
    /\ UNCHANGED lost
Wrap(d, S, rs) ==
    /\ dev' = [dev EXCEPT ![d] = "open"]
    /\ born' = [born EXCEPT ![d] = clock]
    /\ clock' = clock + 1
    /\ below' = [below EXCEPT ![d] = S]
    /\ dev_refs' = [dev_refs EXCEPT ![d] = rs]
    /\ held' = held \cup {d}
    /\ UNCHANGED lost

(* bind_bdev_wrap of NULL: the list of references is freed, they are not. *)
WrapNull(rs) ==
    /\ lost' = lost \cup rs
    /\ UNCHANGED <<heap, held>>

(* druid.ram and druid.file; a file that fails to open is closed again *)
BindBase(d) ==
    /\ phase = "run"
    /\ dev[d] = "none"
    /\ Wrap(d, {}, {}) \/ WrapNull({})
    /\ UNCHANGED <<phase, gc_counter, condemned>>

(***************************************************************************)
(* druid.concat, stripe and xor over several devices, encrypt, slice,      *)
(* verify and lazyzero over one: the constructor returns a device or NULL. *)
(***************************************************************************)
BindLayer(d, S) ==
    /\ phase = "run"
    /\ dev[d] = "none"
    /\ S \subseteq held /\ S # {}
    /\ Wrap(d, S, S) \/ WrapNull(S)
    /\ UNCHANGED <<phase, gc_counter, condemned>>

(***************************************************************************)
(* The error for a device given twice, or for an argument that is no       *)
(* device, leaves bind_concat_open, bind_stripe_open or bind_xor_open      *)
(* after the devices S before it were referenced.                          *)
(***************************************************************************)
BadArgument(S) ==
    /\ phase = "run"
    /\ S \subseteq held /\ S # {}
    /\ lost' = lost \cup S
    /\ UNCHANGED <<phase, gc_counter, heap, held, condemned>>

(* A variable goes away. *)
Drop(d) ==
    /\ phase = "run"
    /\ d \in held
    /\ held' = held \ {d}
    /\ UNCHANGED <<phase, gc_counter, heap, lost, condemned>>

-----------------------------------------------------------------------------
(* The end of main, with the script's globals still there. *)

(* The scripts and the loop are done, or an error went to STOP. *)
Stop ==
    /\ phase = "run"
    /\ phase' = "collect"
    /\ UNCHANGED <<gc_counter, heap, lost, held, condemned>>

(* lua_gc(L, LUA_GCCOLLECT, 0): what was condemned already, then a cycle *)
FullCollect ==
    /\ phase = "collect"
    /\ Mark
    /\ phase' = "finalize"
    /\ UNCHANGED gc_counter

(* lua_close finalizes every userdata. *)
LuaCloseMutant ==
    /\ phase = "finalize"
    /\ condemned = {}
    /\ condemned' = Garbage
    /\ phase' = "closing"
    /\ UNCHANGED <<gc_counter, heap, lost, held>>
LuaClose ==
    /\ phase = "finalize"
    /\ condemned = {}
    /\ condemned' = Open
    /\ phase' = "closing"
    /\ UNCHANGED <<gc_counter, heap, lost, held>>

FinalizeAtEnd ==
    /\ phase \in {"collect", "finalize", "closing"}
    /\ \E d \in Devs : Finalize(d)
    /\ UNCHANGED <<phase, gc_counter>>

(* loop_teardown and exit *)
Exit ==
    /\ phase = "closing"
    /\ condemned = {}
    /\ phase' = "over"
    /\ UNCHANGED <<gc_counter, heap, lost, held, condemned>>

-----------------------------------------------------------------------------
BdevInit ==
    /\ phase = "run"
    /\ gc_counter = 0
    /\ dev = [d \in Devs |-> "none"]
    /\ born = [d \in Devs |-> 0]
    /\ clock = 0
    /\ below = [d \in Devs |-> {}]
    /\ dev_refs = [d \in Devs |-> {}]
    /\ lost = {}
    /\ held = {}
    /\ condemned = {}

Script ==
    \/ \E d \in Devs : BindBase(d) \/ Drop(d)
    \/ \E d \in Devs, S \in SUBSET Devs : BindLayer(d, S)
    \/ \E S \in SUBSET Devs : BadArgument(S)
    \/ Stop

Ending == FullCollect \/ LuaClose \/ FinalizeAtEnd \/ Exit

BdevNext == Script \/ Allocation \/ GcLoop \/ Ending

(***************************************************************************)
(* Once a program has stopped, main runs to its end.  Nothing else is      *)
(* assumed: not that scripts drop their devices, fail or stop, nor that    *)
(* the event loop turns, since event_base_loop waits while no event comes. *)
(***************************************************************************)
BdevSpec == BdevInit /\ [][BdevNext]_bdev_vars /\ WF_bdev_vars(Ending)

-----------------------------------------------------------------------------
(* Properties. *)

BdevTypeOK ==
    /\ phase \in {"run", "collect", "finalize", "closing", "over"}
    /\ gc_counter \in 0 .. GC_INTERVAL - 1
    /\ dev \in [Devs -> {"none", "open", "closed"}]
    /\ born \in [Devs -> Nat]
    /\ clock \in Nat
    /\ below \in [Devs -> SUBSET Devs]
    /\ dev_refs \in [Devs -> SUBSET Devs]
    /\ lost \subseteq Devs
    /\ held \subseteq Devs
    /\ condemned \subseteq Devs

(***************************************************************************)
(* No use of a device, and no close of one that still writes to the device *)
(* below it, as lazyzero_close does, reaches a device that is closed: in   *)
(* whatever order variables go away and the collector runs, every device   *)
(* that an open one points to is open, and so is what the script holds     *)
(* until lua_close.                                                        *)
(***************************************************************************)
StackIsOpen ==
    /\ \A d \in Open : \A b \in below[d] : dev[b] = "open"
    /\ phase \notin {"closing", "over"} => \A d \in held : dev[d] = "open"

(* The rest of what makes StackIsOpen inductive. *)
OldestBelow ==
    /\ \A d \in Open : born[d] < clock
    /\ \A d \in Open : \A b \in below[d] : born[b] < born[d]
RefsAreBelow == \A d \in Open : dev_refs[d] = below[d]
CondemnedAreFree ==
    /\ condemned \subseteq Open
    /\ phase \notin {"closing", "over"} =>
          /\ condemned \cap held = {}
          /\ \A d \in Open : condemned \cap dev_refs[d] = {}
    /\ phase = "closing" => condemned = Open
    /\ phase = "over" => Open = {}

BdevIndInv == BdevTypeOK /\ StackIsOpen /\ OldestBelow /\ RefsAreBelow /\ CondemnedAreFree

(***************************************************************************)
(* If events keep coming, or the program stops, the devices that a script  *)
(* can no longer reach, by a variable or through the devices stacked on    *)
(* them, and that no lost reference keeps, are closed, the whole stack     *)
(* from the top down.  (While the loop waits for an event, a device that   *)
(* is garbage stays open, with what it has not written yet.)               *)
(***************************************************************************)
EventsCome == []<><<GcLoop>>_bdev_vars \/ <>(phase # "run")
Unreachable(D) == \A d \in D : d \notin held /\ d \notin lost /\ {u \in Open : d \in below[u]} \subseteq D
GarbageIsClosed ==
    EventsCome =>
        \A D \in SUBSET Devs : (D # {} /\ D \subseteq Open /\ Unreachable(D)) ~> (D \cap Open = {})

(* A program that ends has closed every device, the lost ones included. *)
EndClosesAll == phase = "collect" ~> phase = "over" /\ Open = {}
=============================================================================
