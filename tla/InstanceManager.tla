---------------------------- MODULE InstanceManager ----------------------------
(***************************************************************************)
(* Which debugger an object belongs to.  The holder keeps a dictionary     *)
(* with weak keys, objects to debuggers, and a global debugger that is set *)
(* inside extend_internal_debugger, under a lock, for the constructors     *)
(* that run there.  Several debuggers, each with its polling thread, and   *)
(* one script share them.                                                  *)
(*                                                                         *)
(* Breakpoints, catchers and handlers are dataclasses: they are equal as   *)
(* keys when their fields are equal, and the fields change (hit_count,     *)
(* enabled).  All other objects are compared by identity.                  *)
(***************************************************************************)
CONSTANTS Debuggers,   \* also stand for their polling threads
          Script,      \* the Python thread of the script
          Owned,       \* interfaces, status handlers, memory views, thread contexts
          Handlers,    \* breakpoints, catchers, syscall handlers
          Addresses,   \* what a handler is hashed by: address, signal or syscall number
          None,
          Scenarios

(* equal: two handlers are made for one address, signal or syscall;        *)
(* raises: an exception leaves a with block.                               *)
AllUses == {"equal", "raises"}

Objects == Owned \cup Handlers
PyThreads == Debuggers \cup {Script}

(* The fields of a handler; those that change are abstracted to one bit. *)
Values == (Owned \cup Addresses) \X {0, 1}
Other(bit) == IF bit = 0 THEN 1 ELSE 0

ASSUME InstancesAssumption ==
    /\ None \notin PyThreads \cup Objects
    /\ Script \notin Debuggers
    /\ Owned \cap Handlers = {} /\ Owned \cap Addresses = {} /\ Addresses # {}
    /\ Scenarios \subseteq SUBSET AllUses

VARIABLES uses,
          started,             \* debuggers linked to themselves by start_up
          internal_debuggers,  \* the dictionary: the debugger of a key, None if it is no key
          value,               \* what an object is compared by
          maker,               \* the debugger that made an object, None if there is no object
          global_internal_debugger,
          internal_debugger_lock,   \* taken or not
          inside               \* the debugger that a Python thread is extending

instanceVars ==
    <<uses, started, internal_debuggers, value, maker, global_internal_debugger,
     internal_debugger_lock, inside>>

lockVars == <<internal_debugger_lock, inside>>

(* The entries that a lookup may find: their keys are equal to the object. *)
Found(v) == {k \in Objects : internal_debuggers[k] # None /\ value[k] = v}
Lookup(o) == {internal_debuggers[k] : k \in Found(value[o])}

Exists(o) == maker[o] # None

-------------------------------------------------------------------------------
(* start_up links the debugger to itself. *)
StartUp(d) ==
    /\ d \notin started
    /\ started' = started \cup {d}
    /\ UNCHANGED <<uses, internal_debuggers, value, maker, global_internal_debugger, lockVars>>

(* Mutant: the lock is not taken. *)
EnterUnlocked(p, d, target) ==
    /\ inside[p] = None
    /\ global_internal_debugger' = target
    /\ inside' = [inside EXCEPT ![p] = d]
    /\ UNCHANGED internal_debugger_lock
    /\ UNCHANGED <<uses, started, internal_debuggers, value, maker>>

Enter(p, d, target) ==
    /\ ~internal_debugger_lock
    /\ internal_debugger_lock' = TRUE
    /\ global_internal_debugger' = target
    /\ inside' = [inside EXCEPT ![p] = d]
    /\ UNCHANGED <<uses, started, internal_debuggers, value, maker>>

(* extend_internal_debugger with the debugger, or an object of it, as the  *)
(* referrer: start_up in the script, the rest in the polling thread.       *)
ExtendDebugger(p, d) ==
    /\ d \in started /\ p \in {d, Script}
    /\ Enter(p, d, d)

ExtendInterface(o) ==
    /\ Exists(o)
    /\ \E d \in Lookup(o) : Enter(maker[o], maker[o], d)

(* A constructor inside the block: provide_internal_debugger(self). *)
Construct(p, o) ==
    /\ inside[p] # None
    /\ ~Exists(o)
    /\ maker' = [maker EXCEPT ![o] = inside[p]]
    /\ value' = [value EXCEPT ![o] = <<o, 0>>]
    /\ internal_debuggers' = [internal_debuggers EXCEPT ![o] = global_internal_debugger]
    /\ UNCHANGED <<uses, started, global_internal_debugger, lockVars>>

Release(p) ==
    /\ inside[p] # None
    /\ inside' = [inside EXCEPT ![p] = None]
    /\ internal_debugger_lock' = FALSE

(* Mutant: the global debugger is not reset. *)
LeaveKeeps(p) ==
    /\ Release(p)
    /\ UNCHANGED global_internal_debugger
    /\ UNCHANGED <<uses, started, internal_debuggers, value, maker>>

Leave(p) ==
    /\ Release(p)
    /\ global_internal_debugger' = None
    /\ UNCHANGED <<uses, started, internal_debuggers, value, maker>>

(* An exception after the yield: the lock is released, nothing else. *)
Raises(p) ==
    /\ "raises" \in uses
    /\ Release(p)
    /\ UNCHANGED <<uses, started, internal_debuggers, value, maker, global_internal_debugger>>

-------------------------------------------------------------------------------
(* link_to_internal_debugger: an equal key is kept, its value replaced. *)
Link(o, d, v) ==
    \/ Found(v) = {} /\ internal_debuggers' = [internal_debuggers EXCEPT ![o] = d]
    \/ \E k \in Found(v) : internal_debuggers' = [internal_debuggers EXCEPT ![k] = d]

(* breakpoint, catch_signal, handle_syscall. *)
MakeHandler(d, o, a) ==
    /\ d \in started /\ inside[Script] = None
    /\ ~Exists(o)
    /\ "equal" \in uses \/ \A h \in Handlers : Exists(h) => value[h][1] # a
    /\ maker' = [maker EXCEPT ![o] = d]
    /\ value' = [value EXCEPT ![o] = <<a, 0>>]
    /\ Link(o, d, <<a, 0>>)
    /\ UNCHANGED <<uses, started, global_internal_debugger, lockVars>>

(* A hit, in the polling thread: fields change, the key with them. *)
Hit(h) ==
    /\ Exists(h)
    /\ value' = [value EXCEPT ![h] = <<value[h][1], Other(value[h][2])>>]
    /\ UNCHANGED <<uses, started, internal_debuggers, maker, global_internal_debugger, lockVars>>

(* enable or disable: provide_internal_debugger(self), which raises if     *)
(* there is neither a link nor a global debugger; then a field changes.    *)
Toggle(h) ==
    /\ Exists(h) /\ inside[Script] = None
    /\ \/ Lookup(h) # {} /\ UNCHANGED internal_debuggers
       \/ /\ Lookup(h) = {} /\ global_internal_debugger # None
          /\ internal_debuggers' = [internal_debuggers EXCEPT ![h] = global_internal_debugger]
    /\ value' = [value EXCEPT ![h] = <<value[h][1], Other(value[h][2])>>]
    /\ UNCHANGED <<uses, started, maker, global_internal_debugger, lockVars>>

(* Nothing refers to the object any more: an entry with it as key goes. *)
Collect(o) ==
    /\ Exists(o)
    /\ maker' = [maker EXCEPT ![o] = None]
    /\ internal_debuggers' = [internal_debuggers EXCEPT ![o] = None]
    /\ UNCHANGED <<uses, started, value, global_internal_debugger, lockVars>>

-------------------------------------------------------------------------------
InstancesInit ==
    /\ uses \in Scenarios
    /\ started = {}
    /\ internal_debuggers = [o \in Objects |-> None]
    /\ \E a \in Addresses : value = [o \in Objects |-> <<a, 0>>]
    /\ maker = [o \in Objects |-> None]
    /\ global_internal_debugger = None
    /\ internal_debugger_lock = FALSE /\ inside = [p \in PyThreads |-> None]

InstancesNext ==
    \/ \E d \in Debuggers : StartUp(d)
    \/ \E p \in PyThreads, d \in Debuggers : ExtendDebugger(p, d)
    \/ \E o \in Owned : ExtendInterface(o)
    \/ \E p \in PyThreads, o \in Owned : Construct(p, o)
    \/ \E p \in PyThreads : Leave(p) \/ Raises(p)
    \/ \E d \in Debuggers, h \in Handlers, a \in Addresses : MakeHandler(d, h, a)
    \/ \E h \in Handlers : Hit(h) \/ Toggle(h)
    \/ \E o \in Objects : Collect(o)

InstancesSpec == InstancesInit /\ [][InstancesNext]_instanceVars

-------------------------------------------------------------------------------
(* Properties. *)

(* Every variable holds a value of its kind. *)
InstancesTypeOK ==
    /\ uses \in Scenarios
    /\ started \subseteq Debuggers
    /\ internal_debuggers \in [Objects -> Debuggers \cup {None}]
    /\ value \in [Objects -> Values]
    /\ maker \in [Objects -> Debuggers \cup {None}]
    /\ global_internal_debugger \in Debuggers \cup {None}
    /\ internal_debugger_lock \in BOOLEAN
    /\ inside \in [PyThreads -> Debuggers \cup {None}]

(* Every object finds the debugger that made it, and no other, whatever    *)
(* the other debuggers and their polling threads do meanwhile, whatever    *)
(* happens to its fields, and even after an exception left the global      *)
(* debugger set; as long as no two handlers are equal.                     *)
LinkedRight == "equal" \notin uses => \A o \in Objects : Exists(o) => Lookup(o) = {maker[o]}

(* A thread inside the block finds the debugger that it extends in the     *)
(* global; when no thread is inside there is none, so that an object       *)
(* without a debugger gets an error and not the debugger of someone else.  *)
GlobalRight ==
    /\ \A p \in PyThreads : inside[p] # None => global_internal_debugger = inside[p]
    /\ "raises" \notin uses /\ (\A p \in PyThreads : inside[p] = None) =>
          global_internal_debugger = None
================================================================================
