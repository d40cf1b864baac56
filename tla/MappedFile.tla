----------------------------- MODULE MappedFile -----------------------------
(***************************************************************************)
(* class MappedFile of include/itch/mapped_file.hpp and                    *)
(* src/mapped_file.cpp: which object owns which mapping, through failing   *)
(* system calls, moves and destruction.                                    *)
(*                                                                         *)
(* The constructor is one step per system call, since each may fail with   *)
(* the effects of the others in place.  Objects are places in memory where *)
(* a MappedFile may be constructed, moved, assigned and destroyed, in any  *)
(* order the language allows.  A mapping gets a number of its own, so that *)
(* one that was unmapped is never taken for a later one.                   *)
(***************************************************************************)
EXTENDS Integers, Containers

CONSTANTS
  Object,   \* places for MappedFile objects
  Errno,    \* error codes of system calls
  Sizes,    \* st_size of the files there are
  MaxMaps   \* bound: how many mappings are ever made

ASSUME MappedFileAssumption == Sizes \subseteq Nat /\ MaxMaps \in Nat

VARIABLES
  objects,   \* data_ and size_ where an object lives, Raw elsewhere
  ctor,      \* the constructor that is running: its locals; Idle if none is
  open_fds,  \* how many descriptors the process has open
  maps,      \* the length of each mapping that exists
  made,      \* how many mappings have been made
  errno,
  thrown,    \* the code of the last exception
  cause,     \* history: errno right after the last call that failed
  spans      \* history: the mappings each living object has given spans of

mappedVars == <<objects, ctor, open_fds, maps, made, errno, thrown, cause, spans>>

nullptr == 0
Empty   == [data_ |-> nullptr, size_ |-> 0]
Raw     == [data_ |-> -1, size_ |-> 0]  \* no object's state
Success == "success"
Idle    == [at |-> "idle", size |-> 0, mapping |-> nullptr, failure |-> Success]
is_empty == "is empty"  \* the runtime_error, which carries no errno

MappedInit ==
  /\ objects = [o \in Object |-> Raw]
  /\ ctor = Idle
  /\ open_fds = 0
  /\ maps = EmptyMap
  /\ made = 0
  /\ errno = Success /\ thrown = Success /\ cause = Success
  /\ spans = [o \in Object |-> {}]

-----------------------------------------------------------------------------
Alive(o) == objects[o] # Raw

(* MappedFile(const std::filesystem::path&) *)

(* A system call of the constructor that fails with `code`.                 *)
Fails(code) == errno' = code /\ cause' = code

Open(o) ==
  /\ ctor = Idle /\ ~Alive(o)
  /\ \/ /\ open_fds' = open_fds + 1
        /\ ctor' = [ctor EXCEPT !.at = "opened"]
        /\ UNCHANGED <<errno, thrown, cause>>
     \/ \E code \in Errno : Fails(code) /\ thrown' = code /\ UNCHANGED <<ctor, open_fds>>
  /\ UNCHANGED <<objects, maps, made, spans>>

Fstat(size) ==
  /\ ctor.at = "opened"
  /\ \/ \E code \in Errno :
          /\ Fails(code)
          /\ ctor' = [ctor EXCEPT !.at = "failed", !.failure = code]
     \/ /\ size = 0
        /\ cause' = is_empty
        /\ ctor' = [ctor EXCEPT !.at = "failed", !.failure = is_empty]
        /\ UNCHANGED errno
     \/ /\ size > 0
        /\ ctor' = [ctor EXCEPT !.at = "sized", !.size = size]
        /\ UNCHANGED <<errno, cause>>
  /\ UNCHANGED <<objects, open_fds, maps, made, thrown, spans>>

Mmap ==
  /\ ctor.at = "sized"
  /\ \/ \E code \in Errno :
          /\ Fails(code)
          /\ ctor' = [ctor EXCEPT !.at = "failed", !.failure = code]
          /\ UNCHANGED <<maps, made>>
     \/ /\ made < MaxMaps
        /\ made' = made + 1
        /\ maps' = MapPut(maps, made', ctor.size)
        /\ ctor' = [ctor EXCEPT !.at = "mapped", !.mapping = made']
        /\ UNCHANGED <<errno, cause>>
  /\ UNCHANGED <<objects, open_fds, thrown, spans>>

(* close() gives the descriptor up even when it fails, and may set errno.   *)
Close == open_fds' = open_fds - 1 /\ errno' \in Errno \cup {errno}

(* The descriptor left open on the error paths.                             *)
SlipNoClose ==
  /\ ctor.at = "failed"
  /\ thrown' = ctor.failure
  /\ ctor' = Idle
  /\ UNCHANGED <<objects, open_fds, maps, made, errno, cause, spans>>

(* errno read again after close().                                          *)
SlipLateErrno ==
  /\ ctor.at = "failed"
  /\ Close
  /\ thrown' = IF ctor.failure = is_empty THEN is_empty ELSE errno'
  /\ ctor' = Idle
  /\ UNCHANGED <<objects, maps, made, cause, spans>>

(* Close, then throw for fstat, for an empty file or for mmap.              *)
CloseAndThrow ==
  /\ ctor.at = "failed"
  /\ Close
  /\ thrown' = ctor.failure
  /\ ctor' = Idle
  /\ UNCHANGED <<objects, maps, made, cause, spans>>

(* Close, then fill in the object; what madvise returns is ignored.  Which  *)
(* of the free places is being constructed shows only here.                 *)
CloseAndComplete(o) ==
  /\ ctor.at = "mapped" /\ ~Alive(o)
  /\ Close
  /\ objects' = [objects EXCEPT ![o] =
                   [data_ |-> ctor.mapping, size_ |-> ctor.size]]
  /\ ctor' = Idle
  /\ UNCHANGED <<maps, made, thrown, cause, spans>>

-----------------------------------------------------------------------------
(* munmap of `length` bytes: what is past them would stay mapped.           *)
munmap(object) ==
  IF object.data_ \in DOMAIN maps /\ maps[object.data_] <= object.size_
    THEN MapErase(maps, object.data_) ELSE maps

Unmap(object) == maps' = IF object.data_ # nullptr THEN munmap(object) ELSE maps

(* ~MappedFile()                                                            *)
Destroy(o) ==
  /\ ctor = Idle /\ Alive(o)
  /\ Unmap(objects[o])
  /\ objects' = [objects EXCEPT ![o] = Raw]
  /\ spans' = [spans EXCEPT ![o] = {}]
  /\ UNCHANGED <<ctor, open_fds, made, errno, thrown, cause>>

(* MappedFile(MappedFile&&)                                                 *)
MoveConstruct(o, other) ==
  /\ ctor = Idle /\ ~Alive(o) /\ Alive(other)
  /\ objects' = [objects EXCEPT ![o] = objects[other], ![other] = Empty]
  /\ UNCHANGED <<ctor, open_fds, maps, made, errno, thrown, cause, spans>>

(* No test for assignment to itself: exchange() hands the value back, but   *)
(* the mapping is gone.                                                     *)
SlipSelfAssign(o, other) ==
  /\ ctor = Idle /\ Alive(o) /\ Alive(other)
  /\ Unmap(objects[o])
  /\ objects' = [objects EXCEPT ![other] = Empty, ![o] = objects[other]]
  /\ UNCHANGED <<ctor, open_fds, made, errno, thrown, cause, spans>>

(* What was moved in is released instead of what it replaces.               *)
SlipUnmapOther(o, other) ==
  /\ ctor = Idle /\ Alive(o) /\ Alive(other)
  /\ IF o = other THEN UNCHANGED <<maps, objects>>
     ELSE Unmap(objects[other]) /\ objects' = [objects EXCEPT ![other] = Empty]
  /\ UNCHANGED <<ctor, open_fds, made, errno, thrown, cause, spans>>

(* operator=(MappedFile&&)                                                  *)
MoveAssign(o, other) ==
  /\ ctor = Idle /\ Alive(o) /\ Alive(other)
  /\ IF o = other THEN UNCHANGED <<maps, objects>>
     ELSE /\ Unmap(objects[o])
          /\ objects' = [objects EXCEPT ![o] = objects[other], ![other] = Empty]
  /\ UNCHANGED <<ctor, open_fds, made, errno, thrown, cause, spans>>

bytes(o) ==
  /\ ctor = Idle /\ Alive(o)
  /\ objects[o].data_ # nullptr
  /\ spans' = [spans EXCEPT ![o] = @ \cup {objects[o].data_}]
  /\ UNCHANGED <<objects, ctor, open_fds, maps, made, errno, thrown, cause>>

MappedNext ==
  \/ \E o \in Object : Open(o) \/ CloseAndComplete(o) \/ Destroy(o) \/ bytes(o)
  \/ \E size \in Sizes : Fstat(size)
  \/ Mmap
  \/ CloseAndThrow
  \/ \E o, other \in Object : MoveConstruct(o, other) \/ MoveAssign(o, other)

MappedSpec == MappedInit /\ [][MappedNext]_mappedVars

-----------------------------------------------------------------------------
(* Properties *)

Owns(o, m) == Alive(o) /\ objects[o].data_ = m

(* The mapping that the constructor holds in a local, until it returns.     *)
InConstruction == IF ctor.at = "mapped" THEN {ctor.mapping} ELSE {}

(***************************************************************************)
(* Every mapping has exactly one owner, which knows its length, and an     *)
(* object without one has an empty span: none is leaked, unmapped twice or *)
(* reached through a moved-from object, after any sequence of moves,       *)
(* assignments (to itself too) and failed constructions.                   *)
(***************************************************************************)
OneOwner ==
  /\ \A o \in Object : Alive(o) =>
       \/ objects[o] = Empty
       \/ /\ objects[o].data_ \in DOMAIN maps \ InConstruction
          /\ objects[o].size_ = maps[objects[o].data_]
          /\ \A other \in Object \ {o} : ~Owns(other, objects[o].data_)
  /\ \A m \in DOMAIN maps \ InConstruction : \E o \in Object : Owns(o, m)

(***************************************************************************)
(* The constructor closes the descriptor exactly once on every path, the   *)
(* throwing ones included.                                                 *)
(***************************************************************************)
NoDescriptorLeft == open_fds = IF ctor = Idle THEN 0 ELSE 1

(***************************************************************************)
(* The exception carries the code of the call that failed, although        *)
(* close() runs in between and may change errno.                           *)
(***************************************************************************)
ThrowsTheCause == ctor = Idle => thrown = cause

(***************************************************************************)
(* A mapping goes away only when its owner is destroyed or takes over what *)
(* another object had, never by being moved: a span stays valid in the     *)
(* hands of whoever owns the mapping now.                                  *)
(***************************************************************************)
UnmappedWithItsOwner ==
  [][\A m \in DOMAIN maps \ DOMAIN maps' : \A o \in Object : Owns(o, m) =>
       \/ objects'[o] = Raw
       \/ \E other \in Object \ {o} : objects'[o] = objects[other] /\ objects'[other] = Empty]_mappedVars

(***************************************************************************)
(* include/itch/mapped_file.hpp, line 16: "The span returned by bytes() is *)
(* valid for the object's lifetime."                                       *)
(***************************************************************************)
SpanValidForLifetime == \A o \in Object : Alive(o) => spans[o] \subseteq DOMAIN maps
=============================================================================
