-------------------------- MODULE MappedFileProofs --------------------------
(***************************************************************************)
(* The safety properties of MappedFile, for any number of objects, files   *)
(* and mappings, and whatever the system calls return.                     *)
(***************************************************************************)
EXTENDS MappedFile, TLAPS

-----------------------------------------------------------------------------
(* Ownership *)

(* OneOwner as a relation between the objects, the mappings and those held  *)
(* by a constructor, so that it can be said of a state and of the next one. *)
HasMapping(objs, o, m) == objs[o] # Raw /\ objs[o].data_ = m

OwnsAlone(objs, mps, held, o) ==
  /\ objs[o].data_ \in DOMAIN mps \ held
  /\ objs[o].size_ = mps[objs[o].data_]
  /\ \A other \in Object \ {o} : ~HasMapping(objs, other, objs[o].data_)

Ownership(objs, mps, held) ==
  /\ \A o \in Object : objs[o] # Raw => objs[o] = Empty \/ OwnsAlone(objs, mps, held, o)
  /\ \A m \in DOMAIN mps \ held : \E o \in Object : HasMapping(objs, o, m)

(* The relation is the property, of this state. *)
LEMMA OwnershipIsOneOwner == OneOwner <=> Ownership(objects, maps, InConstruction)
  BY DEF OneOwner, Ownership, OwnsAlone, HasMapping, Owns, Alive

Objects == [Object -> [data_ : Int, size_ : Int]]

(* A mapping that nobody has goes to an object that has none. *)
LEMMA GiveTo ==
  ASSUME NEW objs \in Objects, NEW mps, 0 \notin DOMAIN mps,
         NEW d \in DOMAIN mps, NEW o \in Object, objs[o] = Raw,
         NEW objs1, objs1 = [objs EXCEPT ![o] = [data_ |-> d, size_ |-> mps[d]]],
         d # -1, Ownership(objs, mps, {d})
  PROVE  Ownership(objs1, mps, {})
  <1>1. /\ objs1[o].data_ = d /\ objs1[o].size_ = mps[d]
        /\ objs1[o] # Raw
        /\ \A x \in Object \ {o} : objs1[x] = objs[x]
    BY DEF Objects, Raw
  <1>2. \A x \in Object \ {o} : ~HasMapping(objs1, x, d)
    <2>1. SUFFICES ASSUME NEW x \in Object \ {o}, objs[x] # Raw, objs[x].data_ = d
                   PROVE  FALSE
      BY <1>1 DEF HasMapping
    <2>2. objs[x] = Empty \/ OwnsAlone(objs, mps, {d}, x)
      BY <2>1 DEF Ownership
    <2> QED
      BY <2>1, <2>2 DEF OwnsAlone, Empty, nullptr
  <1>3. OwnsAlone(objs1, mps, {}, o)
    BY <1>1, <1>2 DEF OwnsAlone
  <1>4. ASSUME NEW x \in Object \ {o}, objs1[x] # Raw, objs1[x] # Empty
        PROVE  OwnsAlone(objs1, mps, {}, x)
    <2>1. OwnsAlone(objs, mps, {d}, x)
      BY <1>1, <1>4 DEF Ownership
    <2> QED
      BY <1>1, <2>1 DEF OwnsAlone, HasMapping
  <1>5. ASSUME NEW m \in DOMAIN mps
        PROVE  \E x \in Object : HasMapping(objs1, x, m)
    <2>1. CASE m = d
      BY <1>1, <2>1 DEF HasMapping
    <2>2. CASE m # d
      <3>1. PICK x \in Object : HasMapping(objs, x, m)
        BY <2>2 DEF Ownership
      <3> QED
        BY <1>1, <3>1 DEF HasMapping
    <2> QED
      BY <2>1, <2>2
  <1> QED
    BY <1>3, <1>4, <1>5 DEF Ownership

(* One object takes what another has, and what it had itself, if anything,  *)
(* is unmapped. *)
LEMMA MoveBetween ==
  ASSUME NEW objs \in Objects, NEW mps, {0, -1} \cap DOMAIN mps = {},
         NEW o \in Object, NEW other \in Object \ {o}, objs[other] # Raw,
         NEW objs1, objs1[o] = objs[other], objs1[other] = Empty,
         \A x \in Object \ {o, other} : objs1[x] = objs[x],
         NEW mps1, DOMAIN mps1 = DOMAIN mps \ {objs[o].data_},
         \A m \in DOMAIN mps1 : mps1[m] = mps[m],
         Ownership(objs, mps, {})
  PROVE  Ownership(objs1, mps1, {})
  <1>1. /\ objs1[o] = objs[other]
        /\ objs1[other] = Empty
        /\ \A x \in Object \ {o, other} : objs1[x] = objs[x]
    OBVIOUS
  <1> DEFINE Was(x) == IF x = o THEN other ELSE x
  <1>2. ASSUME NEW x \in Object, objs1[x] # Raw, objs1[x] # Empty
        PROVE  /\ Was(x) \in Object /\ x # other
               /\ objs1[x] = objs[Was(x)]
               /\ OwnsAlone(objs, mps, {}, Was(x))
               /\ objs1[x].data_ # objs[o].data_
    <2>1. Was(x) \in Object /\ Was(x) # o /\ x # other /\ objs1[x] = objs[Was(x)]
      BY <1>1, <1>2
    <2>2. OwnsAlone(objs, mps, {}, Was(x))
      BY <1>2, <2>1 DEF Ownership
    <2>3. objs[o] # Raw => objs[Was(x)].data_ # objs[o].data_
      BY <2>1, <2>2 DEF OwnsAlone, HasMapping
    <2>4. objs[o] = Raw => objs[Was(x)].data_ # objs[o].data_
      BY <2>2 DEF OwnsAlone, Raw
    <2> QED
      BY <2>1, <2>2, <2>3, <2>4
  <1>3. ASSUME NEW x \in Object, objs1[x] # Raw, objs1[x] # Empty
        PROVE  OwnsAlone(objs1, mps1, {}, x)
    <2>1. /\ x # other
          /\ objs1[x] = objs[Was(x)]
          /\ OwnsAlone(objs, mps, {}, Was(x))
          /\ objs1[x].data_ # objs[o].data_
      BY <1>2, <1>3
    <2>2. objs1[x].data_ \in DOMAIN mps1 /\ objs1[x].size_ = mps1[objs1[x].data_]
      BY <2>1 DEF OwnsAlone
    <2>3. ASSUME NEW y \in Object \ {x}, HasMapping(objs1, y, objs1[x].data_)
          PROVE  FALSE
      <3>1. objs1[y] # Empty /\ objs1[y] # Raw
        BY <2>1, <2>3 DEF HasMapping, Empty, nullptr, OwnsAlone
      <3>2. Was(y) \in Object /\ y # other /\ objs1[y] = objs[Was(y)] /\ OwnsAlone(objs, mps, {}, Was(y))
        BY <1>2, <3>1
      <3>3. Was(y) # Was(x)
        BY <2>1, <2>3, <3>2
      <3> HIDE DEF Was
      <3> QED
        BY <2>1, <2>3, <3>1, <3>2, <3>3 DEF OwnsAlone, HasMapping
    <2> QED
      BY <2>2, <2>3 DEF OwnsAlone
  <1>4. ASSUME NEW m \in DOMAIN mps1
        PROVE  \E x \in Object : HasMapping(objs1, x, m)
    <2>1. m # objs[o].data_ /\ m \in DOMAIN mps
      OBVIOUS
    <2>2. PICK y \in Object : HasMapping(objs, y, m)
      BY <2>1 DEF Ownership
    <2>3. y # o
      BY <2>1, <2>2 DEF HasMapping
    <2>4. CASE y = other
      BY <1>1, <2>2, <2>4 DEF HasMapping
    <2>5. CASE y # other
      BY <1>1, <2>2, <2>3, <2>5 DEF HasMapping
    <2> QED
      BY <2>4, <2>5
  <1> HIDE DEF Was
  <1> QED
    BY <1>3, <1>4 DEF Ownership

(* An object that goes away takes its mapping with it. *)
LEMMA TakeFrom ==
  ASSUME NEW objs \in Objects, NEW mps,
         NEW o \in Object, objs[o] # Raw,
         NEW objs1, objs1 = [objs EXCEPT ![o] = Raw],
         NEW mps1, DOMAIN mps1 = DOMAIN mps \ {objs[o].data_},
         \A m \in DOMAIN mps1 : mps1[m] = mps[m],
         Ownership(objs, mps, {})
  PROVE  Ownership(objs1, mps1, {})
  <1>1. objs1[o] = Raw /\ \A x \in Object \ {o} : objs1[x] = objs[x]
    BY DEF Objects
  <1>2. ASSUME NEW x \in Object, objs1[x] # Raw, objs1[x] # Empty
        PROVE  OwnsAlone(objs1, mps1, {}, x)
    <2>1. x # o /\ objs1[x] = objs[x] /\ OwnsAlone(objs, mps, {}, x)
      BY <1>1, <1>2 DEF Ownership
    <2>2. objs[x].data_ # objs[o].data_
      BY <2>1 DEF OwnsAlone, HasMapping
    <2> QED
      BY <1>1, <2>1, <2>2 DEF OwnsAlone, HasMapping
  <1>3. ASSUME NEW m \in DOMAIN mps1
        PROVE  \E x \in Object : HasMapping(objs1, x, m)
    <2>1. PICK x \in Object : HasMapping(objs, x, m)
      BY DEF Ownership
    <2> QED
      BY <1>1, <2>1 DEF HasMapping
  <1> QED
    BY <1>2, <1>3 DEF Ownership

-----------------------------------------------------------------------------
(* The inductive invariant *)

States == {"idle", "opened", "sized", "mapped", "failed"}

MappedTypeOK ==
  /\ objects \in Objects
  /\ ctor \in [at : States, size : Nat, mapping : Nat,
               failure : Errno \cup {Success, is_empty}]
  /\ made \in Nat
  /\ maps \in [DOMAIN maps -> Nat]
  /\ DOMAIN maps \subseteq 1 .. made
  /\ open_fds \in Nat

(* What each stage of the constructor has established.  The mapping it      *)
(* holds is there and as long as the file, and the code it will throw is    *)
(* kept apart from errno.                                                   *)
Stages ==
  /\ ctor.at = "idle" <=> ctor = Idle
  /\ ctor.at = "mapped" => /\ ctor.mapping \in DOMAIN maps
                           /\ maps[ctor.mapping] = ctor.size
  /\ IF ctor.at = "failed" THEN ctor.failure = cause ELSE thrown = cause

IInv == MappedTypeOK /\ Stages /\ OneOwner /\ NoDescriptorLeft

(* The parts that do not depend on who owns what. *)
LEMMA StageFacts ==
  ASSUME IInv
  PROVE  /\ ctor = Idle <=> ctor.at = "idle"
         /\ open_fds = IF ctor.at = "idle" THEN 0 ELSE 1
         /\ InConstruction = IF ctor.at = "mapped" THEN {ctor.mapping} ELSE {}
         /\ {0, -1} \cap DOMAIN maps = {}
         /\ Ownership(objects, maps, InConstruction)
  <1>1. {0, -1} \cap DOMAIN maps = {}
    BY DEF IInv, MappedTypeOK
  <1>2. Ownership(objects, maps, InConstruction)
    BY OwnershipIsOneOwner DEF IInv
  <1> QED
    BY <1>1, <1>2 DEF IInv, Stages, NoDescriptorLeft, InConstruction

(* It is enough to know the constructor's next stage and who owns what. *)
LEMMA NextStage ==
  ASSUME MappedTypeOK', Stages',
         open_fds' = IF ctor'.at = "idle" THEN 0 ELSE 1,
         Ownership(objects', maps', IF ctor'.at = "mapped" THEN {ctor'.mapping} ELSE {})
  PROVE  IInv'
  <1>1. InConstruction' = IF ctor'.at = "mapped" THEN {ctor'.mapping} ELSE {}
    BY DEF InConstruction
  <1>2. OneOwner' <=> Ownership(objects', maps', InConstruction')
    BY DEF OneOwner, Ownership, OwnsAlone, HasMapping, Owns, Alive
  <1>3. NoDescriptorLeft'
    BY DEF Stages, NoDescriptorLeft
  <1> QED
    BY <1>1, <1>2, <1>3 DEF IInv

-----------------------------------------------------------------------------
(* The constructor's steps *)

(* fstat or mmap fails, or the file is empty: the descriptor is still open. *)
LEMMA FailurePreserves ==
  ASSUME IInv, ctor.at \in {"opened", "sized"}, NEW code \in Errno \cup {is_empty},
         cause' = code, ctor' = [ctor EXCEPT !.at = "failed", !.failure = code],
         UNCHANGED <<objects, open_fds, maps, made, thrown, spans>>
  PROVE  IInv'
  <1>1. ctor'.at = "failed" /\ ctor'.failure = code
    BY DEF IInv, MappedTypeOK
  <1>2. MappedTypeOK'
    BY DEF IInv, MappedTypeOK, States
  <1>3. Stages'
    BY <1>1 DEF Stages, Idle
  <1>4. open_fds' = 1 /\ Ownership(objects', maps', {})
    BY StageFacts
  <1> QED
    BY <1>1, <1>2, <1>3, <1>4, NextStage

(* ::open, which may fail: the constructor holds a descriptor or has thrown. *)
LEMMA OpenPreserves ==
  ASSUME IInv, NEW o \in Object, Open(o)
  PROVE  IInv'
  <1>1. /\ ctor = Idle /\ ctor.at = "idle" /\ open_fds = 0
        /\ Ownership(objects, maps, {})
        /\ UNCHANGED <<objects, maps, made, spans>>
    BY StageFacts DEF Open, Idle
  <1>2. ASSUME open_fds' = open_fds + 1, ctor' = [ctor EXCEPT !.at = "opened"],
               UNCHANGED <<errno, thrown, cause>>
        PROVE  IInv'
    <2>1. ctor'.at = "opened"
      BY <1>2 DEF IInv, MappedTypeOK
    <2>2. MappedTypeOK'
      BY <1>1, <1>2 DEF IInv, MappedTypeOK, States
    <2>3. Stages'
      BY <1>1, <1>2, <2>1 DEF IInv, Stages, Idle
    <2> QED
      BY <1>1, <1>2, <2>1, <2>2, <2>3, NextStage
  <1>3. ASSUME NEW code \in Errno, Fails(code), thrown' = code, UNCHANGED <<ctor, open_fds>>
        PROVE  IInv'
    <2>1. MappedTypeOK'
      BY <1>1, <1>3 DEF IInv, MappedTypeOK
    <2>2. Stages'
      BY <1>1, <1>3 DEF IInv, Stages, Fails
    <2> QED
      BY <1>1, <1>3, <2>1, <2>2, NextStage
  <1> QED
    BY <1>2, <1>3 DEF Open

(* ::fstat, and what the constructor makes of the size. *)
LEMMA FstatPreserves ==
  ASSUME IInv, NEW size \in Sizes, Fstat(size)
  PROVE  IInv'
  <1>1. ctor.at = "opened" /\ UNCHANGED <<objects, open_fds, maps, made, thrown, spans>>
    BY DEF Fstat
  <1>2. ASSUME NEW code \in Errno \cup {is_empty}, cause' = code,
               ctor' = [ctor EXCEPT !.at = "failed", !.failure = code]
        PROVE  IInv'
    BY <1>1, <1>2, FailurePreserves
  <1>3. ASSUME ctor' = [ctor EXCEPT !.at = "sized", !.size = size], UNCHANGED <<errno, cause>>
        PROVE  IInv'
    <2>1. size \in Nat
      BY MappedFileAssumption
    <2>2. ctor'.at = "sized"
      BY <1>3 DEF IInv, MappedTypeOK
    <2>3. MappedTypeOK'
      BY <1>1, <1>3, <2>1 DEF IInv, MappedTypeOK, States
    <2>4. Stages'
      BY <1>1, <1>3, <2>2 DEF IInv, Stages, Idle
    <2>5. open_fds' = 1 /\ Ownership(objects', maps', {})
      BY <1>1, StageFacts
    <2> QED
      BY <2>2, <2>3, <2>4, <2>5, NextStage
  <1> QED
    BY <1>2, <1>3 DEF Fstat, Fails

(* ::mmap: the new mapping belongs to the constructor until the object has it. *)
LEMMA MmapPreserves ==
  ASSUME IInv, Mmap
  PROVE  IInv'
  <1>1. ctor.at = "sized" /\ UNCHANGED <<objects, open_fds, thrown, spans>>
    BY DEF Mmap
  <1>2. ASSUME NEW code \in Errno, Fails(code), UNCHANGED <<maps, made>>,
               ctor' = [ctor EXCEPT !.at = "failed", !.failure = code]
        PROVE  IInv'
    BY <1>1, <1>2, FailurePreserves DEF Fails
  <1>3. ASSUME made' = made + 1, maps' = MapPut(maps, made', ctor.size),
               ctor' = [ctor EXCEPT !.at = "mapped", !.mapping = made'],
               UNCHANGED <<errno, cause>>
        PROVE  IInv'
    <2> USE <1>3
    <2>1. ctor'.at = "mapped" /\ ctor'.mapping = made' /\ ctor'.size = ctor.size
      BY DEF IInv, MappedTypeOK
    \* The number of the new mapping is no object's.
    <2>2. made' \in Nat /\ made' # 0 /\ made' \notin DOMAIN maps /\ ctor.size \in Nat
      BY DEF IInv, MappedTypeOK
    <2>3. /\ DOMAIN maps' = DOMAIN maps \cup {made'}
          /\ maps'[made'] = ctor.size
          /\ \A m \in DOMAIN maps : maps'[m] = maps[m]
      BY <2>2 DEF MapPut
    <2>4. MappedTypeOK'
      <3>1. maps' \in [DOMAIN maps' -> Nat]
        BY <2>2 DEF MapPut, IInv, MappedTypeOK
      <3>2. DOMAIN maps' \subseteq 1 .. made'
        BY <2>2, <2>3 DEF IInv, MappedTypeOK
      <3> QED
        BY <1>1, <2>2, <3>1, <3>2 DEF IInv, MappedTypeOK, States
    <2>5. Stages'
      BY <1>1, <2>1, <2>3 DEF IInv, Stages, Idle
    <2>6. Ownership(objects, maps, {})
      BY <1>1, StageFacts
    <2>7. Ownership(objects', maps', {made'})
      BY <1>1, <2>2, <2>3, <2>6 DEF Ownership, OwnsAlone
    <2> QED
      BY <1>1, <2>1, <2>4, <2>5, <2>7, StageFacts, NextStage
  <1> QED
    BY <1>2, <1>3 DEF Mmap

(* An error path closes the descriptor and throws what it had saved. *)
LEMMA CloseAndThrowPreserves ==
  ASSUME IInv, CloseAndThrow
  PROVE  IInv'
  <1>1. /\ ctor.at = "failed" /\ ctor' = Idle /\ ctor'.at = "idle"
        /\ thrown' = ctor.failure /\ open_fds' = open_fds - 1
        /\ UNCHANGED <<objects, maps, made, cause>>
    BY DEF CloseAndThrow, Close, Idle
  <1>2. open_fds' = 0 /\ Ownership(objects', maps', {})
    BY <1>1, StageFacts
  <1>3. MappedTypeOK'
    BY <1>1, <1>2 DEF IInv, MappedTypeOK, States, Idle, nullptr
  <1>4. Stages'
    BY <1>1 DEF IInv, Stages
  <1> QED
    BY <1>1, <1>2, <1>3, <1>4, NextStage

(* The mapping passes from the constructor to the object. *)
LEMMA CompletePreserves ==
  ASSUME IInv, NEW o \in Object, CloseAndComplete(o)
  PROVE  IInv'
  <1> DEFINE d == ctor.mapping
  <1>1. /\ ctor.at = "mapped" /\ objects[o] = Raw
        /\ d \in DOMAIN maps /\ maps[d] = ctor.size /\ d \in Nat /\ ctor.size \in Nat
    BY DEF IInv, CloseAndComplete, Stages, MappedTypeOK, Alive
  <1>2. /\ objects' = [objects EXCEPT ![o] = [data_ |-> d, size_ |-> maps[d]]]
        /\ ctor' = Idle /\ ctor'.at = "idle" /\ open_fds' = open_fds - 1
        /\ UNCHANGED <<maps, made, thrown, cause>>
    BY <1>1 DEF CloseAndComplete, Close, Idle
  <1>3. open_fds' = 0 /\ 0 \notin DOMAIN maps /\ Ownership(objects, maps, {d})
    BY <1>1, <1>2, StageFacts
  <1>4. MappedTypeOK'
    BY <1>1, <1>2, <1>3 DEF IInv, MappedTypeOK, Objects, States, Idle, nullptr
  <1>5. Stages'
    BY <1>1, <1>2 DEF IInv, Stages
  <1>6. Ownership(objects', maps, {})
    <2>1. objects \in Objects /\ d # -1
      BY <1>1 DEF IInv, MappedTypeOK
    <2> HIDE DEF d
    <2> QED
      BY <1>1, <1>2, <1>3, <2>1, GiveTo
  <1> QED
    BY <1>2, <1>3, <1>4, <1>5, <1>6, NextStage

-----------------------------------------------------------------------------
(* The destructor and the moves *)

(* What is unmapped is the whole of what the object owns, and nothing when  *)
(* it owns nothing. *)
LEMMA UnmapFacts ==
  ASSUME IInv, ctor = Idle, NEW o \in Object, Alive(o), Unmap(objects[o])
  PROVE  /\ DOMAIN maps' = DOMAIN maps \ {objects[o].data_}
         /\ \A m \in DOMAIN maps' : maps'[m] = maps[m]
         /\ maps' \in [DOMAIN maps' -> Nat]
  <1> DEFINE d == objects[o].data_
  <1>1. maps \in [DOMAIN maps -> Nat] /\ 0 \notin DOMAIN maps
    BY StageFacts DEF IInv, MappedTypeOK
  <1>2. objects[o] = Empty \/ OwnsAlone(objects, maps, {}, o)
    BY StageFacts DEF Ownership, Alive
  <1>3. CASE objects[o] = Empty
    <2>1. maps' = maps /\ d = 0
      BY <1>3 DEF Unmap, Empty, nullptr
    <2> QED
      BY <1>1, <2>1
  <1>4. CASE OwnsAlone(objects, maps, {}, o)
    <2>1. d \in DOMAIN maps /\ d # 0 /\ objects[o].size_ = maps[d] /\ maps[d] \in Nat
      BY <1>1, <1>4 DEF OwnsAlone
    <2>2. maps' = [m \in DOMAIN maps \ {d} |-> maps[m]]
      BY <2>1 DEF Unmap, munmap, MapErase, Restrict, nullptr
    <2> QED
      BY <1>1, <2>2
  <1> QED
    BY <1>2, <1>3, <1>4

(* Between constructions the rest of the invariant is untouched. *)
LEMMA IdlePreserves ==
  ASSUME IInv, ctor = Idle, objects' \in Objects,
         maps' \in [DOMAIN maps' -> Nat], DOMAIN maps' \subseteq DOMAIN maps,
         Ownership(objects', maps', {}),
         UNCHANGED <<ctor, open_fds, made, thrown, cause>>
  PROVE  IInv'
  <1>1. ctor.at = "idle" /\ open_fds = 0
    BY StageFacts
  <1>2. MappedTypeOK'
    BY DEF IInv, MappedTypeOK
  <1>3. Stages'
    BY <1>1 DEF IInv, Stages
  <1> QED
    BY <1>1, <1>2, <1>3, NextStage

(* The destructor unmaps what its object owns. *)
LEMMA DestroyPreserves ==
  ASSUME IInv, NEW o \in Object, Destroy(o)
  PROVE  IInv'
  <1>1. /\ ctor = Idle /\ ctor.at = "idle" /\ Alive(o) /\ Unmap(objects[o])
        /\ objects' = [objects EXCEPT ![o] = Raw]
        /\ UNCHANGED <<ctor, open_fds, made, thrown, cause>>
    BY DEF Destroy, Idle
  <1>2. /\ DOMAIN maps' = DOMAIN maps \ {objects[o].data_}
        /\ \A m \in DOMAIN maps' : maps'[m] = maps[m]
        /\ maps' \in [DOMAIN maps' -> Nat]
    BY <1>1, UnmapFacts
  <1>3. objects \in Objects /\ objects' \in Objects
    BY <1>1 DEF IInv, MappedTypeOK, Objects, Raw
  <1>4. Ownership(objects, maps, {})
    BY <1>1, StageFacts
  <1>5. Ownership(objects', maps', {})
    BY <1>1, <1>2, <1>3, <1>4, TakeFrom DEF Alive
  <1> QED
    BY <1>1, <1>2, <1>3, <1>5, IdlePreserves

(* A move passes the mapping on and leaves its source empty. *)
LEMMA MoveConstructPreserves ==
  ASSUME IInv, NEW o \in Object, NEW other \in Object, MoveConstruct(o, other)
  PROVE  IInv'
  <1>1. /\ ctor = Idle /\ ctor.at = "idle" /\ objects[o] = Raw /\ objects[other] # Raw
        /\ objects' = [objects EXCEPT ![o] = objects[other], ![other] = Empty]
        /\ UNCHANGED <<ctor, open_fds, maps, made, thrown, cause>>
    BY DEF MoveConstruct, Idle, Alive
  <1>2. objects \in Objects /\ objects' \in Objects /\ maps \in [DOMAIN maps -> Nat]
    BY <1>1 DEF IInv, MappedTypeOK, Objects, Empty, nullptr
  <1>3. {0, -1} \cap DOMAIN maps = {} /\ Ownership(objects, maps, {})
    BY <1>1, StageFacts
  <1>4. /\ DOMAIN maps' = DOMAIN maps \ {objects[o].data_}
        /\ \A m \in DOMAIN maps' : maps'[m] = maps[m]
        /\ other \in Object \ {o} /\ objects[other] # Raw
    BY <1>1, <1>3 DEF Raw
  <1>5. /\ objects'[o] = objects[other] /\ objects'[other] = Empty
        /\ \A x \in Object \ {o, other} : objects'[x] = objects[x]
    BY <1>1, <1>2, <1>4 DEF Objects
  <1>6. Ownership(objects', maps', {})
    BY <1>2, <1>3, <1>4, <1>5, MoveBetween
  <1> QED
    BY <1>1, <1>2, <1>6, IdlePreserves

(* So does an assignment, which first releases what its target owned. *)
LEMMA MoveAssignPreserves ==
  ASSUME IInv, NEW o \in Object, NEW other \in Object, MoveAssign(o, other)
  PROVE  IInv'
  <1>1. /\ ctor = Idle /\ ctor.at = "idle" /\ Alive(o) /\ objects[other] # Raw
        /\ UNCHANGED <<ctor, open_fds, made, thrown, cause>>
    BY DEF MoveAssign, Idle, Alive
  <1>2. objects \in Objects /\ maps \in [DOMAIN maps -> Nat]
    BY DEF IInv, MappedTypeOK
  <1>3. {0, -1} \cap DOMAIN maps = {} /\ Ownership(objects, maps, {})
    BY <1>1, StageFacts
  <1>4. CASE o = other
    <2>1. objects' = objects /\ maps' = maps
      BY <1>4 DEF MoveAssign
    <2> QED
      BY <1>1, <1>2, <1>3, <2>1, IdlePreserves
  <1>5. CASE o # other
    <2>1. /\ Unmap(objects[o])
          /\ objects' = [objects EXCEPT ![o] = objects[other], ![other] = Empty]
      BY <1>5 DEF MoveAssign
    <2>2. /\ DOMAIN maps' = DOMAIN maps \ {objects[o].data_}
          /\ \A m \in DOMAIN maps' : maps'[m] = maps[m]
          /\ maps' \in [DOMAIN maps' -> Nat]
      BY <1>1, <2>1, UnmapFacts
    <2>3. objects' \in Objects
      BY <1>2, <2>1 DEF Objects, Empty, nullptr
    <2>4. other \in Object \ {o}
      BY <1>5
    <2>5. /\ objects'[o] = objects[other] /\ objects'[other] = Empty
          /\ \A x \in Object \ {o, other} : objects'[x] = objects[x]
      BY <1>2, <2>1, <2>4 DEF Objects
    <2>6. Ownership(objects', maps', {})
      BY <1>1, <1>2, <1>3, <2>2, <2>4, <2>5, MoveBetween
    <2> QED
      BY <1>1, <2>2, <2>3, <2>6, IdlePreserves
  <1> QED
    BY <1>4, <1>5

-----------------------------------------------------------------------------
(***************************************************************************)
(* The inductive invariant of MappedFile: every mapping is held by exactly *)
(* one object or by the constructor that is running, each stage of which   *)
(* has one descriptor open and remembers the code of what failed.          *)
(***************************************************************************)
THEOREM Inductive == MappedSpec => []IInv
  <1>1. MappedInit => IInv
    <2> SUFFICES ASSUME MappedInit PROVE IInv
      OBVIOUS
    <2>1. MappedTypeOK /\ Stages
      BY DEF MappedInit, MappedTypeOK, Stages, Objects, Raw, Idle, States, EmptyMap, nullptr
    <2>2. OneOwner
      BY DEF MappedInit, OneOwner, Alive, EmptyMap
    <2>3. NoDescriptorLeft
      BY DEF MappedInit, NoDescriptorLeft
    <2> QED
      BY <2>1, <2>2, <2>3 DEF IInv
  <1>2. IInv /\ [MappedNext]_mappedVars => IInv'
    <2> SUFFICES ASSUME IInv, [MappedNext]_mappedVars PROVE IInv'
      OBVIOUS
    <2>1. ASSUME NEW o \in Object, bytes(o) PROVE IInv'
      <3>1. ctor = Idle /\ UNCHANGED <<objects, maps, ctor, open_fds, made, thrown, cause>>
        BY <2>1 DEF bytes
      <3>2. ctor.at = "idle"
        BY <3>1 DEF Idle
      <3> QED
        BY <3>1, <3>2, StageFacts, IdlePreserves DEF IInv, MappedTypeOK
    <2>2. CASE UNCHANGED mappedVars
      BY <2>2 DEF mappedVars, IInv, MappedTypeOK, Stages, OneOwner, NoDescriptorLeft,
                  Owns, Alive, InConstruction
    <2> QED
      BY <2>1, <2>2, OpenPreserves, FstatPreserves, MmapPreserves, CloseAndThrowPreserves,
         CompletePreserves, DestroyPreserves, MoveConstructPreserves, MoveAssignPreserves
      DEF MappedNext
  <1> QED
    BY <1>1, <1>2, PTL DEF MappedSpec

(* Whatever fails and however objects are moved, a mapping has one owner. *)
THEOREM Owned == MappedSpec => []OneOwner
  <1>1. IInv => OneOwner
    BY DEF IInv
  <1> QED
    BY <1>1, Inductive, PTL

(* The constructor leaves no descriptor behind, on any of its paths. *)
THEOREM DescriptorClosed == MappedSpec => []NoDescriptorLeft
  <1>1. IInv => NoDescriptorLeft
    BY DEF IInv
  <1> QED
    BY <1>1, Inductive, PTL

(* The exception's code is that of the call that failed, although close()  *)
(* may have set errno in between.                                          *)
THEOREM CauseThrown == MappedSpec => []ThrowsTheCause
  <1>1. IInv => ThrowsTheCause
    BY StageFacts DEF IInv, Stages, ThrowsTheCause
  <1> QED
    BY <1>1, Inductive, PTL

(* A mapping is released only by its owner's destruction or by the owner   *)
(* taking over what another object had.                                    *)
THEOREM ReleasedByOwner == MappedSpec => UnmappedWithItsOwner
  <1> DEFINE Release ==
        \A m \in DOMAIN maps \ DOMAIN maps' : \A o \in Object : Owns(o, m) =>
          \/ objects'[o] = Raw
          \/ \E other \in Object \ {o} : objects'[o] = objects[other] /\ objects'[other] = Empty
  <1>1. IInv /\ [MappedNext]_mappedVars => [Release]_mappedVars
    <2> SUFFICES ASSUME IInv, MappedNext PROVE Release
      OBVIOUS
    <2>1. CASE DOMAIN maps \subseteq DOMAIN maps'
      BY <2>1
    <2>2. ASSUME NEW o \in Object, Destroy(o) PROVE Release
      <3>1. /\ DOMAIN maps' = DOMAIN maps \ {objects[o].data_}
            /\ objects'[o] = Raw
            /\ ctor = Idle /\ Alive(o)
        BY <2>2, UnmapFacts DEF Destroy, IInv, MappedTypeOK, Objects
      <3>2. \A x \in Object, m \in DOMAIN maps \ DOMAIN maps' : Owns(x, m) => x = o
        <4>1. ASSUME NEW x \in Object \ {o}, objects[o].data_ \in DOMAIN maps,
                     Owns(x, objects[o].data_)
              PROVE  FALSE
          BY <3>1, <4>1, StageFacts DEF Ownership, OwnsAlone, HasMapping, Owns, Alive, Empty, Idle, nullptr
        <4> QED
          BY <3>1, <4>1
      <3> QED
        BY <3>1, <3>2
    <2>3. ASSUME NEW o \in Object, NEW other \in Object, MoveAssign(o, other) PROVE Release
      <3>1. CASE o = other
        BY <2>3, <3>1 DEF MoveAssign
      <3>2. CASE o # other
        <4>1. /\ DOMAIN maps' = DOMAIN maps \ {objects[o].data_}
              /\ objects'[o] = objects[other] /\ objects'[other] = Empty
              /\ ctor = Idle /\ Alive(o)
          BY <2>3, <3>2, UnmapFacts DEF MoveAssign, IInv, MappedTypeOK, Objects
        <4>2. \A x \in Object, m \in DOMAIN maps \ DOMAIN maps' : Owns(x, m) => x = o
          <5>1. ASSUME NEW x \in Object \ {o}, objects[o].data_ \in DOMAIN maps,
                       Owns(x, objects[o].data_)
                PROVE  FALSE
            BY <4>1, <5>1, StageFacts DEF Ownership, OwnsAlone, HasMapping, Owns, Alive, Empty, Idle, nullptr
          <5> QED
            BY <4>1, <5>1
        <4> QED
          BY <3>2, <4>1, <4>2
      <3> QED
        BY <3>1, <3>2
    <2>4. ASSUME Mmap PROVE DOMAIN maps \subseteq DOMAIN maps'
      BY <2>4 DEF Mmap, MapPut
    <2>5. ASSUME \/ \E o \in Object : Open(o) \/ CloseAndComplete(o) \/ bytes(o)
                 \/ \E size \in Sizes : Fstat(size)
                 \/ CloseAndThrow
          PROVE  DOMAIN maps \subseteq DOMAIN maps'
      BY <2>5 DEF Open, CloseAndComplete, bytes, Fstat, CloseAndThrow
    <2>6. ASSUME NEW o \in Object, NEW other \in Object, MoveConstruct(o, other)
          PROVE  DOMAIN maps \subseteq DOMAIN maps'
      BY <2>6 DEF MoveConstruct
    <2> QED
      BY <2>1, <2>2, <2>3, <2>4, <2>5, <2>6 DEF MappedNext
  <1> QED
    BY <1>1, Inductive, PTL DEF MappedSpec, UnmappedWithItsOwner
=============================================================================
