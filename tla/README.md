# Formal models of the ITCH 5.0 feed handler and order book

TLA+ specifications of the program in this repository, the TLC configurations
that check them on small instances, and TLAPS proofs of what holds for every
instance. Paths below are relative to the repository; `tla/` modules are named
without their suffix.

## 1. The system

The program is sequential: a session file is mapped into memory, cut into
records, each record decoded and handed to a handler. There are no threads and
nothing is persisted, so what is hard is not interleaving but the *sequence of
messages*: thousands of legal steps that keep several containers of the book in
agreement, through iterators held across erasures, with unsigned arithmetic and
with input that is not validated. Beside it stand two Python scripts that share
no code with it and whose output is compared with the tools': every agreement
between the two is a property here.

| Component | State | Operations | Talks to |
|---|---|---|---|
| `MappedFile` (`src/mapped_file.cpp`) | a mapping | open/map, move, unmap | gives a span of bytes to the framer |
| `frame_all` (`include/itch/framer.hpp`) | offset, `FrameOutcome` | one loop iteration per record | reads the length table, calls back once per record |
| length table (`src/message_table.cpp`) | constant table | `spec_message_length` | framer, decoders' asserts |
| decoders, `ByteReader` (`messages.hpp`, `byte_reader.hpp`) | none | one decoder per message type | called by `dispatch_record` |
| `dispatch_record`, `parse_all` (`parser.hpp`) | none | select decoder and overload by type byte | framer to handler |
| `OrderBook` (`order_book.hpp`, `order_book.cpp`) | `locate_`, `bids_`, `asks_`, `orders_`, `stats_` | `set_locate`, one `on()` per message, best prices, `check_rep` | a handler; also driven by another handler |
| `BookReplayHandler` (`tools/book_replay.cpp`) | `resolved_`, `symbol_` | resolves the symbol's locate from a Stock Directory message, forwards the rest | calls the book |
| `SessionCensus` (`tools/itch_count.cpp`) | counts, timestamps, event codes | `note` for every message; verdict and exit code in `main` | handler of `parse_all` |
| `reference_book.py`, `reference_count.py` | a simpler book, a census | independent replay and count | outputs are compared with the C++ tools' |

What makes each correct, and where it is hard to test:

* **Order book.** `orders_` holds `std::list` iterators into queues that are
  erased and re-created. A stale one would not crash visibly: a freed node's
  address is soon reused. The code validates nothing: references may repeat,
  reductions may exceed what rests (an assert that the default RelWithDebInfo
  build compiles out), a side byte may be neither `B` nor `S`. Correct means: no
  dangling iterator under *any* feed; totals equal to queues unless an assert
  would have fired; on a session that keeps the exchange's rules, exactly the
  exchange's queues in price-time priority.
* **Replay.** The directory message may come late or twice; orders from before
  it are unknown, and so are the orders replaces make of them.
* **Framer.** Unsigned subtractions near the end of the file; one wrong advance
  misaligns everything; the error must be the first one, at the right offset.
* **Census.** Adjacent timestamp comparisons must amount to a verdict about all
  pairs.
* **Decoders.** Some fifty literal offsets, a length table typed elsewhere, and
  a second copy of both in the scripts; asserts that hold only because of what
  the framer checked before.
* **Tools.** What reaches the book from a whole file, and what the exit code says
  of a damaged one.
* **MappedFile.** The errno that is reported, descriptors on error paths, moves.

`PROJECT.json` lists these hazards at their lines.

## 2. Modules

| Module | Models | Kind |
|---|---|---|
| `Containers` | `std::map`, `std::unordered_map`, `dict` | operators |
| `OrderBook` | class `OrderBook`, any feed | state machine |
| `Exchange` | the session's author (not in the repository) | environment |
| `BookReplay` | `BookReplayHandler` + `OrderBook` + `Exchange` | composition |
| `ReferenceBook` | `tools/reference_book.py` | abstract specification that `BookReplay` refines |
| `Framer` | `frame_all` and the length table | state machine |
| `ItchCount` | `itch_count`: `SessionCensus` behind `parse_all`, exit code; extends `Framer` | composition |
| `ReplayFile` | `book_replay`: symbol resolution on the bytes of a file, exit code; extends `Framer` | composition |
| `ReferenceSession` | the framing loop of both Python scripts | abstract specification that `ItchCount` and `ReplayFile` refine |
| `Messages` | decoders, `ByteReader`, length table | operators |
| `Parser` | `dispatch_record` beside `_apply` of the script, one record | composition |
| `MappedFile` | class `MappedFile` | state machine |
| `OrderBookProofs`, `BookReplayProofs` | theorems about the book, its audit and a replay | proofs |
| `FramerProofs`, `ItchCountProofs`, `ReplayFileProofs` | theorems about the framer and the two tools behind it | proofs |
| `ParserProofs` | theorems about one record in both implementations | proofs |
| `MappedFileProofs` | theorems about the mapping's owner | proofs |
| `DataInduction` | induction over numbers, sums and base-n numbers, as lemmas | proofs |
| `MC...` | instances, file sets, symmetry; `MCCheckRep` also the damage steps | model checking |

### OrderBook

The state is `locate_`, `book` (a record of the two price maps, by side, and
the index `orders_`), `stats_`, and `aborted`, which stands for a failed assert.
Each public mutator is an action over its decoded message; the private ones,
`insert_order` and `reduce_or_remove`, are functions from book to book.

* An iterator is a node address. `insert_order` takes *any* address that no
  live node has, so an address freed a moment ago may return. `PositionIn` finds
  the node an iterator names in the queue the code would search.
* `std::unordered_map::emplace` leaves an existing entry alone (`Emplace`).
* Shares live modulo `ShareMod`, totals modulo `TotalMod`, tallies modulo
  `TallyMod` (2^32, 2^64, 2^64 in the code).
* `NDEBUG` says whether asserts are compiled out. A false assert sets `aborted`,
  after which nothing happens. The decoders' assert on the side byte is not in
  this module; with asserts out, a byte that is neither `B` nor `S` arrives as
  `"Other"`, and the book files it under asks.
* With `remove_all` neither assert of `reduce_or_remove_in` can fail while
  `IteratorsNeverDangle` holds, so deletes and replaces have no abort branch.

### BookReplay, Exchange, ReferenceBook

`Exchange` writes down the rules a session keeps: a reference is used once,
adds and replaces carry shares, reductions do not exceed what rests, messages
carry their order's locate, and no symbol has locate 0. The program relies on
these without checking them. Every step of `BookReplay` is one record, from
the exchange through the handler and the book. `missed` records which orders
entered before the symbol was resolved. `arrivals` keeps the references in the
order they joined a queue, which is what time priority is about: of two orders in
a queue, the one in front is `Before` the other in `arrivals`. The mirror follows the
locate that the handler resolved; that it is the right one is the business of
`ReplayFile`.

`ReferenceBook` is the Python script: no queues, a level is a total. The
refinement mapping reads an order's shares through its iterator, a level's total
from `total_shares`, and says the script never raises.

### Framer, ItchCount

The file is any sequence over a byte alphabet; each loop iteration is an action
(one per way it can end). `touched` and `delivered` are history variables.
`GoodRecord`, `FramedBy` and `WellFramed` define a well-framed file without
reference to the loop: a set of start positions that contains 0 and the end and
is closed under "the next record starts where this one stops".

`ItchCount` extends a delivery by the census update and adds the verdict. The
header's layout is scaled by constants (6 timestamp bytes at 5 in the code).
`Refuse` is exit code 2, before anything is walked: wrong arguments, or
`MappedFile` throws, as it must for an empty file. "Full session O S Q M E C" is
printed but does not influence the exit code; the collected event codes are part
of the census. The ten overloads of `SessionCensus` and its `on_other` all call `note`
once; `SessionCensusOn` is what they share, so an overload that forgot to would be
seen only as the difference between the decoded types and the rest.

### ReplayFile, ReferenceSession

`ReplayFile` is to `book_replay` what `ItchCount` is to `itch_count`. It leaves
out what the book does with a record (that is `BookReplay`) and keeps which
records pass its locate check (`applied`). The command-line symbol is chosen
initially; `trim` is the C++ side of the comparison, `ljust` the script's.
`OfTheSymbol` are the places of the records the book should be given, and
`AppliedFollowAnnouncement` says that `applied` lists them in order: as many as
there are, each behind as many as come before it. `LayoutAssumption`, here and in
`ItchCount`, is what the real layouts have: every message is long enough for the
fields that are read of it. `BookLocatesNotZero` is the condition on the file under
which `AppliedFollowAnnouncement` and `RefinesReferenceReplay` are claimed (section 4).

Both tools are modelled without the decoders' asserts, as the default build compiles
them. What a Debug build stops at is said record by record in `Parser`, and of the
book's asserts in `OrderBook` and `BookReplay`.

`ReferenceSession` is the loop both scripts contain, over short reads from a file
object, with what is done per record as a parameter (`OnRecord`). It is these two
refinements that tell the kinds of framing error apart; `CompleteIffWellFramed` and
`StopsAtFirstViolation` are about where the walk stops, not about its name for why. `ItchCount`
instantiates it with `CountRecord` (`reference_count.py`), `ReplayFile` with
`ReplayRecord` (`reference_book.py`). The mapping renames one error: a record of
length zero is "unknown type" to the scripts.

Two differences between the tools and the scripts lie outside these refinements.
An empty file is exit code 2 to the tools and an empty report with 0 to
`reference_count.py`. A symbol given with a trailing blank is never found by
`book_replay` (`trim` leaves none to compare with) and is found by the script;
`SymbolAssumption` excludes such symbols.

### Messages, Parser

A decoder is a record from field name to the accessor and the offset it passes, as
its braced initializer is written; `AddOrderWithMpid` and
`OrderExecutedWithPrice` are shown flat. A byte is a character and an integer is
its base-256 digits by significance, so that 64-bit values need no arithmetic and
byte order is explicit: `memcpy` on a little-endian host followed by `byteswap`.
`AssertsHold` is the conjunction of the decoder's asserts with those of every
accessor it calls.

`Wire` says what the feed sends, field after field, and knows no offsets; it is
the ITCH specification's statement, which the tests' `RecordBuilder` makes in the
same way. `Parser` takes one record through `dispatch_record` down to the fields
`OrderBook` uses (`BookCall`), and through the script's `_apply`. The records that
can come are a constant, any set of non-empty sequences of bytes; `MCParser` gives
TLC those with one marked byte.

### MappedFile

Objects are places in memory. The constructor is a step per system call, with its
locals in `ctor`; it holds the descriptor in between. `close` may overwrite
`errno` whether or not anything failed before. Mappings are numbered, so that a
stale pointer never looks valid by accident; `munmap` with too short a length
would leave the mapping. Places are constructed, moved, assigned (to themselves
too) and destroyed in any order.

## 3. Runs

| Run | Bounds | Shows |
|---|---|---|
| `order_book_release` | 2 references, 2 prices, 2 nodes, shares mod 4, totals mod 8, asserts out | `TypeOK`, `IteratorsNeverDangle`, `BestHasOrders` for every feed |
| `order_book_debug` | 3 nodes, shares mod 3, asserts in | `AssertsKeepTotals`: the share assert is what keeps totals exact |
| `order_book_unresolved` | as above | *violated*: `NoOpUntilSetLocate`, see section 6 |
| `check_rep` | 2 references, 2 nodes, totals mod 3 | `CheckRepExact` on every book that damage can make |
| `replay_mirror` | 3 references, 3 locates, 2 prices, shares 1..3 | `RepHolds`, `NeverAborts`, `QueuesMirrorExchange`, `TopOfBook` |
| `replay_reference` | 3 references, shares 1..2, tallies exact | `RefinesReference` |
| `framer` | every file of at most 7 bytes over 4 byte values, size_t mod 16 | bounds, tiling, completeness, first violation, termination |
| `itch_count` | every file of at most 3 pieces, good records with all 4 timestamps or one of 5 kinds of fragment | census, exit code, termination, `RefinesReferenceCount` |
| `replay_file` | every file of at most 4 pieces: announcements of 3 stocks with 2 locates, book messages, other messages (one with locate 0, as a System Event), 4 kinds of fragment; 4 symbols | `ReplayExitZero`, `AppliedFollowAnnouncement`, `ReplayExits`, `RefinesReferenceReplay` |
| `parser` | all 22 types and 2 undefined ones, one marked byte at every place, every length up to 51, both builds | `DecodesWhatWasSent`, `OnlyTheSideAborts`, `SameCall` |
| `mapped_file` | 3 objects, 3 mappings, 2 error codes, file sizes 0 to 2 | `OneOwner`, `NoDescriptorLeft`, `ThrowsTheCause`, `UnmappedWithItsOwner` |
| `mapped_file_lifetime` | the same | *violated*: `SpanValidForLifetime`, see section 6 |

Why the bounds are enough for the interesting cases:

* Two references, both prices and both sides with two or three nodes give a
  repeated reference, an orphaned node, a replace that reuses the freed address,
  a level emptied and re-created, and two orders in one queue. Shares modulo 3
  or 4 give wrap-around in one step.
* Three references are a whole session: an add, a replace of it and a second
  order around which priority changes; or a chain of two replaces that crosses
  the directory message. References are never reused, so these sessions are
  finite and explored completely. The tallies are collapsed (`TallyMod = 1`) in
  `replay_mirror`, which does not look at them; in `replay_reference` they are
  exact, as no tally of such a session reaches `TallyMod = 9`, and
  `MaxTrades` bounds the trades.
* Seven bytes hold two records and a truncated third, every kind of error at
  every position, and records whose length needs both bytes of the prefix.
* Four pieces hold a book message, an announcement, a second one with another
  locate and a book message of either. The stocks are padded, blank, or begin with
  a blank; one symbol is empty and one longer than the field.
* A decoder moves bytes and looks at none but the side, so a single byte that
  differs from all others, put at every place in turn, shows any field read from
  the wrong place, with the wrong width or in the wrong order. These instances use
  the real lengths and offsets.
* Three objects are what a chain of moves needs; three mappings let two be held
  while a third is made.
* References and nodes are symmetric in the book's runs: nothing orders them.

Deadlock checking is off where the program really stops: after an abort
(`order_book_debug`) and after a function or `main` has returned (`framer`,
`itch_count`, `replay_file`, `parser`).

**Fairness.** `Framer`, `ItchCount` and `ReplayFile` assume weak fairness of their whole
next-state relation: a sequential program that can take a step takes it. The
book's specifications have none, because the feed may end anywhere; their
properties are safety properties.

Definitions named `Slip...` are small deviations of the definition that follows
them (a dropped guard, a forgotten erase, a swapped order). Each property of the
passing runs is violated when one of them takes the place of the original; the
pairs are in `PROJECT.json` under `mutants`.

## 4. Proofs

`tlapm <module>.tla` checks every step of a proof module. Of the 31 properties
that the passing runs check, the 28 that are safety properties or refinements are
theorems; the other three are liveness. Assumptions are the named `ASSUME`s of the
modules (all of which TLC evaluates in the runs) and, where stated, a hypothesis.

| Module | Theorem | States | Hypothesis |
|---|---|---|---|
| `OrderBookProofs` | `Typed`, `NeverDangle`, `BestRests` | `TypeOK`, `IteratorsNeverDangle`, `BestHasOrders` | |
| | `TotalsKept` | `AssertsKeepTotals` | |
| | `CheckRepVerdict` | `CheckRepExact` | `1 \in Shares` |
| `BookReplayProofs` | `ReplayIsAFeed` | a replay is a behaviour of `OrderBook` | |
| | `NoAssertFires`, `AuditHolds` | `NeverAborts`, `RepHolds` | |
| | `PriceTimePriority` | `QueuesMirrorExchange` | |
| | `TopIsRight` | `TopOfBook` | `TotalsFit` |
| | `ImplementsScript` | `RefinesReference` | `TotalsFit`, `[]TalliesFit` |
| `FramerProofs` | `Typed`, `Bounded`, `Tiles` | `TypeOK`, `ReadsInBounds`, `DeliveredTileThePrefix` | |
| | `FirstViolation`, `Complete` | `StopsAtFirstViolation`, `CompleteIffWellFramed` | |
| | `Descends` | every step lowers `Fuel`, a natural number | |
| `ItchCountProofs` | `CensusComplete`, `ExitCodeRight` | `CensusAccountsForAll`, `ExitZeroIffHealthy` | |
| | `ImplementsCount` | `RefinesReferenceCount` | |
| | `CountDescends` | every step lowers `StepsLeft`, a natural number | |
| `ReplayFileProofs` | `ReplayExitRight` | `ReplayExitZero` | |
| | `AppliedRight`, `ImplementsReplay` | `AppliedFollowAnnouncement`, `RefinesReferenceReplay` | `[]BookLocatesNotZero` |
| | `FileDescends` | every step lowers `StepsLeft`, a natural number | |
| `ParserProofs` | `DecodedRight`, `AbortsRight` | `DecodesWhatWasSent`, `OnlyTheSideAborts` | |
| | `CallsTheSame` | `SameCall` | |
| `MappedFileProofs` | `Owned`, `DescriptorClosed`, `CauseThrown` | `OneOwner`, `NoDescriptorLeft`, `ThrowsTheCause` | |
| | `ReleasedByOwner` | `UnmappedWithItsOwner` | |

**The hypotheses.** `1 \in Shares` only excludes a share type without the value 1,
which the damage steps use. `TotalsFit`: there are finitely many nodes, too few for
a level of the largest orders to reach `TotalMod`; with 32-bit shares and 64-bit
totals, fewer than about 2^32 orders at rest. Without it the exchange's own sum
and the C++ total could differ by the wrap. `TalliesFit`: no statistic is at its
last value; the script's integers have no width, the code's have 64 bits.
`BookLocatesNotZero`: no *book message*, that is no record of a type the book acts
upon, carries locate 0. Other records may, and do: System Events, with which a
session opens, carry it (`tests/test_parser.cpp:37`). It is needed of book messages:
before the symbol is resolved the book's locate *is* 0 and the book would apply such
a message, the script would not (section 6). A session keeps it because a book
message is about a symbol: `Exchange` asks it of adds and `BookReplay` of trades, and
whatever else happens to an order carries the locate of its add. The run's files
keep it as well, and have records of another type with locate 0.

**Order book.** The inductive invariant is `IInv`: types, and of the book `BookInv`
= `IsBook`, `PositionsLive`, `NodesUnique`, `NoEmptyLevel`. `PositionsLive` alone is
not inductive: erasing a node could take it from under another reference's iterator
unless addresses are unique; and addresses stay unique only because insertions
take free ones. Totals are no part of it, as the argument does not depend on
arithmetic: the proof works through `Slot`s (side, price, place). `InsertShape`
and `ReduceShape` say what the two mutators do to each container,
`UniqueSlots` and `LiveSlots` restate the invariant over slots, and a reduction
maps every slot after it to one before it (`ReducedSlots`). The actions then
follow from `InsertPreserves` and `ReducePreserves`; a replace is one after the
other. `TotalsKept` adds the sums on top: appending to, replacing in and removing
from a queue changes its sum by the same amount, modulo `TotalMod`, as the code
changes the total, given that the assert held.

**check_rep.** It walks the queues, checks each order against the index and
compares one count with `orders_.size()`. `CheckRepVerdict` shows that this is
enough: if every queued order is indexed where it is (`Indexed`), distinct nodes
have distinct references, so the index has as many entries as there are nodes
exactly when no entry is left over, and then every iterator is live. The counts of
both sides, level by level, are cardinalities of sets of references
(`QueueCount`).

**Replay.** The inductive invariant is `RInv`: the exchange's own bookkeeping
(`SessionInv`: references are used once, and every order of the session has
arrived), the handler's (`HandlerInv`: unresolved means that every live order is a
missed one), and `MirrorInv`: the book is good (`BookInv`, no orphan, exact totals,
finite), holds exactly the orders followed, with their side, price and shares, and
every queue is in order of arrival. That no assert fires is part of the
same induction: a reduction does not exceed what rests *because* the book mirrors
the exchange. `RepHolds` then follows from the lemma behind `CheckRepVerdict`, and
the best prices from the greatest element of a finite set of prices. The refinement
to `reference_book.py` compares `View`s of the book, which have no queues: what an
insertion and a reduction do to the view is what the script does to its two
dictionaries; the total a reduction leaves is zero exactly when the last order
leaves, and there `TotalsFit` enters.

**Framer.** The inductive invariant adds to the properties that the bytes before the
offset are framed by some set of starts, that *any* framing of the file passes
through the offset (`OffsetForced`; this is what makes "an error was reported" imply
"no division into records exists"), and that a verdict was reached only at the end or
where no good record starts. `Checks` collects what the size comparisons establish
once `MinusExact` has shown that none of them wraps. A last section describes the
same walk by short reads (`Piece`), as the scripts make them; `ReturnsAgree` and
`DeliveryAgrees` are the framing half of both tools' refinements. `Fuel`, the bytes
ahead and one for the return, bounds the iterations of any walk: that nothing is
walked for ever needs no more than that the process keeps running.

**itch_count.** `CInv` adds to it that the census has counted what was delivered, and
`Clock`: the last timestamp is that of the last record, and no backward step was
counted exactly while *all* pairs of records ascend. The step uses that a number
loaded byte by byte compares like its bytes (`DigitsOrder`), which is what
`NotAfter` states.

**book_replay.** `FInv` adds that the symbol is resolved exactly if it was announced,
by the first announcement, to its locate. `FieldMatches` proves that the tool, which
trims the field, and the script, which pads the symbol, compare alike; `FramesIff`
that `Frames`, written for TLC to evaluate, is `WellFramed`; `HoldsMore` that a record
of the symbol extends `applied` at its end.

**Parser.** What is proved of a layout is `Fits`: the accessors of the decoder and the
fields the feed sends have the same names, each accessor starts where its field
does, and all of them end at the length in the table. `StartOf` sums
widths, so `StartOfFacts` first turns it into a recurrence (an induction over the
fields), and `StartsAre` and `TableFits` reduce `Fits` for a message to a list of
its offsets and widths (`IsTable`), which is compared entry by entry in ten lemmas.
`FitsDecodes` and `ReadsWhatWasSent` then give, for any bytes of that length, that the
decoder returns what was sent and that no accessor's assert fires; `LengthsAgree`
gives the equality of the two tables and the sums of the fields. For the script,
`SameNumber`, `SameChar` and `SameText` say that an accessor and a slice of the same
bytes agree, and ten more lemmas that each branch of `_apply` slices the bytes that
`BookCall` uses. A record is taken once by either side, so the invariant `PInv`
says no more than what each made of it.

**MappedFile.** The invariant says at each stage of the constructor what it holds:
descriptor, mapping, saved error (`Stages`). Ownership is stated as a relation
between objects, mappings and the constructor's (`Ownership`), so that moves
(`GiveTo`, `MoveBetween`, `TakeFrom`) are lemmas about relations.

**DataInduction.** The provers do not take the library's induction theorems, whose
parameter is an operator. Induction is stated for sets instead (`LeastNumber`,
`UpTo`, from the well-foundedness of `<`), and recursive functions get their
existence from `RecursionExists`. The sums of queues, `Cardinality` counts, `Loads`'
numbers, `Frames` and the offsets of `Parser` rest on it.

**Only model-checked.** Liveness (`Terminates`, `EventuallyExits`, `ReplayExits`), which
is beyond the prover; `Descends`, `CountDescends` and `FileDescends` prove for every
file the half that is a safety property, that the steps of a run run out. That
a run which has not ended has a step to take, and takes it, is the other half.

## 5. Not modelled

* Printing: the report of `itch_count`, the summary of `book_replay`, `describe`,
  `describe_type`, `format_time_of_day`, the scripts' output. Text without state.
* The throughput figure of `itch_count`, `--limit` of `reference_count.py`.
* Files that change while mapped, and signals a mapping may then raise: the code
  handles neither.
* Build files, hooks and CI. Only asserts in or out matters to the models.

## 6. Disagreements found

`include/itch/order_book.hpp:46` says every `on()` is a no-op until
`set_locate()` has run. Before that, `locate_` is 0 and the check is an equality,
so a message that carries `stock_locate` 0 is applied: run
`order_book_unresolved` shows an add booked in the first step. No symbol has
locate 0 in a session that keeps the rules of `Exchange`, so replays of such
sessions are not affected (`replay_mirror`).

`include/itch/mapped_file.hpp:16` says a span "is valid for the object's
lifetime". A move separates the two: run `mapped_file_lifetime` takes a span, moves
the object away and destroys the new owner, while the first object still lives.
What holds is `UnmappedWithItsOwner`: the span is valid as long as some object owns
the mapping. The tools never move a `MappedFile`.

Two comments that no run is about. `include/itch/framer.hpp:42` calls a length
that agrees with the specification "the precondition the decoders assert on", and
`parser.hpp:48` states no other; the decoders of `A`, `F` and `P` also assert on the
side byte, which is input. `OnlyTheSideAborts` says exactly when a Debug build stops
for it; the default build files such an order under asks, as the script does
(`SameCall`). And `src/message_table.cpp:28` lists `R` among the types "not decoded
here", but `dispatch_record` decodes it.

## 7. Plan

1. `OrderBook`, `OrderBookProofs`, `check_rep`. *Done.*
2. `Exchange`, `BookReplay`, `ReferenceBook`: priority, best prices, refinement. *Done.*
3. `Framer`, `FramerProofs`, `ItchCount`. *Done.*
4. `MappedFile`; `Messages` and `Parser`; `ReferenceSession` and `ReplayFile`. *Done.*
5. Proofs: `MappedFile`; `itch_count` and `book_replay` over a file, with their
   refinements. *Done.*
6. Proofs: totals, `check_rep`, the replay's invariants and its refinement. *Done.*
7. Proofs: `Parser` for any record; the bounds on the steps of both tools. *Done.*
8. Left: an exchange whose adds may carry zero shares, which would extend the
   comparison with `reference_book.py` to the `KeyError` its levels can raise.
