--------------------------- MODULE FileStoreProofs ---------------------------
(***************************************************************************)
(* What FileStore does for any number of threads and contents.             *)
(*                                                                         *)
(* An Append() that has lost nothing has put its first blocks into the     *)
(* file, in order and nothing more, and no other thread writes blocks of   *)
(* the same contents.  Who truncates, deletes, formats or overwrites takes *)
(* that away from every thread at once, and from all that was kept.        *)
(* A Create() or Update() that lost nothing has its blocks at the          *)
(* beginning, and nobody but itself writes there.                          *)
(***************************************************************************)
EXTENDS FileStore, SequenceTheorems, TLAPS

FileTypes ==
  /\ mounted \in BOOLEAN /\ registered \in BOOLEAN
  /\ file = NoFile \/ file \in Seq(Blocks)
  /\ kept \subseteq Contents /\ replaced \subseteq Contents

OpTypes == op \in [Clients -> Ops]

\* The first n blocks of x are in the file, in their order, and no other of x.
InOrder(x, n) ==
  \/ n = 0 /\ BlocksOf(x) = {}
  \/ n = 1 /\ \E i \in 1 .. Len(Held) : BlocksOf(x) = {i} /\ Held[i] = <<x, 1>>
  \/ n = 2 /\ \E i, j \in 1 .. Len(Held) :
                /\ BlocksOf(x) = {i, j} /\ i < j
                /\ Held[i] = <<x, 1>> /\ Held[j] = <<x, 2>>

Busy(c) == ~Is(c, "idle")

Before(c) == Is(c, "mount") \/ Is(c, "open")

Appending(c) == Is(c, "write") /\ op[c].call = "Append"

\* Every contents is with one thread, or kept.
Alone ==
  /\ \A c, d \in Clients : Busy(c) /\ Busy(d) /\ op[c].contents = op[d].contents => c = d
  /\ \A c \in Clients : Busy(c) => op[c].contents \notin kept

\* What was not begun to be written is not in the file.
NotYet == \A c \in Clients : Before(c) => BlocksOf(op[c].contents) = {}

\* What is being appended and has lost nothing is there as far as it was written.
SoFar ==
  \A c \in Clients : Appending(c) =>
    /\ op[c].app
    /\ op[c].whole => file # NoFile /\ InOrder(op[c].contents, op[c].next - 1)

AllKept == \A x \in kept : InOrder(x, 2)

StoreInv == FileTypes /\ OpTypes /\ Alone /\ NotYet /\ SoFar /\ AllKept

LEMMA AllKeptIsAppendsStay == AllKept => AppendsStay
<1> SUFFICES ASSUME AllKept, NEW x \in kept
             PROVE  \E i, j \in 1 .. Len(Held) :
                      /\ BlocksOf(x) = {i, j} /\ i < j
                      /\ Held[i] = <<x, 1>> /\ Held[j] = <<x, 2>>
  BY DEF AppendsStay
<1>1. InOrder(x, 2)
  BY DEF AllKept
<1>2. 2 # 0 /\ 2 # 1
  OBVIOUS
<1> QED
  BY <1>1, <1>2 DEF InOrder

-----------------------------------------------------------------------------
(***************************************************************************)
(* What a call under way looks like.                                       *)
(***************************************************************************)

LEMMA OpIs ==
  ASSUME OpTypes, NEW c \in Clients
  PROVE  /\ op[c] \in Ops
         /\ Busy(c) => op[c].contents \in Contents /\ op[c].call \in Calls
         /\ Before(c) => /\ Busy(c) /\ ~Is(c, "write")
                         /\ op[c] \in [at : {"mount", "open"}, call : Calls, contents : Contents]
         /\ Is(c, "write") =>
              /\ Busy(c) /\ ~Before(c)
              /\ op[c] \in [at : {"write"}, call : Writers, contents : Contents,
                            next : 1 .. 3, pos : Nat, app : BOOLEAN, whole : BOOLEAN]
         /\ Busy(c) => Before(c) \/ Is(c, "write")
<1>1. op[c] \in Ops
  BY DEF OpTypes
<1>2. CASE op[c] = Idle
  BY <1>1, <1>2 DEF Idle, Busy, Before, Is
<1>3. CASE op[c] \in [at : {"mount", "open"}, call : Calls, contents : Contents]
  BY <1>1, <1>3 DEF Busy, Before, Is
<1>4. CASE op[c] \in [at : {"write"}, call : Writers, contents : Contents,
                      next : 1 .. 3, pos : Nat, app : BOOLEAN, whole : BOOLEAN]
  BY <1>1, <1>4 DEF Busy, Before, Is, Writers, Calls
<1> QED
  BY <1>1, <1>2, <1>3, <1>4 DEF Ops

LEMMA HeldIs ==
  ASSUME FileTypes
  PROVE  /\ Held \in Seq(Blocks) /\ Len(Held) \in Nat
         /\ \A i \in 1 .. Len(Held) : Held[i] \in Blocks
         /\ file # NoFile => Held = file
         /\ NoFile \notin Seq(Blocks)
<1>1. NoFile \notin Seq(Blocks)
  <2>1. Len(NoFile) = 1 /\ NoFile[1] = <<"none", 0>>
    BY DEF NoFile
  <2>2. <<"none", 0>> \notin Blocks
    BY DEF Blocks
  <2> QED
    BY <2>1, <2>2, ElementOfSeq
<1>2. Held \in Seq(Blocks)
  BY DEF FileTypes, Held
<1> QED
  BY <1>1, <1>2, ElementOfSeq, LenProperties DEF Held

LEMMA StoreInvStarts == ASSUME FilesInit PROVE StoreInv
<1>1. OpTypes /\ \A c \in Clients : op[c] = Idle
  BY DEF FilesInit, OpTypes, Ops
<1>2. \A c \in Clients : ~Busy(c) /\ ~Before(c) /\ ~Appending(c)
  BY <1>1 DEF Busy, Before, Appending, Is, Idle
<1>3. kept = {} /\ FileTypes
  BY DEF FilesInit, FileTypes
<1> QED
  BY <1>1, <1>2, <1>3 DEF StoreInv, Alone, NotYet, SoFar, AllKept

-----------------------------------------------------------------------------
(***************************************************************************)
(* A step of one thread and the others.                                    *)
(***************************************************************************)

\* Thread d stays where it is; it may be told that a block was lost.
Rests(d) ==
  /\ Busy(d)' <=> Busy(d)
  /\ Before(d)' <=> Before(d)
  /\ Appending(d)' <=> Appending(d)
  /\ Busy(d) => op'[d].contents = op[d].contents
  /\ Appending(d) => /\ op'[d].app = op[d].app /\ op'[d].next = op[d].next
                     /\ op'[d].whole => op[d].whole

LEMMA BecomesGives ==
  ASSUME OpTypes, NEW c \in Clients, NEW o \in Ops, Becomes(c, o)
  PROVE  /\ OpTypes' /\ op'[c] = o
         /\ \A d \in Clients : d # c => op'[d] = op[d] /\ Rests(d)
<1>1. op'[c] = o /\ \A d \in Clients : d # c => op'[d] = op[d]
  BY DEF Becomes, OpTypes
<1>2. OpTypes'
  BY DEF Becomes, OpTypes
<1>3. ASSUME NEW d \in Clients, d # c PROVE Rests(d)
  <2>1. op'[d] = op[d]
    BY <1>1, <1>3
  <2> QED
    BY <2>1 DEF Rests, Busy, Before, Appending, Is
<1> QED
  BY <1>1, <1>2, <1>3

LEMMA DisturbedGives ==
  ASSUME OpTypes, NEW c \in Clients, NEW o \in Ops, Disturbed(c, o)
  PROVE  /\ OpTypes' /\ op'[c] = o /\ kept' = {} /\ replaced' = {}
         /\ \A d \in Clients : d # c => Rests(d) /\ (Is(d, "write")' => ~op'[d].whole)
<1>1. op' = [d \in Clients |->
              IF d = c THEN o
              ELSE IF Is(d, "write") THEN [op[d] EXCEPT !.whole = FALSE] ELSE op[d]]
  BY DEF Disturbed
<1>2. ASSUME NEW d \in Clients, d # c
      PROVE  op'[d] \in Ops /\ Rests(d) /\ (Is(d, "write")' => ~op'[d].whole)
  <2>1. CASE Is(d, "write")
    <3>1. op'[d] = [op[d] EXCEPT !.whole = FALSE]
      BY <1>1, <1>2, <2>1
    <3>2. op[d] \in [at : {"write"}, call : Writers, contents : Contents,
                     next : 1 .. 3, pos : Nat, app : BOOLEAN, whole : BOOLEAN]
      BY <2>1, OpIs
    <3>3. /\ op'[d] \in [at : {"write"}, call : Writers, contents : Contents,
                         next : 1 .. 3, pos : Nat, app : BOOLEAN, whole : BOOLEAN]
          /\ op'[d].at = op[d].at /\ op'[d].call = op[d].call
          /\ op'[d].contents = op[d].contents /\ op'[d].next = op[d].next
          /\ op'[d].app = op[d].app /\ op'[d].whole = FALSE
      BY <3>1, <3>2
    <3> QED
      BY <3>3 DEF Rests, Busy, Before, Appending, Is, Ops
  <2>2. CASE ~Is(d, "write")
    <3>1. op'[d] = op[d]
      BY <1>1, <1>2, <2>2
    <3> QED
      BY <2>2, <3>1, OpIs DEF Rests, Busy, Before, Appending, Is
  <2> QED
    BY <2>1, <2>2
<1>3. op'[c] = o /\ kept' = {} /\ replaced' = {}
  BY <1>1 DEF Disturbed
<1>4. OpTypes'
  BY <1>1, <1>2, <1>3 DEF OpTypes
<1> QED
  BY <1>2, <1>3, <1>4

LEMMA AloneStays ==
  ASSUME Alone, NEW c \in Clients, \A d \in Clients : d # c => Rests(d), kept' \subseteq kept,
         Busy(c)' => Busy(c) /\ op'[c].contents = op[c].contents
  PROVE  Alone'
<1>1. \A d \in Clients : Busy(d)' => Busy(d) /\ op'[d].contents = op[d].contents
  BY DEF Rests
<1> QED
  BY <1>1 DEF Alone

LEMMA NotYetStays ==
  ASSUME NotYet, NEW c \in Clients, \A d \in Clients : d # c => Rests(d),
         \A d \in Clients : \A x : Before(d) /\ x = op[d].contents =>
            Busy(d) /\ BlocksOf(x)' \subseteq BlocksOf(x),
         Before(c)' => Before(c) /\ op'[c].contents = op[c].contents
  PROVE  NotYet'
<1> SUFFICES ASSUME NEW d \in Clients, Before(d)' PROVE (BlocksOf(op[d].contents) = {})'
  BY DEF NotYet
<1>1. PICK x : x = op[d].contents
  OBVIOUS
<1>2. Before(d) /\ op'[d].contents = x
  BY <1>1 DEF Rests
<1>3. BlocksOf(x) = {} /\ BlocksOf(x)' \subseteq BlocksOf(x)
  BY <1>1, <1>2 DEF NotYet
<1> QED
  BY <1>2, <1>3 DEF BlocksOf

LEMMA SoFarStays ==
  ASSUME SoFar, NEW c \in Clients, \A d \in Clients : d # c => Rests(d),
         \A d \in Clients : \A x, n : d # c /\ Appending(d) /\ op[d].whole /\ op'[d].whole =>
            (file # NoFile /\ x = op[d].contents /\ InOrder(x, n) => file' # NoFile /\ InOrder(x, n)'),
         Appending(c)' => /\ op'[c].app
                          /\ op'[c].whole =>
                               /\ file' # NoFile
                               /\ \A x, n : x = op'[c].contents /\ n = op'[c].next - 1 =>
                                            InOrder(x, n)',
         \A d \in Clients : Appending(d) => Busy(d)
  PROVE  SoFar'
<1> SUFFICES ASSUME NEW d \in Clients, Appending(d)'
             PROVE  /\ op'[d].app
                    /\ op'[d].whole => /\ file' # NoFile
                                       /\ InOrder(op[d].contents, op[d].next - 1)'
  BY DEF SoFar
<1>1. CASE d = c
  <2>1. PICK x, n : x = op'[c].contents /\ n = op'[c].next - 1
    OBVIOUS
  <2> QED
    BY <1>1, <2>1 DEF InOrder, BlocksOf
<1>2. CASE d # c
  <2>1. Appending(d) /\ op'[d].app = op[d].app /\ op'[d].next = op[d].next
        /\ (op'[d].whole => op[d].whole) /\ op'[d].contents = op[d].contents
    BY <1>2 DEF Rests
  <2>2. op'[d].app
    BY <2>1 DEF SoFar
  <2>3. ASSUME op'[d].whole PROVE file' # NoFile /\ InOrder(op[d].contents, op[d].next - 1)'
    <3>1. PICK x, n : x = op[d].contents /\ n = op[d].next - 1
      OBVIOUS
    <3>2. file # NoFile /\ InOrder(x, n)
      BY <2>1, <2>3, <3>1 DEF SoFar
    <3>3. file' # NoFile /\ InOrder(x, n)'
      BY <1>2, <2>1, <2>3, <3>1, <3>2
    <3>4. x = op'[d].contents /\ n = op'[d].next - 1
      BY <2>1, <3>1
    <3> QED
      BY <3>3, <3>4 DEF InOrder, BlocksOf
  <2> QED
    BY <2>2, <2>3
<1> QED
  BY <1>1, <1>2

-----------------------------------------------------------------------------
(***************************************************************************)
(* A step and the file.                                                    *)
(***************************************************************************)

LEMMA SameHeld ==
  ASSUME UNCHANGED Held
  PROVE  \A x, n : BlocksOf(x)' = BlocksOf(x) /\ (InOrder(x, n)' <=> InOrder(x, n))
BY DEF BlocksOf, InOrder

LEMMA NothingHeld ==
  ASSUME Held' = <<>>
  PROVE  \A x : BlocksOf(x)' = {}
BY DEF BlocksOf

\* Where a block is written, and that the others stay where they are.
LEMMA WriteAt ==
  ASSUME FileTypes, OpTypes, NEW c \in Clients, WriteBlock(c), NEW p, p = WritePosition(op[c])
  PROVE  /\ op[c].next \in {1, 2} /\ op[c].contents \in Contents /\ Len(Held) \in Nat
         /\ file' \in Seq(Blocks) /\ file # NoFile /\ file' # NoFile
         /\ p \in 0 .. Len(Held)
         /\ op[c].app => p = Len(Held)
         /\ ~op[c].app /\ op[c].pos <= Len(Held) => p = op[c].pos
         /\ Len(Held') = IF p = Len(Held) THEN p + 1 ELSE Len(Held)
         /\ Held'[p + 1] = <<op[c].contents, op[c].next>>
         /\ \A i \in 1 .. Len(Held') : i # p + 1 => i \in 1 .. Len(Held) /\ Held'[i] = Held[i]
<1> DEFINE o == op[c]
           m == IF p = Len(file) THEN p + 1 ELSE Len(file)
<1>1. /\ Is(c, "write") /\ o.next \in {1, 2} /\ file # NoFile
      /\ o.contents \in Contents /\ o.pos \in Nat /\ o.app \in BOOLEAN
  BY OpIs DEF WriteBlock, Writes
<1>2. /\ file \in Seq(Blocks) /\ Held = file /\ Len(file) \in Nat
      /\ \A i \in 1 .. Len(file) : file[i] \in Blocks
  BY <1>1, HeldIs DEF FileTypes
<1>3. /\ p \in 0 .. Len(file) /\ (o.app => p = Len(file))
      /\ ~o.app /\ o.pos <= Len(file) => p = o.pos
  BY <1>1, <1>2 DEF WritePosition
<1>4. m \in Nat /\ p + 1 <= m /\ (m = Len(file) \/ m = p + 1) /\ (m = p + 1 \/ p < Len(file))
  BY <1>2, <1>3
<1>5. file' = [i \in 1 .. m |-> IF i = p + 1 THEN <<o.contents, o.next>> ELSE file[i]]
  BY DEF WriteBlock
<1>6. \A i \in 1 .. m : i # p + 1 => i \in 1 .. Len(file)
  BY <1>2, <1>3
<1>7. \A i \in 1 .. m : (IF i = p + 1 THEN <<o.contents, o.next>> ELSE file[i]) \in Blocks
  <2>1. <<o.contents, o.next>> \in Blocks
    BY <1>1 DEF Blocks
  <2> QED
    BY <1>2, <1>6, <2>1
<1> HIDE DEF m
<1>8. file' \in [1 .. m -> Blocks]
  BY <1>5, <1>7
<1>9. file' \in Seq(Blocks) /\ Len(file') = m
  BY <1>4, <1>8, SeqDef
<1>10. file' # NoFile /\ Held' = file'
  BY <1>9, HeldIs DEF Held
<1>11. p + 1 \in 1 .. m
  BY <1>2, <1>3, <1>4
<1>12. Held'[p + 1] = <<o.contents, o.next>>
  BY <1>5, <1>10, <1>11
<1>13. \A i \in 1 .. m : i # p + 1 => i \in 1 .. Len(Held) /\ Held'[i] = Held[i]
  BY <1>2, <1>5, <1>6, <1>10
<1> QED
  BY <1>1, <1>2, <1>3, <1>9, <1>10, <1>12, <1>13 DEF m

\* A block that is written is one of its thread's contents; in append mode the
\* others stay, and the block comes behind those of its contents.
LEMMA WriteGives ==
  ASSUME FileTypes, OpTypes, NEW c \in Clients, WriteBlock(c)
  PROVE  /\ file' \in Seq(Blocks)
         /\ file # NoFile /\ file' # NoFile
         /\ \A x : x # op[c].contents => BlocksOf(x)' \subseteq BlocksOf(x)
         /\ op[c].app => \A x, n : x # op[c].contents /\ InOrder(x, n) => InOrder(x, n)'
         /\ op[c].app => \A x : x = op[c].contents /\ InOrder(x, op[c].next - 1) =>
                             \A n : n = op[c].next => InOrder(x, n)'
<1> DEFINE o == op[c]
<1>1. PICK p : p = WritePosition(o)
  OBVIOUS
<1>2. PICK m : m = Len(Held')
  OBVIOUS
<1>3. /\ o.next \in {1, 2} /\ Len(Held) \in Nat
      /\ file' \in Seq(Blocks) /\ file # NoFile /\ file' # NoFile
      /\ p \in 0 .. Len(Held) /\ (o.app => p = Len(Held))
      /\ m = IF p = Len(Held) THEN p + 1 ELSE Len(Held)
      /\ Held'[p + 1] = <<o.contents, o.next>>
      /\ \A i \in 1 .. m : i # p + 1 => i \in 1 .. Len(Held) /\ Held'[i] = Held[i]
  BY <1>1, <1>2, WriteAt
<1>4. /\ Len(Held') = m /\ p + 1 \in 1 .. m
       /\ Held'[p + 1] = <<o.contents, o.next>>
       /\ \A i \in 1 .. m : i # p + 1 => i \in 1 .. Len(Held) /\ Held'[i] = Held[i]
  BY <1>2, <1>3
<1>5. \A x : x # o.contents => BlocksOf(x)' \subseteq BlocksOf(x)
  BY <1>4 DEF BlocksOf
<1>6. ASSUME o.app
       PROVE  /\ m = Len(Held) + 1 /\ p = Len(Held)
              /\ \A i \in 1 .. Len(Held) : i \in 1 .. m /\ Held'[i] = Held[i]
              /\ \A x : x # o.contents => BlocksOf(x)' = BlocksOf(x)
              /\ \A x : x = o.contents => BlocksOf(x)' = BlocksOf(x) \cup {Len(Held) + 1}
  <2>1. m = Len(Held) + 1 /\ p = Len(Held) /\ Len(Held) \in Nat
    BY <1>3, <1>6
  <2>2. \A i \in 1 .. Len(Held) : i \in 1 .. m /\ Held'[i] = Held[i]
    BY <1>4, <2>1
  <2>3. \A x : x # o.contents => BlocksOf(x)' = BlocksOf(x)
    BY <1>4, <1>5, <2>2 DEF BlocksOf
  <2>4. \A x : x = o.contents => BlocksOf(x)' = BlocksOf(x) \cup {Len(Held) + 1}
    BY <1>4, <2>1, <2>2 DEF BlocksOf
  <2> QED
    BY <2>1, <2>2, <2>3, <2>4
<1>7. ASSUME o.app, NEW x, NEW n, x # o.contents, InOrder(x, n) PROVE InOrder(x, n)'
  BY <1>4, <1>6, <1>7 DEF InOrder
<1>8. ASSUME o.app, NEW x, x = o.contents, InOrder(x, o.next - 1), NEW n, n = o.next
       PROVE  InOrder(x, n)'
  <2>1. BlocksOf(x)' = BlocksOf(x) \cup {Len(Held) + 1} /\ Held'[Len(Held) + 1] = <<x, n>>
        /\ Len(Held') = Len(Held) + 1 /\ Len(Held) \in Nat
    BY <1>3, <1>4, <1>6, <1>8
  <2>2. CASE o.next = 1
    <3>1. BlocksOf(x) = {}
      BY <1>8, <2>2 DEF InOrder
    <3> QED
      BY <1>8, <2>1, <2>2, <3>1 DEF InOrder
  <2>3. CASE o.next = 2
    <3>1. PICK i \in 1 .. Len(Held) : BlocksOf(x) = {i} /\ Held[i] = <<x, 1>>
      BY <1>8, <2>3 DEF InOrder
    <3>2. Held'[i] = <<x, 1>> /\ BlocksOf(x)' = {i, Len(Held) + 1} /\ i < Len(Held) + 1
      BY <1>6, <1>8, <2>1, <3>1
    <3>3. i \in 1 .. Len(Held') /\ Len(Held) + 1 \in 1 .. Len(Held')
      BY <2>1, <3>1
    <3> QED
      BY <1>8, <2>1, <2>3, <3>2, <3>3 DEF InOrder
  <2> QED
    BY <1>3, <2>2, <2>3
<1> QED
  BY <1>3, <1>5, <1>7, <1>8

-----------------------------------------------------------------------------
(***************************************************************************)
(* The invariant, action by action.                                        *)
(***************************************************************************)

\* A thread steps, and neither the file nor what is kept changes.
LEMMA QuietStep ==
  ASSUME StoreInv, NEW c \in Clients, NEW o \in Ops, Becomes(c, o),
         UNCHANGED Held, UNCHANGED kept, file' = file \/ file' = <<>>, FileTypes',
         o.at # "idle" => Busy(c) /\ o.contents = op[c].contents,
         o.at \in {"mount", "open"} => Before(c),
         o.at = "write" /\ o.call = "Append" =>
           /\ o.app
           /\ o.whole => file' # NoFile /\ \A x, n : x = o.contents /\ n = o.next - 1 => InOrder(x, n)
  PROVE  StoreInv'
<1>1. /\ OpTypes' /\ op'[c] = o /\ \A d \in Clients : d # c => Rests(d)
  BY BecomesGives DEF StoreInv
<1>2. \A x, n : BlocksOf(x)' = BlocksOf(x) /\ (InOrder(x, n)' <=> InOrder(x, n))
  BY SameHeld
<1>3. <<>> # NoFile
  BY DEF NoFile
<1>4. Alone'
  BY <1>1, AloneStays DEF StoreInv, Busy, Is
<1>5. NotYet'
  <2>1. \A d \in Clients : \A x : Before(d) /\ x = op[d].contents =>
           Busy(d) /\ BlocksOf(x)' \subseteq BlocksOf(x)
    BY <1>2, OpIs DEF StoreInv
  <2>2. Before(c)' => Before(c) /\ op'[c].contents = op[c].contents
    BY <1>1 DEF Before, Is
  <2> QED
    BY <1>1, <2>1, <2>2, NotYetStays DEF StoreInv
<1>6. SoFar'
  <2>1. \A d \in Clients : Appending(d) => Busy(d)
    BY DEF Appending, Busy, Is
  <2>2. \A d \in Clients : \A x, n : d # c /\ Appending(d) /\ op[d].whole /\ op'[d].whole =>
           (file # NoFile /\ x = op[d].contents /\ InOrder(x, n) => file' # NoFile /\ InOrder(x, n)')
    BY <1>2, <1>3
  <2>3. Appending(c)' => /\ op'[c].app
                         /\ op'[c].whole =>
                              /\ file' # NoFile
                              /\ \A x, n : x = op'[c].contents /\ n = op'[c].next - 1 =>
                                           InOrder(x, n)'
    BY <1>1, <1>2 DEF Appending, Is
  <2> QED
    BY <1>1, <2>1, <2>2, <2>3, SoFarStays DEF StoreInv
<1>7. AllKept'
  BY <1>2 DEF AllKept, StoreInv
<1> QED
  BY <1>1, <1>4, <1>5, <1>6, <1>7 DEF StoreInv

\* A thread truncates, deletes or formats: nothing is kept, and nobody is whole.
LEMMA DisturbedStep ==
  ASSUME StoreInv, NEW c \in Clients, NEW o \in Ops, Disturbed(c, o), FileTypes',
         \A x : x # op[c].contents \/ o.at # "write" => BlocksOf(x)' \subseteq BlocksOf(x),
         o.at # "idle" => Busy(c) /\ o.contents = op[c].contents,
         o.at \in {"mount", "open"} => Before(c),
         ~(o.at = "write" /\ o.call = "Append")
  PROVE  StoreInv'
<1>1. /\ OpTypes' /\ op'[c] = o /\ kept' = {}
      /\ \A d \in Clients : d # c => Rests(d) /\ (Appending(d) => ~op'[d].whole)
  BY DisturbedGives DEF StoreInv, Rests, Appending, Is
<1>2. Alone'
  BY <1>1, AloneStays DEF StoreInv, Busy, Is
<1>3. NotYet'
  <2> SUFFICES ASSUME NEW d \in Clients, Before(d)' PROVE (BlocksOf(op[d].contents) = {})'
    BY DEF NotYet
  <2>1. PICK x : x = op[d].contents
    OBVIOUS
  <2>2. Before(d) /\ op'[d].contents = x /\ Busy(d)
    BY <1>1, <2>1, OpIs DEF Rests, Before, Is, StoreInv
  <2>3. x # op[c].contents \/ o.at # "write"
    <3>1. CASE d = c
      BY <1>1, <3>1 DEF Before, Is
    <3>2. CASE d # c
      BY <2>1, <2>2, <3>2 DEF StoreInv, Alone
    <3> QED
      BY <3>1, <3>2
  <2>4. BlocksOf(x) = {} /\ BlocksOf(x)' \subseteq BlocksOf(x)
    BY <2>1, <2>2, <2>3 DEF StoreInv, NotYet
  <2> QED
    BY <2>2, <2>4 DEF BlocksOf
<1>4. SoFar'
  <2>1. \A d \in Clients : Appending(d) => Busy(d)
    BY DEF Appending, Busy, Is
  <2>2. ~Appending(c)'
    BY <1>1 DEF Appending, Is
  <2> QED
    BY <1>1, <2>1, <2>2, SoFarStays DEF StoreInv
<1>5. AllKept'
  BY <1>1 DEF AllKept
<1> QED
  BY <1>1, <1>2, <1>3, <1>4, <1>5 DEF StoreInv

\* A call begins with contents that are nowhere yet.
LEMMA CallStep ==
  ASSUME StoreInv, NEW c \in Clients, NEW call \in Calls, NEW contents \in Contents,
         Call(c, call, contents)
  PROVE  StoreInv'
<1> DEFINE o == [at |-> IF mounted THEN "open" ELSE "mount", call |-> call, contents |-> contents]
<1>1. o \in Ops /\ o.at \in {"mount", "open"} /\ o.contents = contents
  BY DEF Ops
<1>2. Becomes(c, o) /\ UNCHANGED <<mounted, registered, file, kept, replaced>>
  BY DEF Call
<1>3. ~Busy(c) /\ contents \notin InUse
  BY DEF Call, Busy
<1> HIDE DEF o
<1>4. OpTypes' /\ op'[c] = o /\ \A d \in Clients : d # c => Rests(d)
  BY <1>1, <1>2, BecomesGives DEF StoreInv
<1>5. \A x, n : BlocksOf(x)' = BlocksOf(x) /\ (InOrder(x, n)' <=> InOrder(x, n))
  BY <1>2, SameHeld DEF Held
<1>6. contents \notin kept /\ \A d \in Clients : Busy(d) => op[d].contents # contents
  BY <1>3 DEF InUse, Busy
<1>7. BlocksOf(contents) = {}
  <2>1. \A i \in 1 .. Len(Held) : Held[i] \in Range(Held)
    BY HeldIs DEF StoreInv, Range
  <2>2. \A b \in Range(Held) : b[1] # contents
    BY <1>3 DEF InUse
  <2> QED
    BY <2>1, <2>2 DEF BlocksOf
<1>8. FileTypes'
  BY <1>2 DEF FileTypes, StoreInv
<1>9. Alone'
  <2>1. \A d \in Clients : d # c /\ Busy(d)' => Busy(d) /\ op'[d].contents = op[d].contents
    BY <1>4 DEF Rests
  <2>2. op'[c].contents = contents /\ kept' = kept
    BY <1>1, <1>2, <1>4
  <2> QED
    BY <1>6, <2>1, <2>2 DEF Alone, StoreInv
<1>10. NotYet'
  <2> SUFFICES ASSUME NEW d \in Clients, Before(d)' PROVE (BlocksOf(op[d].contents) = {})'
    BY DEF NotYet
  <2>1. PICK x : x = op'[d].contents
    OBVIOUS
  <2>2. d # c => Before(d) /\ x = op[d].contents
    BY <1>4, <2>1, OpIs DEF Rests, StoreInv
  <2>3. d = c => x = contents
    BY <1>1, <1>4, <2>1
  <2>4. BlocksOf(x)' = {}
    BY <1>5, <1>7, <2>2, <2>3 DEF StoreInv, NotYet
  <2> QED
    BY <2>1, <2>4 DEF BlocksOf
<1>11. SoFar'
  <2>1. \A d \in Clients : Appending(d) => Busy(d)
    BY DEF Appending, Busy, Is
  <2>2. ~Appending(c)'
    BY <1>1, <1>4 DEF Appending, Is
  <2>3. file' = file
    BY <1>2
  <2> QED
    BY <1>4, <1>5, <2>1, <2>2, <2>3, SoFarStays DEF StoreInv
<1>12. AllKept'
  BY <1>2, <1>5 DEF AllKept, StoreInv
<1> QED
  BY <1>4, <1>8, <1>9, <1>10, <1>11, <1>12 DEF StoreInv

LEMMA FormatStep ==
  ASSUME StoreInv, NEW c \in Clients, InitSPIFFS(c)
  PROVE  StoreInv'
<1> DEFINE opens == [op[c] EXCEPT !.at = "open"]
<1>1. Is(c, "mount") /\ Before(c)
  BY DEF InitSPIFFS, Before
<1>2. op[c] \in [at : {"mount", "open"}, call : Calls, contents : Contents] /\ Busy(c)
  BY <1>1, OpIs DEF StoreInv
<1>3. opens \in Ops /\ opens.at = "open" /\ opens.contents = op[c].contents
  BY <1>2 DEF Ops
<1> HIDE DEF opens
<1>4. mounted' \in BOOLEAN /\ registered' \in BOOLEAN
  BY DEF InitSPIFFS, StoreInv, FileTypes
<1>5. \/ Becomes(c, opens) /\ UNCHANGED <<file, kept, replaced>>
      \/ Disturbed(c, opens) /\ file' = NoFile
  BY DEF InitSPIFFS, opens
<1>6. CASE Becomes(c, opens) /\ UNCHANGED <<file, kept, replaced>>
  <2>1. UNCHANGED Held /\ FileTypes'
    BY <1>4, <1>6 DEF Held, FileTypes, StoreInv
  <2> QED
    BY <1>1, <1>2, <1>3, <1>6, <2>1, QuietStep
<1>7. CASE Disturbed(c, opens) /\ file' = NoFile
  <2>1. Held' = <<>> /\ FileTypes'
    BY <1>4, <1>7 DEF Held, FileTypes, Disturbed
  <2>2. \A x : BlocksOf(x)' \subseteq BlocksOf(x)
    BY <2>1, NothingHeld
  <2> QED
    BY <1>1, <1>2, <1>3, <1>7, <2>1, <2>2, DisturbedStep
<1> QED
  BY <1>5, <1>6, <1>7

\* A call returns without having touched the file.
LEMMA ReturnStep ==
  ASSUME StoreInv, NEW c \in Clients, Reads(c) \/ OpenFails(c)
  PROVE  StoreInv'
<1>1. Becomes(c, Idle) /\ UNCHANGED <<mounted, registered, file, kept, replaced>>
  BY DEF Reads, OpenFails, Returns
<1>2. Idle \in Ops /\ Idle.at = "idle"
  BY DEF Ops, Idle
<1>3. UNCHANGED Held /\ FileTypes'
  BY <1>1 DEF Held, FileTypes, StoreInv
<1> QED
  BY <1>1, <1>2, <1>3, QuietStep

LEMMA OpenedIs ==
  ASSUME OpTypes, NEW c \in Clients, Is(c, "open"), op[c].call \in Writers,
         NEW pos \in Nat, NEW app \in BOOLEAN
  PROVE  /\ Opened(c, pos, app) \in Ops /\ Opened(c, pos, app).at = "write"
         /\ Opened(c, pos, app).contents = op[c].contents
         /\ Opened(c, pos, app).call = op[c].call
         /\ Opened(c, pos, app).next = 1 /\ Opened(c, pos, app).app = app
         /\ Busy(c) /\ Before(c)
<1>1. Busy(c) /\ Before(c) /\ op[c].contents \in Contents
  BY OpIs DEF Before
<1> QED
  BY <1>1 DEF Opened, Ops

LEMMA ReplaceStep ==
  ASSUME StoreInv, NEW c \in Clients, OpenReplacing(c)
  PROVE  StoreInv'
<1>1. /\ Is(c, "open") /\ op[c].call \in Replacing /\ file' = <<>>
      /\ Disturbed(c, Opened(c, 0, FALSE)) /\ UNCHANGED <<mounted, registered>>
  BY DEF OpenReplacing
<1>2. PICK o \in Ops : /\ o = Opened(c, 0, FALSE) /\ o.at = "write" /\ o.contents = op[c].contents
                       /\ o.call \in Replacing /\ Busy(c)
  BY <1>1, OpenedIs DEF StoreInv, Writers
<1>3. Held' = <<>> /\ FileTypes'
  BY <1>1 DEF Held, FileTypes, StoreInv, Disturbed
<1>4. \A x : BlocksOf(x)' \subseteq BlocksOf(x)
  BY <1>3, NothingHeld
<1>5. o.call # "Append"
  BY <1>2 DEF Replacing
<1> QED
  BY <1>1, <1>2, <1>3, <1>4, <1>5, DisturbedStep

LEMMA AppendStep ==
  ASSUME StoreInv, NEW c \in Clients, OpenAppending(c)
  PROVE  StoreInv'
<1>1. /\ Is(c, "open") /\ op[c].call = "Append" /\ file' = Held
      /\ Becomes(c, Opened(c, Len(Held), TRUE)) /\ UNCHANGED <<mounted, registered, kept, replaced>>
  BY DEF OpenAppending, OpensAt
<1>2. Held \in Seq(Blocks) /\ Len(Held) \in Nat /\ Held # NoFile
  BY HeldIs DEF StoreInv
<1>3. PICK o \in Ops : /\ o = Opened(c, Len(Held), TRUE) /\ o.at = "write"
                       /\ o.contents = op[c].contents /\ o.next = 1 /\ o.app = TRUE
                       /\ Busy(c) /\ Before(c)
  BY <1>1, <1>2, OpenedIs DEF StoreInv, Writers
<1>4. UNCHANGED Held /\ FileTypes' /\ (file' = file \/ file' = <<>>) /\ file' # NoFile
  BY <1>1, <1>2 DEF Held, FileTypes, StoreInv
<1>5. BlocksOf(op[c].contents) = {}
  BY <1>3 DEF NotYet, StoreInv
<1>6. \A x, n : x = o.contents /\ n = o.next - 1 => InOrder(x, n)
  BY <1>3, <1>5 DEF InOrder
<1> QED
  BY <1>1, <1>3, <1>4, <1>6, QuietStep

LEMMA DeleteStep ==
  ASSUME StoreInv, NEW c \in Clients, Delete(c)
  PROVE  StoreInv'
<1>1. Disturbed(c, Idle) /\ file' = NoFile /\ UNCHANGED <<mounted, registered>>
  BY DEF Delete
<1>2. Idle \in Ops /\ Idle.at = "idle"
  BY DEF Ops, Idle
<1>3. Held' = <<>> /\ FileTypes'
  BY <1>1 DEF Held, FileTypes, StoreInv, Disturbed
<1>4. \A x : BlocksOf(x)' \subseteq BlocksOf(x)
  BY <1>3, NothingHeld
<1> QED
  BY <1>1, <1>2, <1>3, <1>4, DisturbedStep

LEMMA WriteStep ==
  ASSUME StoreInv, NEW c \in Clients, WriteBlock(c)
  PROVE  StoreInv'
<1> DEFINE w == [op[c] EXCEPT !.next = @ + 1, !.pos = WritePosition(op[c]) + 1]
<1>1. /\ Is(c, "write") /\ Busy(c) /\ op[c].next \in 1 .. 2
      /\ op[c] \in [at : {"write"}, call : Writers, contents : Contents,
                    next : 1 .. 3, pos : Nat, app : BOOLEAN, whole : BOOLEAN]
  BY OpIs DEF WriteBlock, Writes, StoreInv
<1>2. /\ file' \in Seq(Blocks) /\ file # NoFile /\ file' # NoFile
      /\ \A x : x # op[c].contents => BlocksOf(x)' \subseteq BlocksOf(x)
      /\ op[c].app => \A x, n : x # op[c].contents /\ InOrder(x, n) => InOrder(x, n)'
      /\ op[c].app => \A x : x = op[c].contents /\ InOrder(x, op[c].next - 1) =>
                          \A n : n = op[c].next => InOrder(x, n)'
  BY WriteGives DEF StoreInv
<1>3. WritePosition(op[c]) \in Nat
  <2>1. file \in Seq(Blocks)
    BY <1>2 DEF StoreInv, FileTypes
  <2> QED
    BY <1>1, <2>1, LenProperties DEF WritePosition
<1>4. /\ w \in Ops /\ w.at = "write" /\ w.contents = op[c].contents /\ w.call = op[c].call
      /\ w.next = op[c].next + 1 /\ w.app = op[c].app /\ w.whole = op[c].whole
  <2>1. op[c].next + 1 \in 1 .. 3 /\ WritePosition(op[c]) + 1 \in Nat
    BY <1>1, <1>3
  <2>2. w \in [at : {"write"}, call : Writers, contents : Contents,
               next : 1 .. 3, pos : Nat, app : BOOLEAN, whole : BOOLEAN]
    BY <1>1, <2>1
  <2>3. /\ w.at = op[c].at /\ w.contents = op[c].contents /\ w.call = op[c].call
        /\ w.next = op[c].next + 1 /\ w.app = op[c].app /\ w.whole = op[c].whole
    BY <1>1
  <2> QED
    BY <2>2, <2>3, <1>1 DEF Ops, Is
<1>5. /\ IF op[c].call = "Append" THEN Becomes(c, w) /\ UNCHANGED <<kept, replaced>> ELSE Disturbed(c, w)
      /\ UNCHANGED <<mounted, registered>>
  BY DEF WriteBlock
<1> HIDE DEF w
<1>6. CASE op[c].call # "Append"
  <2>1. FileTypes'
    BY <1>2, <1>5, <1>6 DEF FileTypes, StoreInv, Disturbed
  <2> QED
    BY <1>1, <1>2, <1>4, <1>5, <1>6, <2>1, DisturbedStep
<1>7. CASE op[c].call = "Append"
  <2>1. Appending(c) /\ op[c].app
    BY <1>1, <1>7 DEF Appending, SoFar, StoreInv
  <2>2. FileTypes' /\ UNCHANGED <<kept, replaced>>
    BY <1>2, <1>5, <1>7 DEF FileTypes, StoreInv
  <2>3. OpTypes' /\ op'[c] = w /\ \A d \in Clients : d # c => Rests(d)
    BY <1>4, <1>5, <1>7, BecomesGives DEF StoreInv
  <2>4. Alone'
    BY <1>1, <1>4, <2>2, <2>3, AloneStays DEF StoreInv
  <2>5. \A d \in Clients : d # c /\ Busy(d) => op[d].contents # op[c].contents
    BY <1>1 DEF StoreInv, Alone
  <2>6. NotYet'
    <3>1. ~Before(c) /\ \A d \in Clients : Before(d) => Busy(d)
      BY <1>1, OpIs DEF StoreInv
    <3>2. \A d \in Clients : \A x : Before(d) /\ x = op[d].contents =>
             Busy(d) /\ BlocksOf(x)' \subseteq BlocksOf(x)
      BY <1>2, <2>5, <3>1
    <3>3. ~Before(c)'
      BY <1>4, <2>3 DEF Before, Is
    <3> QED
      BY <2>3, <3>2, <3>3, NotYetStays DEF StoreInv
  <2>7. SoFar'
    <3>1. \A d \in Clients : Appending(d) => Busy(d)
      BY DEF Appending, Busy, Is
    <3>2. \A d \in Clients : \A x, n : d # c /\ Appending(d) /\ op[d].whole /\ op'[d].whole =>
            (file # NoFile /\ x = op[d].contents /\ InOrder(x, n) => file' # NoFile /\ InOrder(x, n)')
      BY <1>2, <2>1, <2>5, <3>1
    <3>3. ASSUME op'[c].whole, NEW x, NEW n, x = op'[c].contents, n = op'[c].next - 1
          PROVE  InOrder(x, n)'
      <4>1. op[c].whole /\ x = op[c].contents /\ n = op[c].next
        BY <1>1, <1>4, <2>3, <3>3
      <4>2. InOrder(x, op[c].next - 1)
        BY <2>1, <4>1 DEF SoFar, StoreInv
      <4> QED
        BY <1>2, <2>1, <4>1, <4>2
    <3>4. op'[c].app
      BY <1>4, <2>1, <2>3
    <3> QED
      BY <1>2, <2>3, <3>1, <3>2, <3>3, <3>4, SoFarStays DEF StoreInv
  <2>8. AllKept'
    <3>1. \A x \in kept : x # op[c].contents
      BY <1>1 DEF StoreInv, Alone
    <3> QED
      BY <1>2, <2>1, <2>2, <3>1 DEF StoreInv, AllKept
  <2> QED
    BY <2>2, <2>3, <2>4, <2>6, <2>7, <2>8 DEF StoreInv
<1> QED
  BY <1>6, <1>7

LEMMA LoseStep ==
  ASSUME StoreInv, NEW c \in Clients, LoseBlock(c)
  PROVE  StoreInv'
<1> DEFINE w == [op[c] EXCEPT !.next = @ + 1, !.whole = FALSE]
<1>1. /\ Is(c, "write") /\ Busy(c) /\ op[c].next \in 1 .. 2
      /\ op[c] \in [at : {"write"}, call : Writers, contents : Contents,
                    next : 1 .. 3, pos : Nat, app : BOOLEAN, whole : BOOLEAN]
  BY OpIs DEF LoseBlock, Writes, StoreInv
<1>2. /\ w \in Ops /\ w.at = "write" /\ w.contents = op[c].contents /\ w.call = op[c].call
      /\ w.app = op[c].app /\ w.whole = FALSE
  <2>1. op[c].next + 1 \in 1 .. 3
    BY <1>1
  <2> QED
    BY <1>1, <2>1 DEF Ops
<1>3. Becomes(c, w) /\ UNCHANGED <<mounted, registered, file, kept, replaced>>
  BY DEF LoseBlock
<1> HIDE DEF w
<1>4. UNCHANGED Held /\ FileTypes'
  BY <1>3 DEF Held, FileTypes, StoreInv
<1>5. w.call = "Append" => w.app
  BY <1>1, <1>2 DEF StoreInv, SoFar, Appending
<1> QED
  BY <1>1, <1>2, <1>3, <1>4, <1>5, QuietStep

\* What an Append() that lost nothing acknowledges is complete.
LEMMA CloseStep ==
  ASSUME StoreInv, NEW c \in Clients, Close(c)
  PROVE  StoreInv'
<1>1. /\ Is(c, "write") /\ Busy(c) /\ op[c].next = 3 /\ op[c].contents \in Contents
  BY OpIs DEF Close, StoreInv
<1>2. /\ Becomes(c, Idle) /\ UNCHANGED <<mounted, registered, file>>
      /\ kept' = IF op[c].whole /\ op[c].call = "Append" THEN kept \cup {op[c].contents} ELSE kept
      /\ replaced' = IF op[c].whole /\ op[c].call \in Replacing THEN {op[c].contents} ELSE replaced
  BY DEF Close, Returns
<1>3. Idle \in Ops /\ Idle.at = "idle"
  BY DEF Ops, Idle
<1>4. UNCHANGED Held /\ FileTypes'
  BY <1>1, <1>2 DEF Held, FileTypes, StoreInv
<1>5. OpTypes' /\ op'[c] = Idle /\ \A d \in Clients : d # c => Rests(d)
  BY <1>2, <1>3, BecomesGives DEF StoreInv
<1>6. \A x, n : BlocksOf(x)' = BlocksOf(x) /\ (InOrder(x, n)' <=> InOrder(x, n))
  BY <1>4, SameHeld
<1>7. ~Busy(c)' /\ ~Before(c)' /\ ~Appending(c)'
  BY <1>3, <1>5 DEF Busy, Before, Appending, Is
<1>8. Alone'
  <2>1. \A d \in Clients : Busy(d)' => d # c /\ Busy(d) /\ op'[d].contents = op[d].contents
    BY <1>5, <1>7 DEF Rests
  <2>2. \A d \in Clients : d # c /\ Busy(d) => op[d].contents \notin kept \cup {op[c].contents}
    BY <1>1 DEF StoreInv, Alone
  <2>3. kept' \subseteq kept \cup {op[c].contents}
    BY <1>2
  <2> QED
    BY <2>1, <2>2, <2>3 DEF StoreInv, Alone
<1>9. NotYet'
  <2>1. \A d \in Clients : \A x : Before(d) /\ x = op[d].contents =>
           Busy(d) /\ BlocksOf(x)' \subseteq BlocksOf(x)
    BY <1>6, OpIs DEF StoreInv
  <2> QED
    BY <1>5, <1>7, <2>1, NotYetStays DEF StoreInv
<1>10. SoFar'
  <2>1. \A d \in Clients : Appending(d) => Busy(d)
    BY DEF Appending, Busy, Is
  <2>2. file' = file
    BY <1>2
  <2> QED
    BY <1>5, <1>6, <1>7, <2>1, <2>2, SoFarStays DEF StoreInv
<1>11. AllKept'
  <2>1. ASSUME op[c].whole, op[c].call = "Append", NEW x, x = op[c].contents PROVE InOrder(x, 2)
    <3>1. Appending(c)
      BY <1>1, <2>1 DEF Appending
    <3>2. op[c].next - 1 = 2
      BY <1>1
    <3> QED
      BY <2>1, <3>1, <3>2 DEF StoreInv, SoFar
  <2> SUFFICES ASSUME NEW x \in kept' PROVE InOrder(x, 2)'
    BY DEF AllKept
  <2>2. x \in kept \/ (op[c].whole /\ op[c].call = "Append" /\ x = op[c].contents)
    BY <1>2
  <2>3. InOrder(x, 2)
    BY <2>1, <2>2 DEF StoreInv, AllKept
  <2> QED
    BY <1>6, <2>3
<1> QED
  BY <1>4, <1>5, <1>8, <1>9, <1>10, <1>11 DEF StoreInv

LEMMA PowerStep ==
  ASSUME StoreInv, PowerFails
  PROVE  StoreInv'
<1>1. /\ mounted' \in BOOLEAN /\ registered' = mounted' /\ op' = [c \in Clients |-> Idle]
      /\ \/ UNCHANGED <<file, kept, replaced>>
         \/ file' = NoFile /\ kept' = {} /\ replaced' = {}
  BY DEF PowerFails
<1>2. FileTypes'
  BY <1>1 DEF FileTypes, StoreInv
<1>3. OpTypes'
  BY <1>1 DEF OpTypes, Ops
<1>4. \A c \in Clients : ~Busy(c)' /\ ~Before(c)' /\ ~Appending(c)'
  BY <1>1 DEF Busy, Before, Appending, Is, Idle
<1>5. AllKept'
  <2>1. CASE UNCHANGED <<file, kept, replaced>>
    <3>1. UNCHANGED Held
      BY <2>1 DEF Held
    <3> QED
      BY <2>1, <3>1, SameHeld DEF AllKept, StoreInv
  <2>2. CASE kept' = {}
    BY <2>2 DEF AllKept
  <2> QED
    BY <1>1, <2>1, <2>2
<1> QED
  BY <1>2, <1>3, <1>4, <1>5 DEF StoreInv, Alone, NotYet, SoFar

LEMMA StoreInvSteps ==
  ASSUME StoreInv, [FilesNext]_files
  PROVE  StoreInv'
<1>1. CASE UNCHANGED files
  <2>1. UNCHANGED <<mounted, registered, file, op, kept, replaced>>
    BY <1>1 DEF files
  <2>2. UNCHANGED Held
    BY <2>1 DEF Held
  <2>3. FileTypes' /\ OpTypes' /\ Alone'
    BY <2>1 DEF StoreInv, FileTypes, OpTypes, Alone, Busy, Is
  <2>4. NotYet'
    BY <2>1, <2>2 DEF StoreInv, NotYet, BlocksOf, Before, Is
  <2>5. SoFar'
    <3>1. \A c \in Clients : Appending(c)' <=> Appending(c)
      BY <2>1 DEF Appending, Is
    <3>2. ASSUME NEW c \in Clients, Appending(c)'
          PROVE  /\ op'[c].app
                 /\ op'[c].whole => file' # NoFile /\ InOrder(op[c].contents, op[c].next - 1)'
      <4>1. /\ op[c].app
            /\ op[c].whole => file # NoFile /\ InOrder(op[c].contents, op[c].next - 1)
        BY <3>1, <3>2 DEF StoreInv, SoFar
      <4> QED
        BY <2>1, <2>2, <4>1 DEF InOrder, BlocksOf
    <3> QED
      BY <3>2 DEF SoFar
  <2>6. AllKept'
    BY <2>1, <2>2, SameHeld DEF StoreInv, AllKept
  <2> QED
    BY <2>3, <2>4, <2>5, <2>6 DEF StoreInv
<1>2. ASSUME NEW c \in Clients, NEW call \in Calls, NEW contents \in Contents,
             Call(c, call, contents)
      PROVE  StoreInv'
  BY <1>2, CallStep
<1>3. ASSUME NEW c \in Clients, InitSPIFFS(c) \/ Reads(c) \/ OpenFails(c) PROVE StoreInv'
  BY <1>3, FormatStep, ReturnStep
<1>4. ASSUME NEW c \in Clients, OpenReplacing(c) \/ OpenAppending(c) \/ Delete(c) PROVE StoreInv'
  BY <1>4, ReplaceStep, AppendStep, DeleteStep
<1>5. ASSUME NEW c \in Clients, WriteBlock(c) \/ LoseBlock(c) \/ Close(c) PROVE StoreInv'
  BY <1>5, WriteStep, LoseStep, CloseStep
<1> QED
  BY <1>1, <1>2, <1>3, <1>4, <1>5, PowerStep DEF FilesNext

LEMMA StoreInvAlways == FilesSpec => []StoreInv
<1>1. FilesInit => StoreInv
  BY StoreInvStarts
<1>2. StoreInv /\ [FilesNext]_files => StoreInv'
  BY StoreInvSteps
<1> QED
  BY <1>1, <1>2, PTL DEF FilesSpec

-----------------------------------------------------------------------------
(***************************************************************************)
(* Create() and Update() write from the beginning of the file.             *)
(***************************************************************************)

\* The first n blocks of x are the first of the file, and no other is of x.
Leading(x, n) ==
  /\ n \in 0 .. Len(Held) /\ BlocksOf(x) = 1 .. n
  /\ \A i \in 1 .. n : Held[i] = <<x, i>>

\* Thread c replaces the file and has lost nothing.
Claims(c) == Is(c, "write") /\ op[c].call \in Replacing /\ op[c].whole

InFront ==
  \A c \in Clients : Claims(c) =>
    /\ file # NoFile /\ ~op[c].app /\ op[c].pos = op[c].next - 1
    /\ Leading(op[c].contents, op[c].next - 1)

AllReplaced ==
  \A x \in replaced :
    Leading(x, 2) /\ \A c \in Clients : Busy(c) => op[c].contents # x

FrontInv == InFront /\ AllReplaced

LEMMA SameFront ==
  ASSUME UNCHANGED Held
  PROVE  \A x, n : Leading(x, n)' <=> Leading(x, n)
BY DEF Leading, BlocksOf

\* Thread c steps and claims nothing afterwards; only blocks of its own contents
\* may be touched.
LEMMA QuietFront ==
  ASSUME StoreInv, FrontInv, NEW c \in Clients, NEW o \in Ops, Becomes(c, o),
         replaced' \subseteq replaced,
         \A x, n : (Busy(c) => x # op[c].contents) /\ Leading(x, n) => Leading(x, n)',
         file # NoFile => file' # NoFile,
         ~(o.at = "write" /\ o.call \in Replacing /\ o.whole),
         o.at # "idle" => IF Busy(c) THEN o.contents = op[c].contents
                          ELSE o.contents \notin replaced
  PROVE  FrontInv'
<1>1. op'[c] = o /\ \A d \in Clients : d # c => op'[d] = op[d]
  BY BecomesGives DEF StoreInv
<1>2. ~Claims(c)'
  BY <1>1 DEF Claims, Is
<1>3. ASSUME NEW d \in Clients, Claims(d)'
      PROVE  /\ file' # NoFile /\ ~op'[d].app /\ op'[d].pos = op'[d].next - 1
             /\ Leading(op[d].contents, op[d].next - 1)'
  <2>1. d # c /\ op'[d] = op[d]
    BY <1>1, <1>2, <1>3
  <2>2. Claims(d) /\ Busy(d)
    BY <1>3, <2>1 DEF Claims, Busy, Is
  <2>3. PICK x, n : x = op[d].contents /\ n = op[d].next - 1
    OBVIOUS
  <2>4. file # NoFile /\ ~op[d].app /\ op[d].pos = n /\ Leading(x, n)
    BY <2>2, <2>3 DEF FrontInv, InFront
  <2>5. Busy(c) => x # op[c].contents
    BY <2>1, <2>2, <2>3 DEF StoreInv, Alone
  <2>6. Leading(x, n)'
    BY <2>4, <2>5
  <2> QED
    BY <2>1, <2>3, <2>4, <2>6 DEF Leading, BlocksOf
<1>4. ASSUME NEW x \in replaced'
      PROVE  Leading(x, 2)' /\ \A d \in Clients : Busy(d)' => op'[d].contents # x
  <2>1. Leading(x, 2) /\ \A d \in Clients : Busy(d) => op[d].contents # x
    BY <1>4 DEF FrontInv, AllReplaced
  <2>2. Leading(x, 2)'
    BY <2>1
  <2>3. ASSUME NEW d \in Clients, Busy(d)', d # c PROVE op'[d].contents # x
    BY <1>1, <2>1, <2>3 DEF Busy, Is
  <2>4. Busy(c)' => op'[c].contents # x
    BY <1>1, <1>4, <2>1 DEF Busy, Is
  <2> QED
    BY <2>2, <2>3, <2>4
<1> QED
  BY <1>3, <1>4 DEF FrontInv, InFront, AllReplaced

\* Thread c disturbs: of the others, nobody claims anything any more.
LEMMA DisturbedFront ==
  ASSUME StoreInv, NEW c \in Clients, NEW o \in Ops, Disturbed(c, o),
         o.at = "write" /\ o.call \in Replacing /\ o.whole =>
           /\ file' # NoFile /\ ~o.app /\ o.pos = o.next - 1
           /\ \A x, n : x = o.contents /\ n = o.next - 1 => Leading(x, n)'
  PROVE  FrontInv'
<1>1. /\ op'[c] = o /\ replaced' = {}
      /\ \A d \in Clients : d # c => (Is(d, "write")' => ~op'[d].whole)
  BY DisturbedGives DEF StoreInv
<1>2. ASSUME NEW d \in Clients, Claims(d)'
      PROVE  /\ file' # NoFile /\ ~op'[d].app /\ op'[d].pos = op'[d].next - 1
             /\ Leading(op[d].contents, op[d].next - 1)'
  <2>1. d = c
    BY <1>1, <1>2 DEF Claims
  <2>2. o.at = "write" /\ o.call \in Replacing /\ o.whole
    BY <1>1, <1>2, <2>1 DEF Claims, Is
  <2>3. PICK x, n : x = o.contents /\ n = o.next - 1
    OBVIOUS
  <2>4. Leading(x, n)'
    BY <2>2, <2>3
  <2> QED
    BY <1>1, <2>1, <2>2, <2>3, <2>4 DEF Leading, BlocksOf
<1> QED
  BY <1>1, <1>2 DEF FrontInv, InFront, AllReplaced

LEMMA CallFront ==
  ASSUME StoreInv, FrontInv, NEW c \in Clients, NEW call \in Calls, NEW contents \in Contents,
         Call(c, call, contents)
  PROVE  FrontInv'
<1> DEFINE o == [at |-> IF mounted THEN "open" ELSE "mount", call |-> call, contents |-> contents]
<1>1. o \in Ops /\ o.at # "write" /\ o.contents = contents
  BY DEF Ops
<1>2. Becomes(c, o) /\ UNCHANGED <<mounted, registered, file, kept, replaced>>
  BY DEF Call
<1>3. ~Busy(c) /\ contents \notin InUse
  BY DEF Call, Busy
<1> HIDE DEF o
<1>4. contents \notin replaced
  <2> SUFFICES ASSUME contents \in replaced PROVE FALSE
    OBVIOUS
  <2>1. 2 \in 0 .. Len(Held) /\ Held[1] = <<contents, 1>>
    BY DEF FrontInv, AllReplaced, Leading
  <2>2. \A i \in 1 .. Len(Held) : Held[i] \in Range(Held)
    BY HeldIs DEF StoreInv, Range
  <2>3. 1 \in 1 .. Len(Held)
    BY <2>1, HeldIs DEF StoreInv
  <2> QED
    BY <1>3, <2>1, <2>2, <2>3 DEF InUse
<1>5. \A x, n : Leading(x, n) => Leading(x, n)'
  BY <1>2, SameFront DEF Held
<1> QED
  BY <1>1, <1>2, <1>3, <1>4, <1>5, QuietFront

LEMMA ReturnFront ==
  ASSUME StoreInv, FrontInv, NEW c \in Clients, Reads(c) \/ OpenFails(c) \/ OpenAppending(c)
  PROVE  FrontInv'
<1>1. UNCHANGED Held /\ UNCHANGED replaced /\ (file # NoFile => file' # NoFile)
  BY DEF Reads, OpenFails, OpenAppending, OpensAt, Held, NoFile
<1>2. PICK o \in Ops :
        /\ Becomes(c, o) /\ ~(o.at = "write" /\ o.call \in Replacing)
        /\ o.at # "idle" => Busy(c) /\ o.contents = op[c].contents
  <2>1. CASE Reads(c) \/ OpenFails(c)
    <3>1. Becomes(c, Idle) /\ Idle \in Ops /\ Idle.at = "idle"
      BY <2>1 DEF Reads, OpenFails, Returns, Ops, Idle
    <3> QED
      BY <3>1
  <2>2. CASE OpenAppending(c)
    <3> DEFINE w == Opened(c, Len(Held), TRUE)
    <3>1. Becomes(c, w) /\ Is(c, "open") /\ op[c].call = "Append"
      BY <2>2 DEF OpenAppending, OpensAt
    <3>2. Len(Held) \in Nat
      BY HeldIs DEF StoreInv
    <3>3. w \in Ops /\ w.call = "Append" /\ w.contents = op[c].contents /\ Busy(c)
      BY <3>1, <3>2, OpenedIs DEF StoreInv, Writers
    <3>4. "Append" \notin Replacing
      BY DEF Replacing
    <3> QED
      BY <3>1, <3>3, <3>4
  <2> QED
    BY <2>1, <2>2
<1>3. \A x, n : Leading(x, n) => Leading(x, n)'
  BY <1>1, SameFront
<1> QED
  BY <1>1, <1>2, <1>3, QuietFront

LEMMA FormatFront ==
  ASSUME StoreInv, FrontInv, NEW c \in Clients, InitSPIFFS(c)
  PROVE  FrontInv'
<1> DEFINE opens == [op[c] EXCEPT !.at = "open"]
<1>1. op[c] \in [at : {"mount", "open"}, call : Calls, contents : Contents] /\ Busy(c)
  BY OpIs DEF StoreInv, InitSPIFFS, Before
<1>2. opens \in Ops /\ opens.at = "open" /\ opens.contents = op[c].contents
  BY <1>1 DEF Ops
<1> HIDE DEF opens
<1>3. \/ Becomes(c, opens) /\ UNCHANGED <<file, kept, replaced>>
      \/ Disturbed(c, opens)
  BY DEF InitSPIFFS, opens
<1>4. CASE Becomes(c, opens) /\ UNCHANGED <<file, kept, replaced>>
  <2>1. \A x, n : Leading(x, n) => Leading(x, n)'
    BY <1>4, SameFront DEF Held
  <2> QED
    BY <1>1, <1>2, <1>4, <2>1, QuietFront
<1>5. CASE Disturbed(c, opens)
  BY <1>2, <1>5, DisturbedFront
<1> QED
  BY <1>3, <1>4, <1>5

LEMMA ReplaceFront ==
  ASSUME StoreInv, NEW c \in Clients, OpenReplacing(c) \/ Delete(c)
  PROVE  FrontInv'
<1>1. CASE OpenReplacing(c)
  <2>1. /\ Is(c, "open") /\ op[c].call \in Replacing /\ file' = <<>>
        /\ Disturbed(c, Opened(c, 0, FALSE))
    BY <1>1 DEF OpenReplacing
  <2>2. PICK o \in Ops : /\ o = Opened(c, 0, FALSE) /\ o.next = 1 /\ o.app = FALSE /\ o.pos = 0
    <3>1. Opened(c, 0, FALSE).pos = 0
      BY DEF Opened
    <3> QED
      BY <2>1, <3>1, OpenedIs DEF StoreInv, Writers
  <2>3. Held' = <<>> /\ file' # NoFile
    BY <2>1 DEF Held, NoFile
  <2>4. \A x : Leading(x, 0)'
    BY <2>3 DEF Leading, BlocksOf
  <2>5. \A i : i = 1 => i - 1 = 0
    OBVIOUS
  <2> QED
    BY <2>1, <2>2, <2>3, <2>4, <2>5, DisturbedFront
<1>2. CASE Delete(c)
  <2>1. Disturbed(c, Idle) /\ Idle \in Ops /\ Idle.at = "idle"
    BY <1>2 DEF Delete, Ops, Idle
  <2> QED
    BY <2>1, DisturbedFront
<1> QED
  BY <1>1, <1>2

\* An Append() writes behind all fronts; a Create() or Update() that has lost
\* nothing makes its own longer.
LEMMA WriteMovesFront ==
  ASSUME FileTypes, OpTypes, NEW c \in Clients, WriteBlock(c), NEW x, NEW n, Leading(x, n)
  PROVE  /\ op[c].app /\ x # op[c].contents => Leading(x, n)'
         /\ ~op[c].app /\ x = op[c].contents /\ n = op[c].pos /\ op[c].next = n + 1 =>
              /\ WritePosition(op[c]) = n
              /\ \A k : k = n + 1 => Leading(x, k)'
<1>1. PICK p : p = WritePosition(op[c])
  OBVIOUS
<1>2. PICK m : m = Len(Held')
  OBVIOUS
<1>3. /\ Len(Held) \in Nat /\ p \in 0 .. Len(Held)
      /\ op[c].app => p = Len(Held)
      /\ ~op[c].app /\ op[c].pos <= Len(Held) => p = op[c].pos
      /\ m = IF p = Len(Held) THEN p + 1 ELSE Len(Held)
      /\ Held'[p + 1] = <<op[c].contents, op[c].next>>
      /\ \A i \in 1 .. m : i # p + 1 => i \in 1 .. Len(Held) /\ Held'[i] = Held[i]
  BY <1>1, <1>2, WriteAt
<1>4. n \in 0 .. Len(Held) /\ BlocksOf(x) = 1 .. n /\ \A i \in 1 .. n : Held[i] = <<x, i>>
  BY DEF Leading
<1>5. p + 1 \in 1 .. m /\ m \in Nat /\ Len(Held) <= m
  BY <1>3
<1>6. ASSUME op[c].app, x # op[c].contents PROVE Leading(x, n)'
  <2>1. p = Len(Held) /\ n \in 0 .. m
    BY <1>3, <1>4, <1>5, <1>6
  <2>2. \A i \in 1 .. Len(Held) : i \in 1 .. m /\ Held'[i] = Held[i]
    BY <1>3, <1>5, <2>1
  <2>3. BlocksOf(x)' = BlocksOf(x)
    BY <1>2, <1>3, <1>5, <1>6, <2>2 DEF BlocksOf
  <2>4. \A i \in 1 .. n : Held'[i] = <<x, i>>
    BY <1>3, <1>4, <2>2
  <2> QED
    BY <1>2, <1>4, <2>1, <2>3, <2>4 DEF Leading
<1>7. ASSUME ~op[c].app, x = op[c].contents, n = op[c].pos, op[c].next = n + 1
      PROVE  p = n /\ \A k : k = n + 1 => Leading(x, k)'
  <2>1. p = n /\ n + 1 \in 1 .. m /\ Held'[n + 1] = <<x, n + 1>>
    BY <1>3, <1>4, <1>5, <1>7
  <2>2. \A i \in 1 .. Len(Held) : i # n + 1 => i \in 1 .. m /\ Held'[i] = Held[i]
    BY <1>3, <1>5, <2>1
  <2>3. BlocksOf(x)' = BlocksOf(x) \cup {n + 1}
    <3>1. ASSUME NEW i \in 1 .. m PROVE Held'[i][1] = x <=> i \in BlocksOf(x) \/ i = n + 1
      <4>1. CASE i = n + 1
        BY <2>1, <4>1
      <4>2. CASE i # n + 1
        <5>1. i \in 1 .. Len(Held) /\ Held'[i] = Held[i]
          BY <1>3, <2>1, <3>1, <4>2
        <5> QED
          BY <4>2, <5>1 DEF BlocksOf
      <4> QED
        BY <4>1, <4>2
    <3>2. \A i \in BlocksOf(x) \cup {n + 1} : i \in 1 .. m
      BY <1>3, <1>4, <1>5, <2>1
    <3>3. BlocksOf(x)' = {i \in 1 .. m : Held'[i][1] = x}
      BY <1>2 DEF BlocksOf
    <3> QED
      BY <3>1, <3>2, <3>3
  <2>4. BlocksOf(x)' = 1 .. (n + 1)
    BY <1>4, <2>3
  <2>5. \A i \in 1 .. (n + 1) : Held'[i] = <<x, i>>
    BY <1>3, <1>4, <2>1, <2>2
  <2> QED
    BY <1>2, <2>1, <2>4, <2>5 DEF Leading
<1> QED
  BY <1>1, <1>6, <1>7

LEMMA WriteFront ==
  ASSUME StoreInv, FrontInv, NEW c \in Clients, WriteBlock(c)
  PROVE  FrontInv'
<1> DEFINE w == [op[c] EXCEPT !.next = @ + 1, !.pos = WritePosition(op[c]) + 1]
<1>1. /\ Is(c, "write") /\ Busy(c) /\ op[c].next \in 1 .. 2
      /\ op[c] \in [at : {"write"}, call : Writers, contents : Contents,
                    next : 1 .. 3, pos : Nat, app : BOOLEAN, whole : BOOLEAN]
  BY OpIs DEF WriteBlock, Writes, StoreInv
<1>2. file' \in Seq(Blocks) /\ file # NoFile /\ file' # NoFile
  BY WriteGives DEF StoreInv
<1>3. WritePosition(op[c]) \in Nat
  <2>1. file \in Seq(Blocks)
    BY <1>2 DEF StoreInv, FileTypes
  <2> QED
    BY <1>1, <2>1, LenProperties DEF WritePosition
<1>4. /\ w \in Ops /\ w.at = "write" /\ w.contents = op[c].contents /\ w.call = op[c].call
      /\ w.next = op[c].next + 1 /\ w.app = op[c].app /\ w.whole = op[c].whole
      /\ w.pos = WritePosition(op[c]) + 1
  <2>1. op[c].next + 1 \in 1 .. 3 /\ WritePosition(op[c]) + 1 \in Nat
    BY <1>1, <1>3
  <2>2. w \in [at : {"write"}, call : Writers, contents : Contents,
               next : 1 .. 3, pos : Nat, app : BOOLEAN, whole : BOOLEAN]
    BY <1>1, <2>1
  <2>3. /\ w.at = op[c].at /\ w.contents = op[c].contents /\ w.call = op[c].call
        /\ w.next = op[c].next + 1 /\ w.app = op[c].app /\ w.whole = op[c].whole
        /\ w.pos = WritePosition(op[c]) + 1
    BY <1>1
  <2> QED
    BY <2>2, <2>3, <1>1 DEF Ops, Is
<1>5. IF op[c].call = "Append" THEN Becomes(c, w) /\ UNCHANGED <<kept, replaced>> ELSE Disturbed(c, w)
  BY DEF WriteBlock
<1> HIDE DEF w
<1>6. CASE op[c].call = "Append"
  <2>1. op[c].app
    BY <1>1, <1>6 DEF Appending, SoFar, StoreInv
  <2>2. w.call \notin Replacing
    BY <1>4, <1>6 DEF Replacing
  <2>3. \A x, n : x # op[c].contents /\ Leading(x, n) => Leading(x, n)'
    BY <2>1, WriteMovesFront DEF StoreInv
  <2> QED
    BY <1>1, <1>2, <1>4, <1>5, <1>6, <2>2, <2>3, QuietFront
<1>7. CASE op[c].call # "Append"
  <2>1. ASSUME w.call \in Replacing, w.whole
        PROVE  /\ ~w.app /\ w.pos = w.next - 1
               /\ \A x, n : x = w.contents /\ n = w.next - 1 => Leading(x, n)'
    <3>1. Claims(c)
      BY <1>1, <1>4, <2>1 DEF Claims
    <3>2. PICK x, n : x = op[c].contents /\ n = op[c].next - 1
      OBVIOUS
    <3>3. ~op[c].app /\ n = op[c].pos /\ Leading(x, n) /\ op[c].next = n + 1
      BY <1>1, <3>1, <3>2 DEF FrontInv, InFront
    <3>4. WritePosition(op[c]) = n /\ \A k : k = n + 1 => Leading(x, k)'
      <4>1. FileTypes /\ OpTypes
        BY DEF StoreInv
      <4> QED
        BY <3>2, <3>3, <4>1, WriteMovesFront
    <3>5. w.next - 1 = n + 1 /\ w.pos = n + 1 /\ ~w.app /\ w.contents = x
      BY <1>1, <1>4, <3>2, <3>3, <3>4
    <3>6. ASSUME NEW y, NEW k, y = w.contents, k = w.next - 1 PROVE Leading(y, k)'
      <4>1. y = x /\ Leading(x, k)'
        BY <3>4, <3>5, <3>6
      <4> QED
        BY <4>1 DEF Leading, BlocksOf
    <3> QED
      BY <3>5, <3>6
  <2> QED
    BY <1>2, <1>4, <1>5, <1>7, <2>1, DisturbedFront
<1> QED
  BY <1>6, <1>7

LEMMA LoseFront ==
  ASSUME StoreInv, FrontInv, NEW c \in Clients, LoseBlock(c)
  PROVE  FrontInv'
<1> DEFINE w == [op[c] EXCEPT !.next = @ + 1, !.whole = FALSE]
<1>1. /\ Is(c, "write") /\ Busy(c) /\ op[c].next \in 1 .. 2
      /\ op[c] \in [at : {"write"}, call : Writers, contents : Contents,
                    next : 1 .. 3, pos : Nat, app : BOOLEAN, whole : BOOLEAN]
  BY OpIs DEF LoseBlock, Writes, StoreInv
<1>2. w \in Ops /\ w.contents = op[c].contents /\ w.whole = FALSE
  <2>1. op[c].next + 1 \in 1 .. 3
    BY <1>1
  <2> QED
    BY <1>1, <2>1 DEF Ops
<1>3. Becomes(c, w) /\ UNCHANGED <<mounted, registered, file, kept, replaced>>
  BY DEF LoseBlock
<1> HIDE DEF w
<1>4. \A x, n : Leading(x, n) => Leading(x, n)'
  BY <1>3, SameFront DEF Held
<1> QED
  BY <1>1, <1>2, <1>3, <1>4, QuietFront

\* What a Create() or Update() that lost nothing acknowledges is complete, and no
\* other thread has its contents.
LEMMA CloseFront ==
  ASSUME StoreInv, FrontInv, NEW c \in Clients, Close(c)
  PROVE  FrontInv'
<1>1. Is(c, "write") /\ Busy(c) /\ op[c].next = 3
  BY OpIs DEF Close, StoreInv
<1>2. /\ Becomes(c, Idle) /\ UNCHANGED file
      /\ replaced' = IF op[c].whole /\ op[c].call \in Replacing THEN {op[c].contents} ELSE replaced
  BY DEF Close, Returns
<1>3. Idle \in Ops /\ Idle.at = "idle"
  BY DEF Ops, Idle
<1>4. \A x, n : Leading(x, n) => Leading(x, n)'
  BY <1>2, SameFront DEF Held
<1>5. CASE ~(op[c].whole /\ op[c].call \in Replacing)
  BY <1>2, <1>3, <1>4, <1>5, QuietFront
<1>6. CASE op[c].whole /\ op[c].call \in Replacing
  <2>1. op'[c] = Idle /\ \A d \in Clients : d # c => op'[d] = op[d]
    BY <1>2, <1>3, BecomesGives DEF StoreInv
  <2>2. InFront'
    <3>1. ~Claims(c)'
      BY <1>3, <2>1 DEF Claims, Is
    <3>2. ASSUME NEW d \in Clients, Claims(d)'
          PROVE  /\ file' # NoFile /\ ~op'[d].app /\ op'[d].pos = op'[d].next - 1
                 /\ Leading(op[d].contents, op[d].next - 1)'
      <4>1. op'[d] = op[d] /\ Claims(d)
        BY <2>1, <3>1, <3>2 DEF Claims, Is
      <4>2. PICK x, n : x = op[d].contents /\ n = op[d].next - 1
        OBVIOUS
      <4>3. file # NoFile /\ ~op[d].app /\ op[d].pos = n /\ Leading(x, n)
        BY <4>1, <4>2 DEF FrontInv, InFront
      <4>4. Leading(x, n)' /\ x = op'[d].contents /\ n = op'[d].next - 1
        BY <1>4, <4>1, <4>2, <4>3
      <4> QED
        BY <1>2, <4>1, <4>2, <4>3, <4>4 DEF Leading, BlocksOf
    <3> QED
      BY <3>2 DEF InFront
  <2>3. ASSUME NEW x \in replaced'
        PROVE  Leading(x, 2)' /\ \A d \in Clients : Busy(d)' => op'[d].contents # x
    <3>1. x = op[c].contents /\ Claims(c) /\ op[c].next - 1 = 2
      BY <1>1, <1>2, <1>6, <2>3 DEF Claims
    <3>2. Leading(x, 2)
      BY <3>1 DEF FrontInv, InFront
    <3>3. \A d \in Clients : Busy(d)' => d # c /\ Busy(d) /\ op'[d].contents = op[d].contents
      BY <1>3, <2>1 DEF Busy, Is
    <3>4. \A d \in Clients : Busy(d)' => op'[d].contents # x
      BY <1>1, <3>1, <3>3 DEF StoreInv, Alone
    <3> QED
      BY <1>4, <3>2, <3>4
  <2> QED
    BY <2>2, <2>3 DEF FrontInv, AllReplaced
<1> QED
  BY <1>5, <1>6

LEMMA PowerFront ==
  ASSUME FrontInv, PowerFails
  PROVE  FrontInv'
<1>1. /\ op' = [c \in Clients |-> Idle]
      /\ UNCHANGED <<file, kept, replaced>> \/ replaced' = {}
  BY DEF PowerFails
<1>2. \A c \in Clients : ~Claims(c)' /\ ~Busy(c)'
  BY <1>1 DEF Claims, Busy, Is, Idle
<1>3. AllReplaced'
  <2>1. CASE UNCHANGED <<file, kept, replaced>>
    <3>1. \A x, n : Leading(x, n) => Leading(x, n)'
      BY <2>1, SameFront DEF Held
    <3> QED
      BY <1>2, <2>1, <3>1 DEF FrontInv, AllReplaced
  <2>2. CASE replaced' = {}
    BY <2>2 DEF AllReplaced
  <2> QED
    BY <1>1, <2>1, <2>2
<1> QED
  BY <1>2, <1>3 DEF FrontInv, InFront

LEMMA FrontInvSteps ==
  ASSUME StoreInv, FrontInv, [FilesNext]_files
  PROVE  FrontInv'
<1>1. CASE UNCHANGED files
  <2>1. UNCHANGED <<mounted, registered, file, op, kept, replaced>>
    BY <1>1 DEF files
  <2> QED
    BY <2>1 DEF FrontInv, InFront, AllReplaced, Claims, Leading, BlocksOf, Held, Busy, Is
<1>2. ASSUME NEW c \in Clients, NEW call \in Calls, NEW contents \in Contents,
             Call(c, call, contents)
      PROVE  FrontInv'
  BY <1>2, CallFront
<1>3. ASSUME NEW c \in Clients, InitSPIFFS(c) \/ Reads(c) \/ OpenFails(c) PROVE FrontInv'
  BY <1>3, FormatFront, ReturnFront
<1>4. ASSUME NEW c \in Clients, OpenReplacing(c) \/ OpenAppending(c) \/ Delete(c) PROVE FrontInv'
  BY <1>4, ReplaceFront, ReturnFront
<1>5. ASSUME NEW c \in Clients, WriteBlock(c) \/ LoseBlock(c) \/ Close(c) PROVE FrontInv'
  BY <1>5, WriteFront, LoseFront, CloseFront
<1> QED
  BY <1>1, <1>2, <1>3, <1>4, <1>5, PowerFront DEF FilesNext

-----------------------------------------------------------------------------
\* The manager's flags, the file and the calls under way keep their types.
THEOREM FilesTypeCorrect == FilesSpec => []FilesTypeOK
<1>1. StoreInv => FilesTypeOK
  <2> SUFFICES ASSUME StoreInv PROVE FilesTypeOK
    OBVIOUS
  <2>1. {mounted, registered} \subseteq BOOLEAN
    BY DEF StoreInv, FileTypes
  <2> QED
    BY <2>1 DEF StoreInv, FileTypes, OpTypes, FilesTypeOK
<1> QED
  BY <1>1, StoreInvAlways, PTL

\* What Append() has acknowledged stays in the file, complete and in its order,
\* whoever appends or reads meanwhile, and however often the power fails; until
\* somebody replaces, deletes or formats (124, 130).
THEOREM AppendsAlwaysStay == FilesSpec => []AppendsStay
<1>1. StoreInv => AppendsStay
  BY AllKeptIsAppendsStay DEF StoreInv
<1> QED
  BY <1>1, StoreInvAlways, PTL

\* What Create() or Update() has acknowledged is in the file from its beginning,
\* complete, whoever appends meanwhile, before or after, and however often the
\* power fails; until somebody replaces, deletes or formats (62, 95, 124).
THEOREM ReplacementAlwaysStays == FilesSpec => []ReplacementStays
<1>1. FilesInit => FrontInv
  BY DEF FilesInit, FrontInv, InFront, AllReplaced, Claims, Is, Idle
<1>2. StoreInv /\ FrontInv /\ [FilesNext]_files => FrontInv'
  BY FrontInvSteps
<1>3. FrontInv => ReplacementStays
  <2> SUFFICES ASSUME FrontInv, NEW x \in replaced
               PROVE  /\ BlocksOf(x) = {1, 2}
                      /\ Held[1] = <<x, 1>> /\ Held[2] = <<x, 2>>
    BY DEF ReplacementStays
  <2>1. BlocksOf(x) = 1 .. 2 /\ \A i \in 1 .. 2 : Held[i] = <<x, i>>
    BY DEF FrontInv, AllReplaced, Leading
  <2> QED
    BY <2>1
<1> QED
  BY <1>1, <1>2, <1>3, StoreInvAlways, PTL DEF FilesSpec
=============================================================================
