------------------------------ MODULE FileStore ------------------------------
(***************************************************************************)
(* EspidfFileManager, called by several threads without a lock, and one of *)
(* its files.  The others matter only in that they take space: a block may *)
(* find the flash full at any time.  The stream that the code writes to    *)
(* hands its contents to SPIFFS in blocks; errors of a write are not       *)
(* looked at.  The power may fail at any time.                             *)
(***************************************************************************)
EXTENDS Integers, Sequences, FiniteSets, SequencesExt

CONSTANTS
  Clients, \* threads that call the file manager
  Contents \* what they write; each is in one file or call at a time

ASSUME FileAssumption == IsFiniteSet(Clients) /\ IsFiniteSet(Contents)

VARIABLES
  mounted,
  registered, \* SPIFFS is registered with the file system
  file,       \* blocks of the file, or NoFile
  op,         \* what each client does
  kept,       \* history: contents appended, acknowledged, and replaced by nobody since
  replaced    \* history: contents of a Create() or Update(), likewise

files == <<mounted, registered, file, op, kept, replaced>>

NoFile == <<<<"none", 0>>>>
Blocks == Contents \X {1, 2}
\* Create() and Update() do the same.
Replacing == {"Create", "Update"}
Writers == Replacing \cup {"Append"}
Reading == {"FileExists", "Read"}
Calls == Writers \cup Reading \cup {"Delete"}
Idle == [at |-> "idle"]

Ops ==
  {Idle}
    \cup [at: {"mount", "open"}, call: Calls, contents: Contents]
    \cup [at: {"write"}, call: Writers, contents: Contents,
          next: 1 .. 3, pos: Nat, app: BOOLEAN, whole: BOOLEAN]

FilesTypeOK ==
  /\ {mounted, registered} \subseteq BOOLEAN
  /\ file = NoFile \/ file \in Seq(Blocks)
  /\ op \in [Clients -> Ops]
  /\ {kept, replaced} \subseteq SUBSET Contents

FilesInit ==
  /\ mounted \in BOOLEAN /\ registered = mounted
  /\ file = NoFile /\ kept = {} /\ replaced = {}
  /\ op = [c \in Clients |-> Idle]

Is(c, at) == op[c].at = at

Becomes(c, o) == op' = [op EXCEPT ![c] = o]

Returns(c) == Becomes(c, Idle)

Held == IF file = NoFile THEN <<>> ELSE file

InUse ==
  {b[1] : b \in Range(Held)} \cup kept
    \cup {op[c].contents : c \in {d \in Clients : ~Is(d, "idle")}}

\* All that was written before, and all that is being appended, may be lost.
Disturbed(c, o) ==
  /\ kept' = {} /\ replaced' = {}
  /\ op' = [d \in Clients |->
              IF d = c THEN o
              ELSE IF Is(d, "write") THEN [op[d] EXCEPT !.whole = FALSE] ELSE op[d]]

-----------------------------------------------------------------------------
Call(c, call, contents) ==
  /\ Is(c, "idle") /\ contents \notin InUse
  /\ Becomes(c, [at |-> IF mounted THEN "open" ELSE "mount", call |-> call, contents |-> contents])
  /\ UNCHANGED <<mounted, registered, file, kept, replaced>>

\* What cannot be mounted is formatted. A second registration is refused, and
\* the flag is cleared then, unless the client that succeeded sets it later.
InitSPIFFS(c) ==
  LET opens == [op[c] EXCEPT !.at = "open"] IN
  /\ Is(c, "mount")
  /\ \/ /\ mounted' \in IF registered THEN {FALSE, mounted} ELSE {FALSE}
        /\ Becomes(c, opens)
        /\ UNCHANGED <<registered, file, kept, replaced>>
     \/ /\ ~registered /\ registered' = TRUE /\ mounted' = TRUE
        /\ \/ Becomes(c, opens) /\ UNCHANGED <<file, kept, replaced>>
           \/ Disturbed(c, opens) /\ file' = NoFile

Reads(c) ==
  /\ Is(c, "open") /\ op[c].call \in Reading
  /\ Returns(c)
  /\ UNCHANGED <<mounted, registered, file, kept, replaced>>

\* Returns false.
OpenFails(c) ==
  /\ Is(c, "open") /\ op[c].call \notin Reading
  /\ Returns(c)
  /\ UNCHANGED <<mounted, registered, file, kept, replaced>>

Opened(c, pos, app) ==
  [at |-> "write", call |-> op[c].call, contents |-> op[c].contents,
   next |-> 1, pos |-> pos, app |-> app, whole |-> TRUE]

\* A faulty variant, substituted for its original to show that a property
\* depends on it: the file is opened to append.
OpenReplacingAppends(c) ==
  /\ Is(c, "open") /\ op[c].call \in Replacing /\ registered
  /\ file' = Held
  /\ Disturbed(c, Opened(c, Len(Held), TRUE))
  /\ UNCHANGED <<mounted, registered>>

OpenReplacing(c) ==
  /\ Is(c, "open") /\ op[c].call \in Replacing /\ registered
  /\ file' = <<>>
  /\ Disturbed(c, Opened(c, 0, FALSE))
  /\ UNCHANGED <<mounted, registered>>

OpensAt(c, app) ==
  /\ Is(c, "open") /\ op[c].call = "Append" /\ registered
  /\ file' = Held
  /\ Becomes(c, Opened(c, Len(Held), app))
  /\ UNCHANGED <<mounted, registered, kept, replaced>>

\* A faulty variant: the file is opened at its end, without std::ios::app.
OpenAtEnd(c) == OpensAt(c, FALSE)

OpenAppending(c) == OpensAt(c, TRUE)

Delete(c) ==
  /\ Is(c, "open") /\ op[c].call = "Delete" /\ registered
  /\ file' = NoFile
  /\ Disturbed(c, Idle)
  /\ UNCHANGED <<mounted, registered>>

\* What is written behind the end is written at the end.
WritePosition(o) == IF ~o.app /\ o.pos < Len(file) THEN o.pos ELSE Len(file)

Writes(c) == Is(c, "write") /\ op[c].next <= 2

WriteBlock(c) ==
  LET o == op[c]
      p == WritePosition(o)
      written == [o EXCEPT !.next = @ + 1, !.pos = p + 1] IN
  /\ Writes(c) /\ file # NoFile
  /\ file' = [i \in 1 .. (IF p = Len(file) THEN p + 1 ELSE Len(file)) |->
                IF i = p + 1 THEN <<o.contents, o.next>> ELSE file[i]]
  /\ IF o.call = "Append" THEN Becomes(c, written) /\ UNCHANGED <<kept, replaced>>
                          ELSE Disturbed(c, written)
  /\ UNCHANGED <<mounted, registered>>

\* The flash is full, or the file was deleted.
LoseBlock(c) ==
  /\ Writes(c)
  /\ Becomes(c, [op[c] EXCEPT !.next = @ + 1, !.whole = FALSE])
  /\ UNCHANGED <<mounted, registered, file, kept, replaced>>

\* Returns true, whatever was written.
Close(c) ==
  /\ Is(c, "write") /\ op[c].next = 3
  /\ kept' = IF op[c].whole /\ op[c].call = "Append" THEN kept \cup {op[c].contents} ELSE kept
  /\ replaced' = IF op[c].whole /\ op[c].call \in Replacing THEN {op[c].contents} ELSE replaced
  /\ Returns(c)
  /\ UNCHANGED <<mounted, registered, file>>

\* What is in the flash stays, unless the constructor that runs next formats it.
PowerFails ==
  /\ mounted' \in BOOLEAN /\ registered' = mounted'
  /\ op' = [c \in Clients |-> Idle]
  /\ \/ UNCHANGED <<file, kept, replaced>>
     \/ mounted' /\ file' = NoFile /\ kept' = {} /\ replaced' = {}

FilesNext ==
  \/ \E c \in Clients :
       \/ \E call \in Calls, contents \in Contents : Call(c, call, contents)
       \/ InitSPIFFS(c) \/ Reads(c) \/ OpenFails(c)
       \/ OpenReplacing(c) \/ OpenAppending(c) \/ Delete(c)
       \/ WriteBlock(c) \/ LoseBlock(c) \/ Close(c)
  \/ PowerFails

FilesSpec == FilesInit /\ [][FilesNext]_files

-----------------------------------------------------------------------------
\* Where the blocks of x are in the file.
BlocksOf(x) == {i \in 1 .. Len(Held) : Held[i][1] = x}

\* What Append() has acknowledged is in the file, in its order, whoever appends
\* at the same time and however often the power fails, until a Create(), Update()
\* or Delete() or a format; unless the flash was full (124, 130).
AppendsStay ==
  \A x \in kept : \E i, j \in 1 .. Len(Held) :
    /\ BlocksOf(x) = {i, j} /\ i < j
    /\ Held[i] = <<x, 1>> /\ Held[j] = <<x, 2>>

\* What Create() or Update() has acknowledged is in the file from its beginning,
\* although these write where they are and Append() at the end, without a lock
\* between them, and however often the power fails; until the file is replaced,
\* deleted or formatted, and unless the flash was full (62, 95, 124).
ReplacementStays ==
  \A x \in replaced :
    /\ BlocksOf(x) = {1, 2}
    /\ Held[1] = <<x, 1>> /\ Held[2] = <<x, 2>>
=============================================================================
