--------------------------------- MODULE Shell ---------------------------------
(***************************************************************************)
(* The shell (ramdisk/apps/shell.c) with gets and strtok of its library,   *)
(* over the screen and the ram disk; exec starts a second program,         *)
(* ramdisk/apps/test.c, that shares the screen.                            *)
(*                                                                         *)
(* A word is one or more members of Letter, each of which stands for some  *)
(* characters without a space: a command's name or a file's.               *)
(***************************************************************************)
EXTENDS Console, Storage

CONSTANTS
    Letter,
    MaxKeys         \* bound on the keys typed, Enter included

VARIABLES
    pc,             \* "boot", "prompt", "gets", "run", "dead" or "panicked"
    inputBuffer,    \* from index 0
    index,          \* of gets
    pos,            \* strtok's static position
    started,        \* number of children that have not run yet
    cleared,        \* number of children behind their cls
    line,           \* history: the keys of the line, corrected
    keys,           \* history: number of keys typed
    plain,          \* history: the line fits into its row, and is alone there
    trailing,       \* history: a line before had a space behind its second word
    ran             \* history: the command run last, its parameter, its output,
                    \*   and whether the heap has a block of it left

inputVars == <<inputBuffer, index, pos>>
childVars == <<started, cleared>>
lineVars == <<line, keys, plain, trailing, ran>>
allVars == <<pc, inputVars, childVars, lineVars, screen, storageVars>>

Space == " "
None == <<>>        \* NULL

ASSUME ShellAssumption ==
    /\ VGA_WIDTH > 2    \* the prompt fits into a row
    /\ MaxKeys \in Nat \ {0}
    /\ Letter \cap {Space, Tab, Newline, Backspace, NUL} = {}

Ran(cmd, p1, output, leaks) == [cmd |-> cmd, p1 |-> p1, output |-> output, leaks |-> leaks]

(* The buffer has room for every line within the bound, as the program's   *)
(* has for 127 characters.                                                 *)
Init ==
    /\ ConsoleInit /\ StorageInit
    /\ pc = "boot"
    /\ inputBuffer = [i \in 0 .. MaxKeys |-> NUL]
    /\ index = 0 /\ pos = 0
    /\ started = 0 /\ cleared = 0
    /\ line = <<>> /\ keys = 0
    /\ plain = TRUE /\ trailing = FALSE
    /\ ran = Ran(None, None, <<>>, FALSE)

Message == "message"    \* a fixed text
Messages(n) == [i \in 1 .. 2 * n |-> IF i % 2 = 1 THEN Message ELSE Newline]

Prompted(l) == <<">", Space>> \o l

(* Everything behind the second word and its space is left to the next     *)
(* line's strtok.                                                          *)
BehindSecond(l) ==
    \E i, j, k \in DOMAIN l : i < j /\ j < k /\ l[i] # Space /\ l[j] # Space /\ l[k] = Space
        /\ \E m \in i + 1 .. j - 1 : l[m] = Space

(* main, when the kernel has mounted the ram disk and started the shell.    *)
Boot ==
    /\ pc = "boot"
    /\ RamDisk_init
    /\ screen' = PutStr(Cleared, <<Newline, Message, Newline, Message>>)
    /\ pc' = "prompt"
    /\ UNCHANGED <<inputVars, childVars, lineVars>>

Prompt ==
    /\ pc = "prompt"
    /\ VGA_putStr(<<Newline, ">", Space>>)
    /\ pc' = "gets"
    /\ index' = 0 /\ line' = <<>> /\ plain' = TRUE
    /\ trailing' = (trailing \/ BehindSecond(line))
    /\ UNCHANGED <<inputBuffer, pos, childVars, keys, ran, storageVars>>
-----------------------------------------------------------------------------
(* gets: a key is echoed and goes to the buffer.  Without a key to take    *)
(* back, a backspace writes in front of the buffer: what that changes is   *)
(* open, and left out.                                                     *)
Type(c) ==
    /\ pc = "gets" /\ keys < MaxKeys - 1
    /\ VGA_putStr(<<c>>)
    /\ inputBuffer' = [inputBuffer EXCEPT ![index] = c]
    /\ index' = index + 1
    /\ line' = Append(line, c) /\ keys' = keys + 1
    /\ plain' = (plain /\ c # Tab /\ Len(Prompted(line')) < VGA_WIDTH)
    /\ UNCHANGED <<pc, pos, childVars, trailing, ran, storageVars>>

Erased(i) == [inputBuffer EXCEPT ![i] = NUL]

Erase ==
    /\ pc = "gets" /\ keys < MaxKeys - 1 /\ index > 0
    /\ VGA_putStr(<<Backspace>>)
    /\ inputBuffer' = Erased(index - 1)
    /\ index' = index - 1
    /\ line' = Front(line) /\ keys' = keys + 1
    /\ UNCHANGED <<pc, pos, childVars, plain, trailing, ran, storageVars>>

Ended_WithNewline == [inputBuffer EXCEPT ![index] = Newline]    \* faulty
Ended_NotTerminated == inputBuffer  \* faulty: the old line's end shows through
Ended == [inputBuffer EXCEPT ![index] = NUL]

Enter ==
    /\ pc = "gets" /\ keys < MaxKeys
    /\ VGA_putStr(<<Newline>>)
    /\ inputBuffer' = Ended
    /\ keys' = keys + 1
    /\ pc' = "run"
    /\ UNCHANGED <<index, pos, childVars, line, plain, trailing, ran, storageVars>>

(* strtok with the separator " ": it goes on at pos, also in a new string. *)
(* Leading spaces and the one behind the word become NUL; pos is behind    *)
(* that one, or 0 again when the string has ended.                         *)
FirstFrom(s, i, C) == CHOOSE j \in DOMAIN s :
    /\ j >= i /\ s[j] \in C
    /\ \A k \in i .. j - 1 : s[k] \notin C

Strtok(s, at) ==
    LET begin == FirstFrom(s, at, Letter \cup {Tab, NUL})
        end == FirstFrom(s, begin, {Space, NUL})
    IN  [s |-> [i \in DOMAIN s |-> IF i \in at .. begin - 1 \/ i = end THEN NUL ELSE s[i]],
         pos |-> IF s[end] = Space THEN end + 1 ELSE 0,
         token |-> IF begin = end THEN {} ELSE {begin}]

Text(s, token) ==
    IF token = {} THEN None
    ELSE LET begin == CHOOSE b \in token : TRUE
         IN  [i \in 1 .. FirstFrom(s, begin, {NUL}) - begin |-> s[begin + i - 1]]
-----------------------------------------------------------------------------
(* ls: the files from index 1, with ", " between them.                     *)
ls_Files == [i \in 1 .. Len(AllFiles) - 1 |-> CHOOSE f \in getFileAtIndex(i) : TRUE]
ls_Output ==
    FlattenSeq([i \in DOMAIN ls_Files |->
                  (IF i > 1 THEN <<",", Space>> ELSE <<>>) \o <<ls_Files[i]>>])

(* viewFile: one byte more than the file has, up to a NUL.                 *)
CString(s) == SubSeq(s, 1, SelectInSeq(s, LAMBDA c : c = NUL) - 1)
viewFile_Output(node) == CString(readFile(node, node.file_size + 1)) \o <<Newline>>

(* dlmalloc's chunk for n bytes: with a word for the size, a multiple of 8,*)
(* at least 16.  The zero behind n bytes is in the chunk unless these fill *)
(* it; then it clears the flags of the chunk behind, and dlfree, which     *)
(* checks them, leaves the block as it is and returns (abort is empty).    *)
ChunkSize(n) == Max({16, ((n + 4 + 7) \div 8) * 8})
FillsChunk(n) == n + 4 = ChunkSize(n)

(* The blocks viewFile leaves: fileInfo, if there is no such file, and     *)
(* fileContents, if dlfree does not take it.                               *)
LeaksBlock(cmd, p1) ==
    cmd = <<"view">> /\ (open(p1) = {} \/ \E n \in open(p1) : FillsChunk(n.file_size + 1))

(* VFS_open dereferences its parameter: NULL is in no page.                *)
Faults(cmd, p1) == cmd \in {<<"exec">>, <<"view">>} /\ p1 = None

Output(cmd, p1) ==
    CASE cmd = <<"ls">> -> ls_Output
      [] cmd = <<"help">> -> Messages(4)
      [] cmd = <<"view">> -> IF open(p1) = {} THEN Messages(1)
                             ELSE viewFile_Output(CHOOSE n \in open(p1) : TRUE)
      [] cmd = <<"exec">> -> IF open(p1) = {} THEN Messages(1) ELSE <<>>
      [] OTHER -> <<>>

StartsChild(cmd, p1) == cmd = <<"exec">> /\ open(p1) # {}

RunCommand ==
    /\ pc = "run"
    /\ LET first == Strtok(inputBuffer, pos)
           second == Strtok(first.s, first.pos)
           cmd == Text(second.s, first.token)
           p1 == Text(second.s, second.token)
           faults == Faults(cmd, p1)
       IN  /\ inputBuffer' = second.s
           /\ pos' = second.pos
           /\ ran' = Ran(cmd, p1, IF faults THEN <<>> ELSE Output(cmd, p1),
                         ~faults /\ LeaksBlock(cmd, p1))
           /\ VGA_putStr(ran'.output)
           /\ pc' = IF faults THEN "panicked"
                    ELSE IF cmd = <<"killme">> THEN "dead" ELSE "prompt"
           /\ started' = IF ~faults /\ StartsChild(cmd, p1) THEN started + 1 ELSE started
    /\ UNCHANGED <<index, cleared, line, keys, plain, trailing, storageVars>>

(* test.c: cls, makeForeground, from which on the shell waits, a text, end.*)
(* The shell goes on until a child has taken the foreground.               *)
ChildClears ==
    /\ started > 0 /\ pc # "panicked"
    /\ VGA_cls
    /\ started' = started - 1 /\ cleared' = cleared + 1
    /\ plain' = FALSE
    /\ UNCHANGED <<pc, inputVars, line, keys, trailing, ran, storageVars>>

ChildPrints ==
    /\ cleared > 0 /\ pc # "panicked"
    /\ VGA_putStr(Messages(1))
    /\ cleared' = cleared - 1
    /\ plain' = FALSE
    /\ UNCHANGED <<pc, inputVars, started, line, keys, trailing, ran, storageVars>>

Next ==
    \/ Boot \/ Prompt
    \/ \E c \in Letter \cup {Space, Tab} : Type(c)
    \/ Erase \/ Enter \/ RunCommand
    \/ ChildClears \/ ChildPrints

Spec == Init /\ [][Next]_allVars
-----------------------------------------------------------------------------
Char == Letter \cup {Space, Tab, NUL}

(* Type correctness.  Neither a line end nor a backspace is ever stored.   *)
STypeOK ==
    /\ pc \in {"boot", "prompt", "gets", "run", "dead", "panicked"}
    /\ inputBuffer \in [0 .. MaxKeys -> Char]
    /\ index \in 0 .. MaxKeys /\ pos \in 0 .. MaxKeys
    /\ {started, cleared} \subseteq 0 .. MaxKeys
    /\ line \in Seq(Char) /\ keys \in 0 .. MaxKeys
    /\ {plain, trailing} \subseteq BOOLEAN

(* What a line says, by its words: the command is the first, the parameter *)
(* the second.  A word that is alone and without a space is both.          *)
WordStarts(l) == {i \in DOMAIN l : l[i] # Space /\ (i = 1 \/ l[i - 1] = Space)}
Word(l, i) ==
    LET letters == {j \in i .. Len(l) : \A k \in i .. j : l[k] # Space}
    IN  SubSeq(l, i, Max(letters))
NthWord(l, n) ==
    LET nth == {i \in WordStarts(l) : Cardinality({j \in WordStarts(l) : j <= i}) = n}
    IN  IF nth = {} THEN None ELSE Word(l, CHOOSE i \in nth : TRUE)

Parameter(l) ==
    IF NthWord(l, 2) = None /\ Space \notin ToSet(l) THEN NthWord(l, 1) ELSE NthWord(l, 2)

(* gets, with its corrections over what older lines left in the buffer, and*)
(* strtok, which remembers where it was, understand a line as it was typed,*)
(* as long as no line before had a space behind its second word; and only a*)
(* missing parameter stops the machine.                                    *)
ParsedAsTyped ==
    pc \in {"prompt", "dead", "panicked"} /\ ~trailing =>
        /\ ran.cmd = NthWord(line, 1)
        /\ ran.p1 = Parameter(line)
        /\ pc = "panicked" => Parameter(line) = None

(* The text on the screen between the prompt and the cursor is the line    *)
(* that will be run, as long as it fits into the row and has no tab.       *)
EchoMatches ==
    pc = "gets" /\ plain =>
        /\ screen.x = Len(Prompted(line))
        /\ \A i \in 1 .. screen.x : screen.row[i - 1] = Prompted(line)[i]
        /\ index = Len(line) /\ \A i \in 1 .. index : inputBuffer[i - 1] = line[i]

(* ls names every file of the archive once, in its order; view shows the   *)
(* first file of that name.  The character behind a text is padding, which *)
(* is not shown, unless the text fills its last block: then it is the name *)
(* of the next file, which is.                                             *)
Named(f) == {i \in DOMAIN archive : <<archive[i].filename>> = f}
Behind(i) ==
    IF Len(archive[i].text) % TAR_BLOCKSIZE = 0 /\ i < Len(archive)
    THEN <<archive[i + 1].filename>> ELSE <<>>
ShowsFiles ==
    pc \notin {"boot", "panicked"} =>
        /\ ran.cmd = <<"ls">> =>
             /\ Len(ran.output) = IF archive = <<>> THEN 0 ELSE 3 * Len(archive) - 2
             /\ \A i \in DOMAIN archive : ran.output[3 * i - 2] = archive[i].filename
        /\ ran.cmd = <<"view">> /\ Named(ran.p1) # {} =>
             LET i == Min(Named(ran.p1))
             IN  ran.output = archive[i].text \o Behind(i) \o <<Newline>>

(* "view a plaintext file" (ramdisk/apps/shell.c:61): the text, nothing    *)
(* more.                                                                   *)
ViewIsExact ==
    pc \notin {"boot", "panicked"} /\ ran.cmd = <<"view">> /\ Named(ran.p1) # {} =>
        ran.output = archive[Min(Named(ran.p1))].text \o <<Newline>>

(* dlfree "releases the chunk of memory pointed to by p"                   *)
(* (ramdisk/libs/malloc.h:818): view of a file leaves nothing allocated.   *)
BlocksReleased ==
    ran.cmd = <<"view">> /\ Named(ran.p1) # {} => ~ran.leaks

(* "ls -> list all files" (ramdisk/apps/shell.c:59): typing ls lists them. *)
HelpIsTrue ==
    pc = "prompt" /\ line = <<"ls">> => ran.cmd = <<"ls">>
=============================================================================
