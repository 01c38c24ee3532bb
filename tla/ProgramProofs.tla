---------------------------- MODULE ProgramProofs ----------------------------
(***************************************************************************)
(* Proofs about Program and two of its parts.  Of Cli, for every length of *)
(* a progress line and every name of a device: that the secret is never    *)
(* shown in the clear, that the exit status tells what is on stdout, and   *)
(* that the terminal's line holds the last progress and nothing else.  Of  *)
(* NvrtcSearch, for any builds in any directories: that no usable one is   *)
(* missed.  Then that the program takes the steps of these and of          *)
(* EngineResources, so that what was proved of them holds of it; and what  *)
(* relates them, that an engine never outlives the search.                 *)
(***************************************************************************)
EXTENDS Program, EngineProofs, Induction, SequenceTheorems

-----------------------------------------------------------------------------
(* Armor.                                                                  *)

WholeLines == <<"begin", "blank", "body", "body", "end">>
Whole(form) == [form |-> form, lines |-> WholeLines]
ArmorLines == {"begin", "header", "blank", "body", "end"}

\* Where the headers end, the rest is the same.
LEMMA StrippedFrom ==
    ASSUME NEW armored \in Armored, NEW n \in 2..4, Len(armored) = n + 3,
           armored[1] = "begin", Head(armored) = armored[1],
           armored[n] = "blank", armored[n + 1] = "body", armored[n + 2] = "body", armored[n + 3] = "end",
           \A j \in 2..(n - 1) : armored[j] # "blank"
    PROVE  strip_armor_headers(armored) = WholeLines
<1> DEFINE Starts(i) == EndsHeaders(armored, i) /\ \A j \in 2..(i - 1) : ~ EndsHeaders(armored, j)
           from == CHOOSE i \in 2..(Len(armored) + 1) : Starts(i)
           rest == SubSeq(armored, n, n + 3)
<1>1. EndsHeaders(armored, n)
  BY DEF EndsHeaders
<1>2. \A j \in 2..(n - 1) : ~ EndsHeaders(armored, j)
  BY DEF EndsHeaders
<1>3. \A i \in 2..(Len(armored) + 1) : Starts(i) => i = n
  <2> TAKE i \in 2..(Len(armored) + 1)
  <2> HAVE Starts(i)
  <2>1. ~ (i < n)
    BY <1>2
  <2>2. ~ (n < i)
    BY <1>1
  <2> QED
    BY <2>1, <2>2
<1>4. Starts(n) /\ n \in 2..(Len(armored) + 1)
  BY <1>1, <1>2
<1>5. from = n
  <2> HIDE DEF Starts
  <2> QED
    BY <1>3, <1>4
<1>6. /\ rest \in Seq(ArmorLines) /\ Len(rest) = 4
      /\ \A i \in 1..4 : rest[i] = armored[n + i - 1]
  <2>1. \A i \in n..(n + 3) : armored[i] \in ArmorLines
    <3>1. \A i \in n..(n + 3) : i = n \/ i = n + 1 \/ i = n + 2 \/ i = n + 3
      OBVIOUS
    <3> QED
      BY <3>1 DEF ArmorLines
  <2>2. /\ rest \in Seq(ArmorLines)
        /\ Len(rest) = IF n <= n + 3 THEN n + 3 - n + 1 ELSE 0
        /\ \A i \in 1..(n + 3 - n + 1) : rest[i] = armored[n + i - 1]
    BY <2>1, SubSeqProperties
  <2> HIDE DEF rest
  <2> QED
    BY <2>2
<1>7. rest[1] = "blank" /\ rest[2] = "body" /\ rest[3] = "body" /\ rest[4] = "end"
  <2>1. n + 1 - 1 = n /\ n + 2 - 1 = n + 1 /\ n + 3 - 1 = n + 2 /\ n + 4 - 1 = n + 3
    OBVIOUS
  <2> HIDE DEF rest
  <2> QED
    BY <1>6, <2>1
<1>8. strip_armor_headers(armored) = <<Head(armored)>> \o SubSeq(armored, from, Len(armored))
  BY DEF strip_armor_headers
<1>9. strip_armor_headers(armored) = <<"begin">> \o rest
  <2> HIDE DEF from
  <2> QED
    BY <1>5, <1>8
<1> HIDE DEF from, rest
<1>10. rest = <<"blank", "body", "body", "end">>
  BY <1>6, <1>7
<1>11. <<"begin">> \o <<"blank", "body", "body", "end">> = WholeLines
  <2> DEFINE first == <<"begin">>
             others == <<"blank", "body", "body", "end">>
  <2>1. first \in Seq(ArmorLines) /\ others \in Seq(ArmorLines) /\ WholeLines \in Seq(ArmorLines)
        /\ Len(first) = 1 /\ Len(others) = 4 /\ Len(WholeLines) = 5
    BY DEF ArmorLines, WholeLines
  <2>2. /\ first \o others \in Seq(ArmorLines) /\ Len(first \o others) = 5
        /\ \A i \in 1..5 : (first \o others)[i] = IF i <= 1 THEN first[i] ELSE others[i - 1]
    <3> HIDE DEF first, others
    <3>1. /\ first \o others \in Seq(ArmorLines)
          /\ Len(first \o others) = Len(first) + Len(others)
          /\ \A i \in 1..Len(first) + Len(others) :
                 (first \o others)[i] = IF i <= Len(first) THEN first[i] ELSE others[i - Len(first)]
      BY <2>1, ConcatProperties
    <3>2. Len(first) = 1 /\ Len(others) = 4 /\ Len(first) + Len(others) = 5
      BY <2>1
    <3> QED
      BY <3>1, <3>2
  <2>3. \A i \in 1..5 : WholeLines[i] = IF i <= 1 THEN first[i] ELSE others[i - 1]
    BY DEF WholeLines
  <2> HIDE DEF first, others
  <2>4. \A i \in 1..Len(WholeLines) : (first \o others)[i] = WholeLines[i]
    BY <2>1, <2>2, <2>3
  <2>5. first \o others = WholeLines
    BY <2>1, <2>2, <2>4, SeqEqual
  <2> QED
    BY <2>5 DEF first, others
<1> QED
  BY <1>9, <1>10, <1>11

\* Whatever headers there are, the lines without them are the same.
LEMMA Stripped ==
    ASSUME NEW armored \in Armored
    PROVE  strip_armor_headers(armored) = WholeLines
<1>1. CASE armored = <<"begin", "blank", "body", "body", "end">>
  <2>1. 2 \in 2..4 /\ Len(armored) = 2 + 3 /\ Head(armored) = armored[1]
    BY <1>1
  <2> QED
    BY <1>1, <2>1, StrippedFrom
<1>2. CASE armored = <<"begin", "header", "blank", "body", "body", "end">>
  <2>1. 3 \in 2..4 /\ Len(armored) = 3 + 3 /\ Head(armored) = armored[1]
    BY <1>2
  <2> QED
    BY <1>2, <2>1, StrippedFrom
<1>3. CASE armored = <<"begin", "header", "header", "blank", "body", "body", "end">>
  <2>1. 4 \in 2..4 /\ Len(armored) = 4 + 3 /\ Head(armored) = armored[1]
    BY <1>3
  <2> QED
    BY <1>3, <2>1, StrippedFrom
<1> QED
  BY <1>1, <1>2, <1>3 DEF Armored

LEMMA WholeIsABlock == \A form \in {"plain", "encrypted"} : Whole(form) \in Blocks /\ Whole(form) # NoBlock
BY DEF Whole, WholeLines, Blocks, NoBlock

\* A part of a key block is one of its kind.
LEMMA PartsAreBlocks ==
    ASSUME output \in Blocks, NEW part \in Parts
    PROVE  part \in Blocks /\ part.form = output.form
<1>1. PICK k \in 0..(Len(output.lines) - 1) : part = [output EXCEPT !.lines = SubSeq(@, 1, k)]
  BY DEF Parts
<1>2. output.lines \in Seq(ArmorLines)
  BY DEF Blocks, ArmorLines
<1>3. SubSeq(output.lines, 1, k) \in Seq(ArmorLines)
  <2>1. Len(output.lines) \in Nat /\ \A i \in 1..Len(output.lines) : output.lines[i] \in ArmorLines
    BY <1>2, LenProperties, ElementOfSeq
  <2>2. \A i \in 1..k : output.lines[i] \in ArmorLines
    BY <2>1
  <2> QED
    BY <2>1, <2>2, SubSeqProperties
<1> QED
  BY <1>1, <1>3 DEF Blocks, ArmorLines

-----------------------------------------------------------------------------
(* Types.                                                                  *)

LEMMA CliTypeInit == CliInit => CliTypeOK
BY DEF CliInit, CliTypeOK, Arguments, Blocks, NoBlock, Disclosures

\* A block that was just built is a whole one.
LEMMA BuiltWhole ==
    /\ Build => output' = Whole("plain") \/ output' = output
    /\ Encrypt => output' = Whole("encrypted") \/ output' = output
<1>1. ASSUME Build PROVE output' = Whole("plain") \/ output' = output
  BY <1>1, Stripped DEF Build, Whole
<1>2. ASSUME Encrypt PROVE output' = Whole("encrypted") \/ output' = output
  BY <1>2, Stripped DEF Encrypt, Whole
<1> QED
  BY <1>1, <1>2

LEMMA RenderedCounts ==
    ASSUME NEW width, render_progress_line(width)
    PROVE  rendering' = 3 - rendering /\ progress_line_len' = width + ExtraBytes
BY Zenon DEF render_progress_line

LEMMA CliTypeNext == CliTypeOK /\ [CliNext]_cli_vars => CliTypeOK'
<1> SUFFICES ASSUME CliTypeOK, [CliNext]_cli_vars
             PROVE  CliTypeOK'
  OBVIOUS
<1> USE DEF CliTypeOK, Disclosures, Err, Say
<1>1. CASE Parse
  BY <1>1 DEF Parse
<1>2. CASE EngineOpened
  BY <1>2 DEF EngineOpened
<1>3. CASE NoEngine
  BY <1>3 DEF NoEngine
<1>4. CASE ShowProgress
  <2>1. PICK width \in LineLengths : render_progress_line(width)
    BY <1>4 DEF ShowProgress
  <2>2. rendering' = 3 - rendering /\ progress_line_len' = width + ExtraBytes
    BY <2>1, RenderedCounts
  <2>3. rendering \in {1, 2} /\ width \in Nat /\ ExtraBytes \in Nat
    BY LengthsAssumption
  <2>4. rendering' \in {1, 2} /\ progress_line_len' \in Nat
    <3> HIDE DEF CliTypeOK
    <3> QED
      BY <2>2, <2>3
  <2> QED
    BY <1>4, <2>4 DEF ShowProgress, messages
<1>5. CASE Found
  BY <1>5 DEF Found, SeedLine
<1>6. CASE NotFound
  BY <1>6 DEF NotFound
<1>7. CASE SearchFails
  BY <1>7 DEF SearchFails
<1>8. CASE Build
  <2>1. output' \in Blocks
    BY <1>8, BuiltWhole, WholeIsABlock
  <2> QED
    BY <1>8, <2>1 DEF Build, messages
<1>9. CASE Encrypt
  <2>1. output' \in Blocks
    BY <1>9, BuiltWhole, WholeIsABlock
  <2> QED
    BY <1>9, <2>1 DEF Encrypt, messages
<1>10. CASE PrintOutput
  <2>1. stdout' \in Blocks
    BY <1>10, PartsAreBlocks DEF PrintOutput
  <2> QED
    BY <1>10, <2>1 DEF PrintOutput, messages
<1>11. CASE Interrupt
  <2>1. stdout' \in Blocks
    BY <1>11, PartsAreBlocks DEF Interrupt
  <2> QED
    BY <1>11, <2>1 DEF Interrupt, messages, terminal
<1>12. CASE UNCHANGED cli_vars
  BY <1>12 DEF cli_vars, messages, terminal
<1> QED
  BY <1>1, <1>2, <1>3, <1>4, <1>5, <1>6, <1>7, <1>8, <1>9, <1>10, <1>11, <1>12 DEF CliNext

-----------------------------------------------------------------------------
(* The terminal.                                                           *)

LEMMA BlankIsClean == Visible(Blank) = {}
BY DEF Visible, Blank

\* What was in the overwritten columns is gone.
LEMMA Overwritten ==
    ASSUME NEW line, NEW n
    PROVE  Visible(Overwrite(line, n, 0)) = Visible(line) \ (1..n)
BY DEF Visible, Overwrite

\* A rendering of some columns over cleared ones.
LEMMA Rendered ==
    ASSUME NEW line, NEW n, NEW width, NEW what, what # 0
    PROVE  LET new == Overwrite(Overwrite(line, n, 0), width, what)
           IN  /\ Visible(new) = (1..width) \cup (Visible(line) \ (1..n))
               /\ \A c \in 1..width : new[c] = what
<1> DEFINE cleared == Overwrite(line, n, 0)
           new == Overwrite(cleared, width, what)
<1>1. \A c \in 1..width : new[c] = what
  <2> HIDE DEF cleared
  <2> QED
    BY DEF Overwrite
<1>2. Visible(new) = (1..width) \cup Visible(cleared)
  <2> HIDE DEF cleared
  <2> QED
    BY DEF Visible, Overwrite
<1> QED
  BY <1>1, <1>2, Overwritten

\* The line shows the last rendering or, before the first and from the verdict
\* on, nothing.
ScreenInv ==
    /\ args.no_progress \/ statement \in {"parse", "open"} => progress_line_len = 0
    /\ statement = "search" /\ progress_line_len # 0 =>
          /\ Visible(columns) = 1..(progress_line_len - ExtraBytes)
          /\ \A c \in Visible(columns) : columns[c] = rendering
    /\ statement # "end" /\ (statement # "search" \/ progress_line_len = 0) => Visible(columns) = {}
    /\ glued \subseteq {"error"}

LEMMA ScreenInit == CliInit => ScreenInv
BY BlankIsClean DEF CliInit, ScreenInv

\* Clearing the line leaves nothing on it.
LEMMA Cleared ==
    ASSUME CliTypeOK, ScreenInv, statement = "search"
    PROVE  Visible(clear_progress_line(columns)) = {}
<1>1. CASE progress_line_len = 0
  BY <1>1 DEF clear_progress_line, ScreenInv
<1>2. CASE progress_line_len # 0
  <2>1. progress_line_len \in Nat /\ ExtraBytes \in Nat
    BY LengthsAssumption DEF CliTypeOK
  <2>2. Visible(columns) = 1..(progress_line_len - ExtraBytes)
    BY <1>2 DEF ScreenInv
  <2>3. 1..(progress_line_len - ExtraBytes) \subseteq 1..progress_line_len
    BY <2>1
  <2>4. clear_progress_line(columns) = Overwrite(columns, progress_line_len, 0)
    BY <1>2 DEF clear_progress_line, ScreenInv
  <2> QED
    BY <2>2, <2>3, <2>4, Overwritten
<1> QED
  BY <1>1, <1>2

\* A new rendering replaces all of the last one, be it longer or shorter.
LEMMA ScreenShowProgress ==
    ASSUME CliTypeOK, ScreenInv, ShowProgress
    PROVE  ScreenInv'
<1> USE LengthsAssumption
<1>1. statement = "search" /\ statement' = "search" /\ ~ args.no_progress /\ args' = args /\ glued' = glued
  BY DEF ShowProgress, messages
<1>2. PICK width \in LineLengths : render_progress_line(width)
  BY DEF ShowProgress
<1> DEFINE len == width + ExtraBytes
           n == width + Padding(len)
<1>3. /\ rendering' = 3 - rendering /\ progress_line_len' = len
      /\ columns' = Overwrite(Overwrite(columns, n, 0), width, rendering')
  BY <1>2, Zenon DEF render_progress_line
<1>4. rendering \in {1, 2} /\ progress_line_len \in Nat /\ width \in Nat \ {0} /\ ExtraBytes \in Nat
  BY DEF CliTypeOK
<1>5. rendering' # 0
  BY <1>3, <1>4
<1>6. /\ Visible(columns') = (1..width) \cup (Visible(columns) \ (1..n))
      /\ \A c \in 1..width : columns'[c] = rendering'
  <2> HIDE DEF n
  <2> QED
    BY <1>3, <1>5, Rendered
<1>7. Visible(columns) \subseteq 1..n
  <2>1. CASE progress_line_len = 0
    BY <1>1, <2>1 DEF ScreenInv
  <2>2. CASE progress_line_len # 0
    <3>1. Visible(columns) = 1..(progress_line_len - ExtraBytes)
      BY <1>1, <2>2 DEF ScreenInv
    <3>2. n \in Nat /\ progress_line_len - ExtraBytes <= n
      BY <1>4 DEF Padding
    <3> QED
      BY <1>4, <3>1, <3>2
  <2> QED
    BY <2>1, <2>2
<1>8. Visible(columns') = 1..width
  BY <1>6, <1>7
<1>9. progress_line_len' - ExtraBytes = width /\ progress_line_len' # 0
  BY <1>3, <1>4
<1>10. Visible(columns)' = Visible(columns')
  BY DEF Visible
<1> QED
  BY <1>1, <1>6, <1>8, <1>9, <1>10 DEF ScreenInv

LEMMA ScreenNext == CliTypeOK /\ ScreenInv /\ [CliNext]_cli_vars => ScreenInv'
<1> SUFFICES ASSUME CliTypeOK, ScreenInv, [CliNext]_cli_vars
             PROVE  ScreenInv'
  OBVIOUS
<1> USE BlankIsClean
<1>1. CASE Parse
  <2>1. statement = "parse" /\ Visible(columns) = {}
    BY <1>1 DEF Parse, ScreenInv
  <2> QED
    BY <1>1, <2>1 DEF Parse, Err, Say, ScreenInv, Visible
<1>2. CASE EngineOpened
  <2>1. statement = "open" /\ Visible(columns) = {}
    BY <1>2 DEF EngineOpened, ScreenInv
  <2> QED
    BY <1>2, <2>1 DEF EngineOpened, Say, ScreenInv, Visible
<1>3. CASE NoEngine
  BY <1>3 DEF NoEngine, Err, Say, ScreenInv, Visible
<1>4. CASE ShowProgress
  BY <1>4, ScreenShowProgress
<1>5. CASE Found
  <2>1. Visible(clear_progress_line(columns)) = {}
    BY <1>5, Cleared DEF Found
  <2> QED
    BY <1>5, <2>1 DEF Found, Say, ScreenInv, Visible
<1>6. CASE NotFound
  <2>1. Visible(clear_progress_line(columns)) = {}
    BY <1>6, Cleared DEF NotFound
  <2> QED
    BY <1>6, <2>1 DEF NotFound, Say, ScreenInv, Visible
<1>7. CASE SearchFails
  <2>1. PICK line \in {columns, clear_progress_line(columns)} : Err(line)
    BY <1>7 DEF SearchFails
  <2> QED
    BY <1>7, <2>1 DEF SearchFails, Err, Say, ScreenInv, Visible
<1>8. CASE Build
  <2>1. statement = "build" /\ Visible(columns) = {}
    BY <1>8 DEF Build, ScreenInv
  <2> QED
    BY <1>8, <2>1 DEF Build, Err, Say, messages, ScreenInv, Visible
<1>9. CASE Encrypt
  <2>1. statement = "encrypt" /\ Visible(columns) = {}
    BY <1>9 DEF Encrypt, ScreenInv
  <2> QED
    BY <1>9, <2>1 DEF Encrypt, Err, Say, messages, ScreenInv, Visible
<1>10. CASE PrintOutput
  <2>1. statement = "print" /\ Visible(columns) = {}
    BY <1>10 DEF PrintOutput, ScreenInv
  <2> QED
    BY <1>10, <2>1 DEF PrintOutput, Say, messages, ScreenInv, Visible
<1>11. CASE Interrupt
  BY <1>11 DEF Interrupt, messages, terminal, ScreenInv, Visible
<1>12. CASE UNCHANGED cli_vars
  BY <1>12 DEF cli_vars, messages, terminal, ScreenInv, Visible
<1> QED
  BY <1>1, <1>2, <1>3, <1>4, <1>5, <1>6, <1>7, <1>8, <1>9, <1>10, <1>11, <1>12 DEF CliNext

-----------------------------------------------------------------------------
(* The streams and the exit status.                                        *)

Form == IF args.encrypt_to THEN "encrypted" ELSE "plain"

\* What each statement finds: the key was announced before anything is built
\* from it, only a whole key block in the form asked for is printed, and nothing
\* is on stdout before the end.
StageInv ==
    /\ statement \in {"build", "encrypt", "print"} => {"found", SeedLine} \subseteq stderr
    /\ statement = "encrypt" => args.encrypt_to
    /\ statement = "print" => output = Whole(Form)
    /\ statement # "end" => stdout = NoBlock
    /\ args.encrypt_to => "seed" \notin stderr

StreamsInv == StageInv /\ NeverInTheClear /\ StatusTellsOutput

LEMMA StreamsInit == CliInit => StreamsInv
BY DEF CliInit, StreamsInv, StageInv, NeverInTheClear, StatusTellsOutput, NoBlock

\* A part of what is printed is of the form asked for, and printed only then.
LEMMA PrintedPart ==
    ASSUME CliTypeOK, StageInv, statement = "print", NEW part \in Parts
    PROVE  part.form = Form
<1>1. output \in Blocks /\ output.form = Form
  BY DEF CliTypeOK, StageInv, Whole
<1> QED
  BY <1>1, PartsAreBlocks

LEMMA StreamsNext == CliTypeOK /\ StreamsInv /\ [CliNext]_cli_vars => StreamsInv'
<1> SUFFICES ASSUME CliTypeOK, StreamsInv, [CliNext]_cli_vars
             PROVE  StreamsInv'
  OBVIOUS
<1>1. /\ statement # "end" => exit = "running"
      /\ statement # "end" => stdout.lines = <<>> /\ stdout.form = "none"
  BY DEF CliTypeOK, StreamsInv, StageInv, NoBlock
<1> USE DEF StreamsInv, StageInv, NeverInTheClear, StatusTellsOutput, SeedLine, Form
<1>2. CASE Parse
  BY <1>1, <1>2 DEF Parse, Err, Say
<1>3. CASE EngineOpened
  BY <1>1, <1>3 DEF EngineOpened, Say
<1>4. CASE NoEngine
  BY <1>1, <1>4 DEF NoEngine, Err, Say
<1>5. CASE ShowProgress
  BY <1>5 DEF ShowProgress, messages
<1>6. CASE Found
  BY <1>1, <1>6 DEF Found, Say
<1>7. CASE NotFound
  BY <1>1, <1>7 DEF NotFound, Say
<1>8. CASE SearchFails
  BY <1>1, <1>8 DEF SearchFails, Err, Say
<1>9. CASE Build
  <2>1. CASE Err(columns) /\ UNCHANGED output
    BY <1>1, <1>9, <2>1 DEF Build, Err, Say
  <2>2. CASE ~ (Err(columns) /\ UNCHANGED output)
    <3>1. output' = Whole("plain") /\ UNCHANGED <<args, stderr, stdout, exit>>
      BY <1>9, <2>2, Stripped DEF Build, messages, Whole
    <3>2. statement = "build" /\ statement' = IF args.encrypt_to THEN "encrypt" ELSE "print"
      BY <1>9, <2>2 DEF Build
    <3> QED
      BY <1>1, <3>1, <3>2
  <2> QED
    BY <2>1, <2>2
<1>10. CASE Encrypt
  <2>1. CASE Err(columns) /\ UNCHANGED output
    BY <1>1, <1>10, <2>1 DEF Encrypt, Err, Say
  <2>2. CASE ~ (Err(columns) /\ UNCHANGED output)
    <3>1. output' = Whole("encrypted") /\ UNCHANGED <<args, stderr, stdout, exit>>
      BY <1>10, <2>2, Stripped DEF Encrypt, messages, Whole
    <3>2. statement = "encrypt" /\ statement' = "print"
      BY <1>10, <2>2 DEF Encrypt
    <3> QED
      BY <1>1, <3>1, <3>2
  <2> QED
    BY <2>1, <2>2
<1>11. CASE PrintOutput
  <2>1. statement = "print" /\ statement' = "end" /\ args' = args
    BY <1>11 DEF PrintOutput
  <2>2. CASE stdout' = output /\ exit' = "ok" /\ UNCHANGED <<messages, columns>>
    <3>1. stdout' = [form |-> Form, lines |-> <<"begin", "blank", "body", "body", "end">>]
      BY <2>1, <2>2 DEF Whole, WholeLines
    <3> QED
      BY <2>1, <2>2, <3>1 DEF messages
  <2>3. CASE stdout' \in Parts /\ exit' = "panic" /\ Say({"panic"}, columns)
    <3>1. stdout'.form = Form
      BY <2>1, <2>3, PrintedPart
    <3> QED
      BY <2>1, <2>3, <3>1 DEF Say
  <2> QED
    BY <1>11, <2>2, <2>3 DEF PrintOutput
<1>12. CASE Interrupt
  <2>1. /\ statement # "end" /\ statement' = "end" /\ exit' = "killed"
        /\ UNCHANGED <<args, stderr>>
    BY <1>12 DEF Interrupt, messages
  <2>2. CASE statement = "print"
    <3>1. stdout'.form = Form
      BY <1>12, <2>2, PrintedPart DEF Interrupt
    <3> QED
      BY <2>1, <2>2, <3>1
  <2>3. CASE statement # "print"
    BY <1>1, <1>12, <2>1, <2>3 DEF Interrupt
  <2> QED
    BY <2>2, <2>3
<1>13. CASE UNCHANGED cli_vars
  BY <1>13 DEF cli_vars, messages
<1> QED
  BY <1>2, <1>3, <1>4, <1>5, <1>6, <1>7, <1>8, <1>9, <1>10, <1>11, <1>12, <1>13 DEF CliNext

-----------------------------------------------------------------------------
(* The whole invariant.                                                    *)

CliInv == CliTypeOK /\ ScreenInv /\ StreamsInv

\* Along every execution of the command line program its types are right, its
\* terminal is clean and its streams tell what it did.
THEOREM CliInvHolds == CliSpec => []CliInv
<1>1. CliInit => CliInv
  BY CliTypeInit, ScreenInit, StreamsInit DEF CliInv
<1>2. CliInv /\ [CliNext]_cli_vars => CliInv'
  BY CliTypeNext, ScreenNext, StreamsNext DEF CliInv
<1> QED
  BY <1>1, <1>2, PTL DEF CliSpec

LEMMA CliShows == CliInv => NeverInTheClear /\ StatusTellsOutput /\ ProgressLineClean
BY DEF CliInv, StreamsInv, ScreenInv, ProgressLineClean

-----------------------------------------------------------------------------
(* The search for NVRTC: names in order.                                   *)

\* a and b are the same up to n, where one of them ends or they differ.
Parting(a, b, n) ==
    /\ n <= Len(a) /\ n <= Len(b) /\ \A k \in 1..n : a[k] = b[k]
    /\ n = Len(a) \/ n = Len(b) \/ a[n + 1] # b[n + 1]

\* Two names part somewhere.
LEMMA NamesPart ==
    ASSUME NEW a \in Seq(Nat), NEW b \in Seq(Nat)
    PROVE  \E n \in Nat : Parting(a, b, n)
<1> DEFINE S == {n \in Nat : n <= Len(a) /\ n <= Len(b)
                                /\ (n = Len(a) \/ n = Len(b) \/ a[n + 1] # b[n + 1])}
<1>1. Len(a) \in Nat /\ Len(b) \in Nat
  OBVIOUS
<1>2. S # {}
  <2>1. Len(a) \in S \/ Len(b) \in S
    BY <1>1
  <2> QED
    BY <2>1
<1>3. PICK n \in S : \A m \in S : n <= m
  <2> HIDE DEF S
  <2>1. S \in SUBSET Nat
    BY DEF S
  <2> QED
    BY <1>2, <2>1, Least
<1>4. ASSUME NEW k \in 1..n
      PROVE  a[k] = b[k]
  <2>1. n \in Nat /\ k - 1 \in Nat /\ k - 1 < n /\ (k - 1) + 1 = k
    OBVIOUS
  <2>2. k - 1 \notin S
    <3>1. k - 1 \in S => n <= k - 1
      BY <1>3
    <3> HIDE DEF S
    <3> QED
      BY <2>1, <3>1
  <2> QED
    BY <1>1, <1>3, <2>1, <2>2
<1> QED
  BY <1>3, <1>4 DEF Parting

LEMMA LessAt ==
    ASSUME NEW a \in Seq(Nat), NEW b \in Seq(Nat), NEW n \in Nat, n <= Len(a), n < Len(b),
           \A k \in 1..n : a[k] = b[k], n = Len(a) \/ a[n + 1] < b[n + 1]
    PROVE  Less(a, b)
<1>1. Len(a) \in Nat /\ Len(b) \in Nat
  OBVIOUS
<1>2. n \in 0..Len(a) /\ n <= Len(b)
  BY <1>1
<1> QED
  BY <1>2 DEF Less

\* Of two names that differ exactly one comes first.
LEMMA LessTotal ==
    ASSUME NEW a \in Seq(Nat), NEW b \in Seq(Nat)
    PROVE  Less(a, b) \/ Less(b, a) \/ a = b
<1>1. PICK n \in Nat : Parting(a, b, n)
  BY NamesPart
<1>2. Len(a) \in Nat /\ Len(b) \in Nat
  OBVIOUS
<1>3. CASE n = Len(a) /\ n = Len(b)
  <2>1. Len(a) = Len(b) /\ \A k \in 1..Len(a) : a[k] = b[k]
    BY <1>1, <1>3 DEF Parting
  <2> QED
    BY <2>1, SeqEqual
<1>4. CASE n < Len(a) /\ n < Len(b)
  <2>1. n + 1 \in 1..Len(a) /\ n + 1 \in 1..Len(b)
    BY <1>2, <1>4
  <2>2. a[n + 1] \in Nat /\ b[n + 1] \in Nat /\ a[n + 1] # b[n + 1]
    BY <1>1, <1>2, <1>4, <2>1 DEF Parting
  <2>3. a[n + 1] < b[n + 1] \/ b[n + 1] < a[n + 1]
    BY <2>2
  <2> QED
    BY <1>1, <1>4, <2>3, LessAt DEF Parting
<1>5. CASE n = Len(a) /\ n < Len(b)
  BY <1>1, <1>5, LessAt DEF Parting
<1>6. CASE n < Len(a) /\ n = Len(b)
  BY <1>1, <1>6, LessAt DEF Parting
<1> QED
  BY <1>1, <1>2, <1>3, <1>4, <1>5, <1>6 DEF Parting

LEMMA LessStrict ==
    ASSUME NEW a \in Seq(Nat)
    PROVE  ~ Less(a, a)
BY DEF Less

LEMMA LessTransitive ==
    ASSUME NEW a \in Seq(Nat), NEW b \in Seq(Nat), NEW c \in Seq(Nat), Less(a, b), Less(b, c)
    PROVE  Less(a, c)
<1>1. Len(a) \in Nat /\ Len(b) \in Nat /\ Len(c) \in Nat
  OBVIOUS
<1>2. PICK m \in 0..Len(a) :
          /\ m < Len(b) /\ \A k \in 1..m : a[k] = b[k]
          /\ m = Len(a) \/ a[m + 1] < b[m + 1]
  BY DEF Less
<1>3. PICK n \in 0..Len(b) :
          /\ n < Len(c) /\ \A k \in 1..n : b[k] = c[k]
          /\ n = Len(b) \/ b[n + 1] < c[n + 1]
  BY DEF Less
<1>4. CASE m < n
  <2>1. m + 1 \in 1..n /\ b[m + 1] = c[m + 1]
    BY <1>1, <1>2, <1>3, <1>4
  <2>2. m \in Nat /\ m <= Len(a) /\ m < Len(c) /\ \A k \in 1..m : a[k] = c[k]
    BY <1>1, <1>2, <1>3, <1>4
  <2> QED
    BY <1>2, <2>1, <2>2, LessAt
<1>5. CASE n <= m
  <2>1. n \in Nat /\ n < Len(b) /\ n < Len(c) /\ n <= Len(a) /\ b[n + 1] < c[n + 1] /\ \A k \in 1..n : a[k] = c[k]
    BY <1>1, <1>2, <1>3, <1>5
  <2>2. CASE n < m
    <3>1. n + 1 \in 1..m /\ a[n + 1] = b[n + 1]
      BY <1>1, <1>2, <2>1, <2>2
    <3> QED
      BY <2>1, <3>1, LessAt
  <2>3. CASE n = m
    <3>1. n = Len(a) \/ a[n + 1] < c[n + 1]
      <4>1. CASE n < Len(a)
        <5>1. a[n + 1] \in Nat /\ b[n + 1] \in Nat /\ c[n + 1] \in Nat
          <6>1. n + 1 \in 1..Len(a) /\ n + 1 \in 1..Len(b) /\ n + 1 \in 1..Len(c)
            <7>1. n \in Nat /\ n < Len(b) /\ n < Len(c)
              BY <2>1
            <7> QED
              BY <1>1, <4>1, <7>1
          <6>2. \A s \in Seq(Nat) : \A k \in 1..Len(s) : s[k] \in Nat
            BY ElementOfSeq
          <6> QED
            BY <6>1, <6>2
        <5>2. a[n + 1] < b[n + 1] /\ b[n + 1] < c[n + 1]
          BY <1>2, <2>1, <2>3, <4>1
        <5> QED
          BY <5>1, <5>2
      <4> QED
        BY <1>1, <2>1, <4>1
    <3> QED
      BY <2>1, <3>1, LessAt
  <2> QED
    BY <1>1, <1>2, <1>5, <2>1, <2>2, <2>3
<1> QED
  BY <1>4, <1>5

\* Names can be put in order: each is put at the number of those not before it.
LEMMA InOrder ==
    ASSUME NEW names, names \subseteq Seq(Nat), IsFiniteSet(names)
    PROVE  \E s \in [1..Cardinality(names) -> names] :
               \A i, j \in DOMAIN s : i < j => Less(s[j], s[i])
<1> DEFINE n == Cardinality(names)
           After(x) == {y \in names : Less(x, y)}
           rank == [x \in names |-> Cardinality(After(x)) + 1]
<1>1. n \in Nat
  BY FS_CardinalityType
<1>2. ASSUME NEW x \in names
      PROVE  IsFiniteSet(After(x)) /\ Cardinality(After(x)) \in 0..n - 1
  <2>1. IsFiniteSet(After(x)) /\ Cardinality(After(x)) <= n /\ Cardinality(After(x)) \in Nat
    BY FS_Subset, FS_CardinalityType
  <2>2. After(x) # names
    BY LessStrict
  <2>3. Cardinality(After(x)) # n
    BY <2>2, FS_Subset
  <2> QED
    BY <1>1, <2>1, <2>3
<1>3. ASSUME NEW x \in names, NEW y \in names, Less(x, y)
      PROVE  rank[y] < rank[x]
  <2>1. After(y) \subseteq After(x)
    BY <1>3, LessTransitive
  <2>2. y \in After(x) /\ y \notin After(y)
    BY <1>3, LessStrict
  <2>3. Cardinality(After(y)) <= Cardinality(After(x))
        /\ (Cardinality(After(y)) = Cardinality(After(x)) => After(y) = After(x))
    <3> HIDE DEF After
    <3> QED
      BY <1>2, <2>1, FS_Subset
  <2>4. Cardinality(After(y)) \in Int /\ Cardinality(After(x)) \in Int
    <3> HIDE DEF After
    <3> QED
      BY <1>1, <1>2
  <2>5. rank[x] = Cardinality(After(x)) + 1 /\ rank[y] = Cardinality(After(y)) + 1
    OBVIOUS
  <2> HIDE DEF After, rank
  <2> QED
    BY <2>2, <2>3, <2>4, <2>5
<1>4. rank \in Injection(names, 1..n)
  <2>1. rank \in [names -> 1..n]
    <3> HIDE DEF After, n
    <3> QED
      BY <1>1, <1>2
  <2>2. ASSUME NEW x \in names, NEW y \in names, rank[x] = rank[y]
        PROVE  x = y
    <3>1. rank[x] \in Int /\ rank[y] \in Int
      BY <2>1
    <3> HIDE DEF rank
    <3> QED
      BY <1>3, <2>2, <3>1, LessTotal
  <2> HIDE DEF rank
  <2> QED
    BY <2>1, <2>2, Fun_IsInj
<1> HIDE DEF rank
<1>5. rank \in Surjection(names, 1..n)
  <2>1. IsFiniteSet(1..n) /\ Cardinality(1..n) = n
    BY <1>1, FS_Interval
  <2> HIDE DEF n
  <2>2. IsFiniteSet(names) /\ n = Cardinality(names)
    BY DEF n
  <2> QED
    BY <1>4, <2>1, <2>2, FS_Injection
<1>6. \A i \in 1..n : \E x \in names : rank[x] = i
  BY <1>5 DEF Surjection
<1> DEFINE s == [i \in 1..n |-> CHOOSE x \in names : rank[x] = i]
<1>7. \A i \in 1..n : s[i] \in names /\ rank[s[i]] = i
  BY <1>6
<1>8. s \in [1..n -> names]
  BY <1>7
<1> HIDE DEF s
<1>9. ASSUME NEW i \in DOMAIN s, NEW j \in DOMAIN s, i < j
      PROVE  Less(s[j], s[i])
  <2>1. i \in 1..n /\ j \in 1..n
    BY <1>8, <1>9
  <2>2. s[i] \in names /\ s[j] \in names /\ rank[s[i]] = i /\ rank[s[j]] = j
    BY <1>7, <2>1
  <2>3. ~ Less(s[i], s[j]) /\ s[i] # s[j]
    BY <1>3, <1>9, <2>1, <2>2
  <2> QED
    BY <2>2, <2>3, LessTotal
<1> QED
  BY <1>8, <1>9

LEMMA NewestFirstLists ==
    ASSUME NEW names, names \subseteq Seq(Nat), IsFiniteSet(names)
    PROVE  /\ NewestFirst(names) \in [1..Cardinality(names) -> names]
           /\ \A name \in names : \E k \in 1..Cardinality(names) : NewestFirst(names)[k] = name
<1> DEFINE n == Cardinality(names)
           s == NewestFirst(names)
<1>1. n \in Nat
  BY FS_CardinalityType
<1>2. s \in [1..n -> names] /\ \A i, j \in DOMAIN s : i < j => Less(s[j], s[i])
  BY InOrder DEF NewestFirst
<1> HIDE DEF s
<1>3. s \in Injection(1..n, names)
  <2>1. ASSUME NEW i \in 1..n, NEW j \in 1..n, s[i] = s[j]
        PROVE  i = j
    <3>1. ~ Less(s[i], s[j]) /\ ~ Less(s[j], s[i])
      BY <1>2, <2>1, LessStrict
    <3>2. i < j \/ j < i \/ i = j
      BY <1>1
    <3> QED
      BY <1>2, <3>1, <3>2
  <2> QED
    BY <1>2, <2>1, Fun_IsInj
<1>4. s \in Surjection(1..n, names)
  <2>1. IsFiniteSet(1..n) /\ Cardinality(1..n) = n
    BY <1>1, FS_Interval
  <2> HIDE DEF n
  <2>2. IsFiniteSet(names) /\ n = Cardinality(names)
    BY DEF n
  <2> QED
    BY <1>3, <2>1, <2>2, FS_Injection
<1> QED
  BY <1>2, <1>4 DEF s, Surjection

\* Sequences one after the other hold what each of them holds.
LEMMA Flattened ==
    ASSUME NEW A, NEW n \in Nat \ {0}, NEW seqs \in [1..n -> Seq(A)]
    PROVE  /\ FlattenSeq(seqs) \in Seq(A)
           /\ \A i \in 1..n : \A j \in 1..Len(seqs[i]) :
                  \E k \in 1..Len(FlattenSeq(seqs)) : FlattenSeq(seqs)[k] = seqs[i][j]
<1> DEFINE At(k) == IF k + 1 \in 1..n THEN seqs[k + 1] ELSE <<>>
           step == [k \in Nat |-> [s \in Seq(A) |-> s \o At(k)]]
<1>1. \A k \in Nat : At(k) \in Seq(A)
  OBVIOUS
<1>2. step \in [Nat -> [Seq(A) -> Seq(A)]]
  <2> HIDE DEF At
  <2> QED
    BY <1>1
<1>3. PICK g : Upto(g, seqs[1], Seq(A), step, n - 1)
  <2>1. n - 1 \in Nat /\ seqs[1] \in Seq(A)
    OBVIOUS
  <2> HIDE DEF step
  <2> QED
    BY <1>2, <2>1, Recursion
<1>4. /\ g \in [0..n - 1 -> Seq(A)] /\ g[0] = seqs[1]
       /\ \A k \in 1..n - 1 : g[k] = step[k][g[k - 1]]
  <2> HIDE DEF step
  <2> QED
    BY <1>3 DEF Upto
<1>5. ASSUME NEW k \in 1..n - 1
      PROVE  g[k] = g[k - 1] \o seqs[k + 1]
  <2>1. k \in Nat /\ k - 1 \in 0..n - 1 /\ k + 1 \in 1..n /\ g[k - 1] \in Seq(A)
    BY <1>4
  <2>2. g[k] = step[k][g[k - 1]]
    BY <1>4
  <2>3. step[k][g[k - 1]] = g[k - 1] \o At(k)
    <3> HIDE DEF At
    <3> QED
      BY <2>1
  <2> QED
    BY <2>1, <2>2, <2>3
<1> HIDE DEF step
<1> DEFINE Is(f) == f = [i \in 1..Len(seqs) |-> IF i = 1 THEN seqs[i] ELSE f[i - 1] \o seqs[i]]
<1>6. Len(seqs) = n
  OBVIOUS
<1>7. \E f : Is(f)
  <2> DEFINE f == [i \in 1..n |-> g[i - 1]]
  <2>1. ASSUME NEW i \in 1..n
        PROVE  f[i] = IF i = 1 THEN seqs[i] ELSE f[i - 1] \o seqs[i]
    <3>1. CASE i = 1
      BY <1>4, <3>1
    <3>2. CASE i # 1
      <4>1. i - 1 \in 1..n - 1 /\ i - 1 \in 1..n /\ (i - 1) + 1 = i
        BY <3>2
      <4>2. f[i] = g[i - 1] /\ f[i - 1] = g[(i - 1) - 1]
        BY <4>1
      <4>3. g[i - 1] = g[(i - 1) - 1] \o seqs[(i - 1) + 1]
        BY <1>5, <4>1
      <4> QED
        BY <3>2, <4>1, <4>2, <4>3
    <3> QED
      BY <3>1, <3>2
  <2>2. Is(f)
    BY <1>6, <2>1
  <2> HIDE DEF f, Is
  <2> QED
    BY <2>2
<1> DEFINE f == CHOOSE h : Is(h)
<1>8. Is(f)
  <2> HIDE DEF Is
  <2> QED
    BY <1>7
<1>9. FlattenSeq(seqs) = f[n]
  <2>1. Len(seqs) # 0
    BY <1>6
  <2>2. FlattenSeq(seqs) = f[Len(seqs)]
    BY <2>1, Zenon DEF FlattenSeq
  <2> QED
    BY <1>6, <2>2
<1> HIDE DEF f
<1>10. f[1] = seqs[1] /\ \A i \in 2..n : f[i] = f[i - 1] \o seqs[i]
  <2>1. \A i \in 1..n : f[i] = IF i = 1 THEN seqs[i] ELSE f[i - 1] \o seqs[i]
    BY <1>6, <1>8
  <2>2. 1 \in 1..n /\ \A i \in 2..n : i \in 1..n /\ i # 1
    OBVIOUS
  <2> HIDE DEF Is
  <2> QED
    BY <2>1, <2>2
<1> HIDE DEF Is
<1> DEFINE Lists(m) ==
               /\ f[m] \in Seq(A)
               /\ \A i \in 1..m : \A j \in 1..Len(seqs[i]) :
                      \E k \in 1..Len(f[m]) : f[m][k] = seqs[i][j]
           S == {m \in Nat : m + 1 \in 1..n => Lists(m + 1)}
<1>11. 0 \in S
  <2>1. Lists(1)
    BY <1>10
  <2> HIDE DEF Lists
  <2> QED
    BY <2>1
<1>12. ASSUME NEW m \in Nat, m \in S
       PROVE  m + 1 \in S
  <2> SUFFICES ASSUME m + 2 \in 1..n
               PROVE  Lists(m + 2)
    <3> HIDE DEF Lists
    <3> QED
      OBVIOUS
  <2>1. Lists(m + 1)
    <3> HIDE DEF Lists
    <3> QED
      BY <1>12
  <2>2. f[m + 2] = f[m + 1] \o seqs[m + 2]
    <3>1. m + 2 \in 2..n /\ (m + 2) - 1 = m + 1
      OBVIOUS
    <3> QED
      BY <1>10, <3>1
  <2>3. f[m + 1] \in Seq(A) /\ seqs[m + 2] \in Seq(A)
    BY <2>1
  <2> DEFINE both == f[m + 1] \o seqs[m + 2]
             l == Len(f[m + 1])
  <2>4. /\ both \in Seq(A) /\ Len(both) = l + Len(seqs[m + 2])
        /\ l \in Nat /\ Len(seqs[m + 2]) \in Nat
        /\ \A k \in 1..l + Len(seqs[m + 2]) :
               both[k] = IF k <= l THEN f[m + 1][k] ELSE seqs[m + 2][k - l]
    <3>1. \A x, y \in Seq(A) : /\ x \o y \in Seq(A) /\ Len(x \o y) = Len(x) + Len(y)
                               /\ Len(x) \in Nat /\ Len(y) \in Nat
                               /\ \A k \in 1..Len(x) + Len(y) :
                                      (x \o y)[k] = IF k <= Len(x) THEN x[k] ELSE y[k - Len(x)]
      <4>1. ASSUME NEW x \in Seq(A), NEW y \in Seq(A)
            PROVE  /\ x \o y \in Seq(A) /\ Len(x \o y) = Len(x) + Len(y)
                   /\ Len(x) \in Nat /\ Len(y) \in Nat
                   /\ \A k \in 1..Len(x) + Len(y) :
                          (x \o y)[k] = IF k <= Len(x) THEN x[k] ELSE y[k - Len(x)]
        BY ConcatProperties, LenProperties
      <4> QED
        BY <4>1
    <3> QED
      BY <2>3, <3>1
  <2> HIDE DEF both, l
  <2>5. ASSUME NEW i \in 1..m + 2, NEW j \in 1..Len(seqs[i])
        PROVE  \E k \in 1..Len(both) : both[k] = seqs[i][j]
    <3>1. CASE i = m + 2
      <4>1. l + j \in 1..Len(both) /\ ~ (l + j <= l) /\ (l + j) - l = j
        <5>1. j \in 1..Len(seqs[m + 2])
          BY <3>1
        <5> QED
          BY <2>4, <5>1
      <4>2. both[l + j] = seqs[i][j]
        BY <2>4, <3>1, <4>1
      <4> QED
        BY <4>1, <4>2
    <3>2. CASE i # m + 2
      <4>1. i \in 1..m + 1
        BY <3>2
      <4>2. PICK k \in 1..l : f[m + 1][k] = seqs[i][j]
        BY <2>1, <4>1 DEF l
      <4>3. k \in 1..Len(both) /\ both[k] = f[m + 1][k]
        <5>1. k \in 1..l + Len(seqs[m + 2]) /\ k <= l
          BY <2>4
        <5> QED
          BY <2>4, <5>1
      <4> QED
        BY <4>2, <4>3
    <3> QED
      BY <3>1, <3>2
  <2>6. f[m + 2] = both
    BY <2>2 DEF both
  <2> QED
    BY <2>4, <2>5, <2>6
<1>13. \A m \in Nat : m \in S
  <2> HIDE DEF S
  <2> QED
    BY <1>11, <1>12, Induction
<1>14. Lists(n)
  <2>1. n - 1 \in S /\ (n - 1) + 1 = n
    <3> HIDE DEF S
    <3> QED
      BY <1>13
  <2> HIDE DEF Lists
  <2> QED
    BY <2>1
<1> HIDE DEF Lists, S
<1> DEFINE all == FlattenSeq(seqs)
<1>15. Lists(n) <=> /\ all \in Seq(A)
                    /\ \A i \in 1..n : \A j \in 1..Len(seqs[i]) :
                           \E k \in 1..Len(all) : all[k] = seqs[i][j]
  <2> HIDE DEF all
  <2>1. f[n] = all
    BY <1>9 DEF all
  <2> QED
    BY <2>1 DEF Lists
<1> QED
  BY <1>14, <1>15

-----------------------------------------------------------------------------
(* The search for NVRTC: every usable build is among the candidates, and   *)
(* each candidate before the next one was refused.                         *)

BareFiles == <<[dir |-> Here, name |-> <<>>], [dir |-> Here, name |-> <<1>>]>>

Has(s, f) == \E k \in 1..Len(s) : s[k] = f

NvrtcInv ==
    /\ outcome \in {"idle", "searching", "loaded", "nothing"}
    /\ candidates \in Seq(Files) /\ search_path \in Seq(Directories \cup {Here})
    /\ outcome = "idle" => tried = {}
    /\ outcome # "idle" =>
          /\ \A f \in usable : f \in Bare \/ f.dir \in ToSet(places) => Has(candidates, f)
          /\ next \in 1..(Len(candidates) + 1)
          /\ \A k \in 1..(next - 1) : candidates[k] \in tried
    /\ tried \cap usable = {}
    /\ UsableNotMissed

LEMMA HasConcat ==
    ASSUME NEW s \in Seq(Files), NEW t \in Seq(Files)
    PROVE  s \o t \in Seq(Files) /\ \A f : Has(s, f) \/ Has(t, f) => Has(s \o t, f)
<1>1. /\ s \o t \in Seq(Files) /\ Len(s \o t) = Len(s) + Len(t)
      /\ Len(s) \in Nat /\ Len(t) \in Nat
      /\ \A k \in 1..Len(s) + Len(t) :
             (s \o t)[k] = IF k <= Len(s) THEN s[k] ELSE t[k - Len(s)]
  BY ConcatProperties, LenProperties
<1>2. ASSUME NEW f, Has(s, f)
      PROVE  Has(s \o t, f)
  <2>1. PICK k \in 1..Len(s) : s[k] = f
    BY <1>2 DEF Has
  <2>2. k \in 1..Len(s) + Len(t) /\ k <= Len(s)
    BY <1>1
  <2> QED
    BY <1>1, <2>1, <2>2 DEF Has
<1>3. ASSUME NEW f, Has(t, f)
      PROVE  Has(s \o t, f)
  <2>1. PICK k \in 1..Len(t) : t[k] = f
    BY <1>3 DEF Has
  <2> DEFINE m == Len(s) + k
  <2>2. m \in 1..Len(s) + Len(t) /\ ~ (m <= Len(s)) /\ m - Len(s) = k
    BY <1>1
  <2> HIDE DEF m
  <2>3. (s \o t)[m] = f
    BY <1>1, <2>1, <2>2
  <2> QED
    BY <1>1, <2>2, <2>3 DEF Has
<1> QED
  BY <1>1, <1>2, <1>3

\* The builds of one directory.
LEMMA InDirectoryLists ==
    ASSUME NEW where \in [Directories -> SUBSET Versions], NEW d \in Directories
    PROVE  /\ InDirectory(d, where) \in Seq(Files)
           /\ \A f \in Installed(where) : f.dir = d => Has(InDirectory(d, where), f)
<1> DEFINE names == where[d]
           n == Cardinality(names)
           s == NewestFirst(names)
<1>1. names \subseteq Seq(Nat) /\ names \subseteq Versions /\ IsFiniteSet(names)
  BY NvrtcAssumption, FS_Subset
<1>2. n \in Nat
  BY <1>1, FS_CardinalityType
<1>3. s \in [1..n -> names] /\ \A name \in names : \E k \in 1..n : s[k] = name
  <2> HIDE DEF names
  <2> QED
    BY <1>1, NewestFirstLists
<1> HIDE DEF n, s
<1>4. Len(s) = n
  BY <1>2, <1>3
<1>5. InDirectory(d, where) = [k \in 1..n |-> [dir |-> d, name |-> s[k]]]
  BY <1>4 DEF InDirectory, s
<1>6. \A k \in 1..n : [dir |-> d, name |-> s[k]] \in Files
  BY <1>1, <1>3 DEF Files
<1>7. InDirectory(d, where) \in Seq(Files) /\ Len(InDirectory(d, where)) = n
  <2> DEFINE r == [k \in 1..n |-> [dir |-> d, name |-> s[k]]]
  <2>1. r \in [1..n -> Files]
    <3> HIDE DEF names
    <3> QED
      BY <1>6
  <2> HIDE DEF r
  <2>2. r \in Seq(Files) /\ Len(r) = n
    BY <1>2, <2>1
  <2> QED
    BY <1>5, <2>2 DEF r
<1>8. ASSUME NEW f \in Installed(where), f.dir = d
      PROVE  Has(InDirectory(d, where), f)
  <2>1. f = [dir |-> d, name |-> f.name] /\ f.name \in names
    BY <1>8 DEF Installed, Files, Bare
  <2>2. PICK k \in 1..n : s[k] = f.name
    BY <1>3, <2>1
  <2> QED
    BY <1>5, <1>7, <2>1, <2>2 DEF Has
<1> QED
  BY <1>7, <1>8

\* The candidates hold every build in the directories looked into, and the bare
\* names.
LEMMA CandidatesList ==
    ASSUME NEW where \in [Directories -> SUBSET Versions], NEW n \in Nat,
           NEW ds \in [1..n -> Directories]
    PROVE  LET all == FlattenSeq([k \in 1..Len(ds) |-> InDirectory(ds[k], where)]) \o BareFiles
           IN  /\ all \in Seq(Files)
               /\ \A f \in Installed(where) : f.dir \in ToSet(ds) => Has(all, f)
               /\ \A f \in Bare : Has(all, f)
<1> DEFINE seqs == [k \in 1..Len(ds) |-> InDirectory(ds[k], where)]
           builds == FlattenSeq(seqs)
<1>1. Len(ds) = n /\ ToSet(ds) = {ds[k] : k \in 1..n}
  BY DEF ToSet
<1>2. /\ \A k \in 1..n : seqs[k] \in Seq(Files)
      /\ \A k \in 1..n : \A f \in Installed(where) : f.dir = ds[k] => Has(seqs[k], f)
      /\ DOMAIN seqs = 1..n
  BY <1>1, InDirectoryLists
<1>3. seqs \in [1..n -> Seq(Files)]
  BY <1>1, <1>2
<1> HIDE DEF seqs
<1>4. /\ builds \in Seq(Files)
      /\ \A f \in Installed(where) : f.dir \in ToSet(ds) => Has(builds, f)
  <2>1. CASE n = 0
    <3>1. Len(seqs) = 0 /\ seqs \in Seq(Files)
      BY <1>3, <2>1
    <3>2. builds = seqs
      BY <3>1 DEF FlattenSeq
    <3> QED
      BY <1>1, <2>1, <3>1, <3>2
  <2>2. CASE n # 0
    <3>1. /\ builds \in Seq(Files)
          /\ \A i \in 1..n : \A j \in 1..Len(seqs[i]) : Has(builds, seqs[i][j])
      BY <1>3, <2>2, Flattened DEF Has
    <3>2. ASSUME NEW f \in Installed(where), f.dir \in ToSet(ds)
          PROVE  Has(builds, f)
      <4>1. PICK i \in 1..n : f.dir = ds[i]
        BY <1>1, <3>2
      <4>2. PICK j \in 1..Len(seqs[i]) : seqs[i][j] = f
        BY <1>2, <4>1 DEF Has
      <4> QED
        BY <3>1, <4>2
    <3> QED
      BY <3>1, <3>2
  <2> QED
    BY <2>1, <2>2
<1>5. BareFiles \in Seq(Files) /\ Len(BareFiles) = 2 /\ \A f \in Bare : Has(BareFiles, f)
  BY DEF BareFiles, Files, Bare, Has
<1> HIDE DEF builds
<1>6. /\ builds \o BareFiles \in Seq(Files)
      /\ \A f \in Installed(where) : f.dir \in ToSet(ds) => Has(builds \o BareFiles, f)
      /\ \A f \in Bare : Has(builds \o BareFiles, f)
  BY <1>4, <1>5, HasConcat
<1> QED
  BY <1>6 DEF builds, seqs

LEMMA NvrtcIdle ==
    ASSUME usable = {}, outcome = "idle", tried = {}, candidates = <<>>, search_path = <<>>
    PROVE  NvrtcInv
BY DEF NvrtcInv, UsableNotMissed

LEMMA PathFinds ==
    ASSUME search_path \in Seq(Directories \cup {Here}), NEW d \in Directories \cup {Here}
    PROVE  /\ prepend_to_path_env(d) \in Seq(Directories \cup {Here})
           /\ d \in ToSet(prepend_to_path_env(d))
<1> DEFINE D == Directories \cup {Here}
           p == <<d>> \o search_path
<1>1. CASE d \in ToSet(search_path)
  BY <1>1 DEF prepend_to_path_env
<1>2. CASE d \notin ToSet(search_path)
  <2> HIDE DEF D
  <2>1. search_path \in Seq(D) /\ <<d>> \in Seq(D)
    BY DEF D
  <2>2. p \in Seq(D) /\ Len(p) = 1 + Len(search_path) /\ p[1] = d /\ Len(search_path) \in Nat
    BY <2>1
  <2>3. d \in ToSet(p)
    <3>1. 1 \in DOMAIN p
      BY <2>2
    <3> QED
      BY <2>2, <3>1 DEF ToSet
  <2>4. prepend_to_path_env(d) = p
    BY <1>2 DEF prepend_to_path_env
  <2> HIDE DEF p
  <2> QED
    BY <2>2, <2>3, <2>4 DEF D
<1> QED
  BY <1>1, <1>2

LEMMA NvrtcInvNext ==
    ASSUME NvrtcInv, NvrtcNext
    PROVE  NvrtcInv'
<1>1. CASE Collect
  <2>1. /\ outcome = "idle" /\ outcome' = "searching" /\ next' = 1
        /\ contents' \in [Directories -> SUBSET Versions]
        /\ usable' \subseteq Installed(contents') \cup Bare
        /\ places' \in Places
        /\ tried' = tried /\ search_path' = search_path
    BY <1>1 DEF Collect
  <2>2. PICK n \in 0..MaxPlaces : places' \in [1..n -> Directories]
    BY <2>1 DEF Places
  <2>3. n \in Nat
    BY NvrtcAssumption
  <2>4. candidates' =
          FlattenSeq([k \in 1..Len(places') |-> InDirectory(places'[k], contents')]) \o BareFiles
    BY <1>1 DEF Collect, BareFiles
  <2>5. /\ candidates' \in Seq(Files)
        /\ \A f \in Installed(contents') : f.dir \in ToSet(places') => Has(candidates', f)
        /\ \A f \in Bare : Has(candidates', f)
    BY <2>1, <2>2, <2>3, <2>4, CandidatesList
  <2>6. Len(candidates') \in Nat
    BY <2>5
  <2>7. tried = {}
    BY <2>1 DEF NvrtcInv
  <2>8. \A f \in usable' : f \in Bare \/ f.dir \in ToSet(places') => Has(candidates', f)
    BY <2>1, <2>5
  <2>9. next' \in 1..(Len(candidates') + 1) /\ \A k \in 1..(next' - 1) : candidates'[k] \in tried'
    BY <2>1, <2>6
  <2>10. UsableNotMissed'
    BY <2>1 DEF UsableNotMissed
  <2>11. search_path' \in Seq(Directories \cup {Here})
    BY <2>1 DEF NvrtcInv
  <2>12. (\A f \in usable : f \in Bare \/ f.dir \in ToSet(places) => Has(candidates, f))'
    BY <2>8 DEF Has, ToSet, Bare
  <2> QED
    BY <2>1, <2>5, <2>7, <2>9, <2>10, <2>11, <2>12 DEF NvrtcInv, Files, Bare
<1>2. CASE Skip
  <2>1. /\ outcome = "searching" /\ next <= Len(candidates) /\ candidates[next] \in tried
        /\ next' = next + 1
        /\ UNCHANGED <<outcome, contents, usable, places, candidates, tried, search_path>>
    BY <1>2 DEF Skip, Seen, File, machine
  <2>2. next \in 1..Len(candidates) /\ Len(candidates) \in Nat
        /\ \A k \in 1..(next - 1) : candidates[k] \in tried
    BY <2>1 DEF NvrtcInv
  <2>3. next' \in 1..(Len(candidates) + 1) /\ \A k \in 1..(next' - 1) : candidates[k] \in tried
    BY <2>1, <2>2
  <2>4. UsableNotMissed'
    BY <2>1 DEF UsableNotMissed
  <2> QED
    BY <2>1, <2>3, <2>4 DEF NvrtcInv, Files, Bare, Has, ToSet
<1>3. CASE Try
  <2>1. /\ outcome = "searching" /\ next <= Len(candidates)
        /\ search_path' = prepend_to_path_env(candidates[next].dir)
        /\ UNCHANGED <<contents, usable, places, candidates>>
    BY <1>3 DEF Try, File, machine
  <2>2. next \in 1..Len(candidates) /\ Len(candidates) \in Nat /\ candidates[next] \in Files
        /\ \A k \in 1..(next - 1) : candidates[k] \in tried
    BY <2>1 DEF NvrtcInv
  <2>3. candidates[next].dir \in Directories \cup {Here}
    BY <2>2 DEF Files, Bare
  <2>4. search_path' \in Seq(Directories \cup {Here}) /\ candidates[next].dir \in ToSet(search_path')
    BY <2>1, <2>3, PathFinds DEF NvrtcInv
  <2>5. CASE candidates[next] \in usable
    <3>1. outcome' = "loaded" /\ next' = next /\ tried' = tried
      BY <1>3, <2>5 DEF Try, File
    <3>2. UsableNotMissed'
      BY <2>1, <2>4, <2>5, <3>1 DEF UsableNotMissed, File, ToSet
    <3> QED
      BY <2>1, <2>4, <3>1, <3>2 DEF NvrtcInv, Files, Bare, Has, ToSet
  <2>6. CASE candidates[next] \notin usable
    <3>1. outcome' = outcome /\ next' = next + 1 /\ tried' = tried \cup {candidates[next]}
      BY <1>3, <2>6 DEF Try, File
    <3>2. next' \in 1..(Len(candidates) + 1) /\ \A k \in 1..(next' - 1) : candidates[k] \in tried'
      BY <2>2, <3>1
    <3>3. tried' \cap usable' = {}
      BY <2>1, <2>6, <3>1 DEF NvrtcInv
    <3>4. UsableNotMissed'
      BY <2>1, <3>1 DEF UsableNotMissed
    <3> QED
      BY <2>1, <2>4, <3>1, <3>2, <3>3, <3>4 DEF NvrtcInv, Files, Bare, Has, ToSet
  <2> QED
    BY <2>5, <2>6
<1>4. CASE GiveUp
  <2>1. /\ outcome = "searching" /\ outcome' = "nothing" /\ next > Len(candidates)
        /\ UNCHANGED <<contents, usable, places, candidates, next, tried, search_path>>
    BY <1>4 DEF GiveUp, machine
  <2>2. \A k \in 1..Len(candidates) : candidates[k] \in tried
    <3>1. Len(candidates) \in Nat
      BY DEF NvrtcInv
    <3> QED
      BY <2>1, <3>1 DEF NvrtcInv
  <2>3. \A f \in usable : ~ Has(candidates, f)
    BY <2>2 DEF NvrtcInv, Has
  <2>4. \A f \in usable : f \notin Bare /\ f.dir \notin ToSet(places)
    BY <2>1, <2>3 DEF NvrtcInv
  <2>5. UsableNotMissed'
    BY <2>1, <2>4 DEF UsableNotMissed, ToSet, Bare
  <2> QED
    BY <2>1, <2>5 DEF NvrtcInv, Files, Bare, Has, ToSet
<1> QED
  BY <1>1, <1>2, <1>3, <1>4 DEF NvrtcNext

LEMMA NvrtcInvKept ==
    ASSUME NvrtcInv, UNCHANGED nvrtc_vars
    PROVE  NvrtcInv'
BY DEF NvrtcInv, nvrtc_vars, machine, UsableNotMissed, File, Files, Bare, Has, ToSet

-----------------------------------------------------------------------------
(* The parts.                                                              *)

\* The program with its engine takes no step that its command line could not
\* take for itself: all that the engine does leaves streams, terminal and exit
\* status alone.
THEOREM ProgramIsCli == Spec => CliSpec
<1>1. Init => CliInit
  BY DEF Init
<1>2. [Next]_vars => [CliNext]_cli_vars
  <2> SUFFICES ASSUME [Next]_vars
               PROVE  [CliNext]_cli_vars
    OBVIOUS
  <2>1. CASE RunStep
    BY <2>1 DEF RunStep, CliNext
  <2>2. CASE FindNvrtc \/ LoadCuda \/ OpeningStep \/ SearchStep
    BY <2>2 DEF FindNvrtc, LoadCuda, OpeningStep, SearchStep
  <2>3. CASE OpeningEnds
    BY <2>3 DEF OpeningEnds, CliNext
  <2>4. CASE SearchEnds
    BY <2>4 DEF SearchEnds, CliNext
  <2>5. CASE UNCHANGED vars
    BY <2>5 DEF vars
  <2> QED
    BY <2>1, <2>2, <2>3, <2>4, <2>5 DEF Next
<1> QED
  BY <1>1, <1>2, PTL DEF Spec, CliSpec

\* The program takes no step with its engine that the engine's own specification
\* does not have: it is opened once, then used, then dropped.
THEOREM ProgramIsResources == Spec => ResourcesSpec
<1>1. Init => ResourcesInit
  BY DEF Init
<1>2. [Next]_vars => [ResourcesNext]_resource_vars
  <2> SUFFICES ASSUME [Next]_vars
               PROVE  [ResourcesNext]_resource_vars
    OBVIOUS
  <2>1. CASE RunStep \/ FindNvrtc \/ OpeningEnds
    BY <2>1 DEF RunStep, FindNvrtc, OpeningEnds
  <2>2. CASE LoadCuda
    BY <2>2 DEF LoadCuda, ResourcesNext, Opening
  <2>3. CASE OpeningStep
    BY <2>3 DEF OpeningStep, ResourcesNext
  <2>4. CASE SearchStep
    BY <2>4 DEF SearchStep, ResourcesNext
  <2>5. CASE SearchEnds
    BY <2>5 DEF SearchEnds, ResourcesNext
  <2>6. CASE UNCHANGED vars
    BY <2>6 DEF vars
  <2> QED
    BY <2>1, <2>2, <2>3, <2>4, <2>5, <2>6 DEF Next
<1> QED
  BY <1>1, <1>2, PTL DEF Spec, ResourcesSpec

\* The program takes the steps of the search for NVRTC, and forgets it.
LEMMA ProgramNvrtc == Spec => []NvrtcInv
<1>1. Init => NvrtcInv
  BY NvrtcIdle DEF Init, Idle
<1>2. NvrtcInv /\ [Next]_vars => NvrtcInv'
  <2> SUFFICES ASSUME NvrtcInv, [Next]_vars
               PROVE  NvrtcInv'
    OBVIOUS
  <2>1. CASE RunStep \/ OpeningStep \/ OpeningEnds \/ SearchStep \/ SearchEnds \/ UNCHANGED vars
    <3>1. UNCHANGED nvrtc_vars
      BY <2>1 DEF RunStep, OpeningStep, OpeningEnds, SearchStep, SearchEnds, vars
    <3> QED
      BY <3>1, NvrtcInvKept
  <2>2. CASE FindNvrtc
    BY <2>2, NvrtcInvNext DEF FindNvrtc
  <2>3. CASE LoadCuda
    <3>1. Forget
      BY <2>3 DEF LoadCuda
    <3> QED
      BY <3>1 DEF Forget, NvrtcInv, UsableNotMissed
  <2> QED
    BY <2>1, <2>2, <2>3 DEF Next
<1> QED
  BY <1>1, <1>2, PTL DEF Spec

-----------------------------------------------------------------------------
(* Where run, the engine and the search for NVRTC are at the same time.    *)

JointInv ==
    /\ statement = "parse" => pc = "choose"
    /\ statement = "search" => pc = "run"
    /\ statement \in {"build", "encrypt", "print"} => pc = "end"
    /\ exit \in {"ok", "error", "panic"} => pc \in {"choose", "end"}
    /\ exit # "killed" /\ ~ (pc = "load" /\ backend = "cuda") => outcome = "idle"

LEMMA JointInit == Init => JointInv
BY DEF Init, CliInit, ResourcesInit, Idle, JointInv

LEMMA JointNext == CliTypeOK /\ JointInv /\ [Next]_vars => JointInv'
<1> SUFFICES ASSUME CliTypeOK, JointInv, [Next]_vars
             PROVE  JointInv'
  OBVIOUS
<1>1. statement = "end" <=> exit # "running"
  BY DEF CliTypeOK
<1> USE DEF JointInv
<1>2. CASE RunStep
  <2>1. UNCHANGED <<pc, backend, outcome>>
    BY <1>2 DEF RunStep, resource_vars, nvrtc_vars
  <2>2. CASE Parse
    BY <1>1, <2>1, <2>2 DEF Parse, Err
  <2>3. CASE ShowProgress
    BY <2>1, <2>3 DEF ShowProgress
  <2>4. CASE Build
    BY <1>1, <2>1, <2>4 DEF Build, Err
  <2>5. CASE Encrypt
    BY <1>1, <2>1, <2>5 DEF Encrypt, Err
  <2>6. CASE PrintOutput
    BY <1>1, <2>1, <2>6 DEF PrintOutput
  <2>7. CASE Interrupt
    BY <2>1, <2>7 DEF Interrupt
  <2> QED
    BY <1>2, <2>2, <2>3, <2>4, <2>5, <2>6, <2>7 DEF RunStep
<1>3. CASE FindNvrtc
  BY <1>1, <1>3 DEF FindNvrtc, cli_vars, resource_vars
<1>4. CASE LoadCuda
  BY <1>1, <1>4 DEF LoadCuda, LoadApi, Forget, cli_vars
<1>5. CASE OpeningStep
  BY <1>1, <1>5 DEF OpeningStep, cli_vars, nvrtc_vars
<1>6. CASE OpeningEnds
  BY <1>1, <1>6 DEF OpeningEnds, EngineOpened, NoEngine, Err, resource_vars, nvrtc_vars
<1>7. CASE SearchStep
  BY <1>1, <1>7 DEF SearchStep, LaunchBest, cli_vars, nvrtc_vars
<1>8. CASE SearchEnds
  BY <1>1, <1>8 DEF SearchEnds, Found, NotFound, SearchFails, Err, DropEngine, nvrtc_vars
<1>9. CASE UNCHANGED vars
  BY <1>9 DEF vars, cli_vars, resource_vars, nvrtc_vars
<1> QED
  BY <1>2, <1>3, <1>4, <1>5, <1>6, <1>7, <1>8, <1>9 DEF Next

LEMMA ProgramInv == Spec => [](CliInv /\ ResourcesInv /\ JointInv)
<1>1. CliInv => CliTypeOK
  BY DEF CliInv
<1> QED
  BY <1>1, ProgramIsCli, CliInvHolds, ProgramIsResources, ResourcesInvHolds,
     JointInit, JointNext, PTL DEF Spec

-----------------------------------------------------------------------------
(* The theorems.                                                           *)

\* Every variable always holds a value of its kind.
THEOREM TypeOKHolds == Spec => []TypeOK
<1>1. CliInv /\ ResourcesInv => TypeOK
  BY ResourcesTypes DEF CliInv, TypeOK
<1> QED
  BY <1>1, ProgramInv, PTL

\* Whatever fails and whenever the program is interrupted, neither stream shows
\* the secret in the clear when it is to be encrypted.
THEOREM SecretStaysHidden == Spec => []NeverInTheClear
BY CliShows, ProgramInv, PTL

\* The exit status can be trusted about what is on stdout.
THEOREM StatusCanBeTrusted == Spec => []StatusTellsOutput
BY CliShows, ProgramInv, PTL

\* For progress lines of every length, and devices with every name, the
\* terminal shows the last one only, and the verdict begins on a blank line.
THEOREM TerminalIsClean == Spec => []ProgressLineClean
BY CliShows, ProgramInv, PTL

\* For every number of builds, work sizes and finalists, and in every order in
\* which calls fail and owners are dropped, no library, buffer or module is used
\* after it was released.
THEOREM NothingMisused == Spec => []NoMisuse
BY ResourcesNoMisuse, ProgramInv, PTL

\* When an engine could not be opened, and after it was dropped, nothing is held.
THEOREM NothingIsLeaked == Spec => []NothingLeaks
BY ResourcesClosed, ProgramInv, PTL

\* However many builds are tuned, at most one module more than there are
\* finalists is on the device, and a built engine keeps its own only.
THEOREM ModulesAreBounded == Spec => []ModulesBounded
BY ResourcesBounded, ProgramInv, PTL

\* No engine outlives the search: while the key is built, encrypted and printed,
\* and when the program ends by itself, nothing of the GPU is held.
THEOREM GpuIsGoneFirst == Spec => []GpuGoneFirst
<1>1. CliInv /\ ResourcesInv /\ JointInv => GpuGoneFirst
  <2> SUFFICES ASSUME CliInv, ResourcesInv, JointInv,
                      statement \in {"build", "encrypt", "print"} \/ exit \in {"ok", "error", "panic"}
               PROVE  /\ ~ Open(gpu) /\ gpu.loaded = {} /\ gpu.memory = {} /\ gpu.context # "live"
                      /\ outcome = "idle"
    BY DEF GpuGoneFirst
  <2>1. statement = "end" <=> exit # "running"
    BY DEF CliInv, CliTypeOK
  <2>2. pc \in {"choose", "end"} /\ outcome = "idle"
    BY <2>1 DEF JointInv
  <2>3. Holds(gpu, {}, {}, {}, {})
    <3>1. gpu.api = {} /\ finalists = {} /\ best = {}
      BY <2>2 DEF ResourcesInv, OwnersInv, VariantsInv, Closed
    <3>2. finalists \cup best = {}
      BY <3>1
    <3> QED
      BY <2>2, <3>1, <3>2 DEF ResourcesInv, Own, Extra
  <2> QED
    BY <2>2, <2>3 DEF Holds, SizesOf, Open
<1> QED
  BY <1>1, ProgramInv, PTL

\* For any number of directories with any builds in them, of any versions: when
\* the engine is given up for want of NVRTC no build was usable, although what
\* was refused once is skipped, and a build that is loaded finds what is beside
\* it.
THEOREM UsableIsNotMissed == Spec => []UsableNotMissed
<1>1. NvrtcInv => UsableNotMissed
  BY DEF NvrtcInv
<1> QED
  BY <1>1, ProgramNvrtc, PTL
=============================================================================
