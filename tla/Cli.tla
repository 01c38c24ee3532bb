-------------------------------- MODULE Cli --------------------------------
(***************************************************************************)
(* The command line program (src/main.rs, src/output.rs) from its parsed   *)
(* arguments to its exit status: what it has written to stderr and stdout  *)
(* when the engine, the search, the key builder, the recipient's file, the *)
(* encryption or a write fails, or the user interrupts it; and the         *)
(* progress line that search keeps rewriting on the terminal.  Messages    *)
(* are abstracted to what they disclose, key blocks to the kinds of their  *)
(* lines, the search to its outcome (see HostSearch).                      *)
(***************************************************************************)
EXTENDS Integers, Sequences

CONSTANTS
    LineLengths,  \* the columns a progress line may take
    ExtraBytes    \* bytes of the device's name beyond its columns

ASSUME LengthsAssumption == LineLengths \subseteq Nat \ {0} /\ ExtraBytes \in Nat

VARIABLES
    args,       \* what the command line asks for
    statement,  \* the next statement of run
    stderr,     \* the disclosures made on stderr
    glued,      \* those of them that began on a line with a progress text
    columns,    \* the terminal's last line: the rendering seen in a column
    rendering,  \* the last rendering: its number, 1 and 2 by turns
    progress_line_len,
    stdout,     \* the part of an output that is on stdout
    output,     \* the key block about to be printed
    exit        \* "running", or how it ended: "ok" (0), "error" (1),
                \* "panic" (101) or "killed" (by a signal)

messages == <<stderr, glued>>
terminal == <<columns, rendering, progress_line_len>>
cli_vars == <<args, statement, messages, terminal, stdout, output, exit>>

Arguments ==
    [prefixes_ok : BOOLEAN, seed_hex : {"none", "good", "bad"}, encrypt_to : BOOLEAN,
     no_progress : BOOLEAN]

\* A key block: who can read it, and its lines.
Blocks == [form : {"none", "plain", "encrypted"}, lines : Seq({"begin", "header", "blank", "body", "end"})]
NoBlock == [form |-> "none", lines |-> <<>>]

Blank == [c \in {} |-> 0]

CliInit ==
    /\ args \in Arguments
    /\ statement = "parse"
    /\ stderr = {} /\ glued = {}
    /\ columns = Blank /\ rendering = 2 /\ progress_line_len = 0
    /\ stdout = NoBlock /\ output = NoBlock
    /\ exit = "running"

-----------------------------------------------------------------------------
\* The terminal.

\* Columns 1..n of the line after a carriage return and n characters.
Overwrite(line, n, what) ==
    [c \in 1..n \cup DOMAIN line |-> IF c \in 1..n THEN what ELSE line[c]]
Visible(line) == {c \in DOMAIN line : line[c] # 0}

\* Bug: a shorter line leaves the end of the longer one.
NoPadding(len) == 0
Padding(len) == IF progress_line_len > len THEN progress_line_len - len ELSE 0

\* render_progress_line.
render_progress_line(width) ==
    LET len == width + ExtraBytes
    IN  /\ rendering' = 3 - rendering
        /\ columns' = Overwrite(Overwrite(columns, width + Padding(len), 0), width, rendering')
        /\ progress_line_len' = len

\* Bug: the last line stays.
StaysThere(line) == line
\* clear_progress_line, which search calls unless there is no progress.
clear_progress_line(line) ==
    IF args.no_progress \/ progress_line_len = 0 THEN line
    ELSE Overwrite(line, progress_line_len, 0)

\* eprintln! of some lines: the terminal goes on to the next one.
Say(what, line) ==
    /\ stderr' = stderr \cup what
    /\ glued' = IF Visible(line) = {} THEN glued ELSE glued \cup what
    /\ columns' = Blank

\* Bug: the error is reported but no exit status is set.
ErrNoStatus(line) == statement' = "end" /\ Say({"error"}, line) /\ UNCHANGED exit
\* main: an error is reported on stderr, status 1.
Err(line) ==
    /\ statement' = "end" /\ exit' = "error"
    /\ Say({"error"}, line)

-----------------------------------------------------------------------------

\* HexPrefixSet::parse and seed_from_hex, then the first line on stderr.
Parse ==
    /\ statement = "parse"
    /\ IF args.prefixes_ok /\ args.seed_hex # "bad"
       THEN statement' = "open" /\ Say({"searching"}, columns) /\ UNCHANGED exit
       ELSE Err(columns)
    /\ UNCHANGED <<args, rendering, progress_line_len, stdout, output>>

\* GpuSearchEngine::new returns, see EngineResources.
EngineOpened ==
    /\ statement = "open"
    /\ statement' = "search" /\ Say({"using"}, columns)
    /\ UNCHANGED <<args, rendering, progress_line_len, stdout, output, exit>>

NoEngine ==
    /\ statement = "open"
    /\ Err(columns)
    /\ UNCHANGED <<args, rendering, progress_line_len, stdout, output>>

\* After a batch.
ShowProgress ==
    /\ statement = "search" /\ ~ args.no_progress
    /\ \E width \in LineLengths : render_progress_line(width)
    /\ UNCHANGED <<args, statement, messages, stdout, output, exit>>

\* Bug: the seed is shown whether or not the output is encrypted.
SeedShown == "seed"
SeedLine == IF args.encrypt_to THEN "redacted" ELSE "seed"

\* search returns a key; what is known of it is reported, the seed shown or
\* redacted.
Found ==
    /\ statement = "search"
    /\ statement' = "build" /\ Say({"found", SeedLine}, clear_progress_line(columns))
    /\ UNCHANGED <<args, rendering, progress_line_len, stdout, output, exit>>

\* All attempts are made, or all timestamps of the given seed are searched.
NotFound ==
    /\ statement = "search"
    /\ statement' = "end" /\ exit' = "error"
    /\ Say({"not found"}, clear_progress_line(columns))
    /\ UNCHANGED <<args, rendering, progress_line_len, stdout, output>>

\* The engine, the clock or the randomness fails, and the line stays as it is;
\* or the reported timestamp does not match, and the line was cleared.
SearchFails ==
    /\ statement = "search"
    /\ \E line \in {columns, clear_progress_line(columns)} : Err(line)
    /\ UNCHANGED <<args, rendering, progress_line_len, stdout, output>>

\* Bug: only one header is skipped.
EndsAfterOne(lines, i) == i > Len(lines) \/ lines[i] = "blank" \/ i = 3
\* The line at i ends the headers; the end of the text does too.
EndsHeaders(lines, i) == i > Len(lines) \/ lines[i] = "blank"

\* The first line is kept, then nothing until the headers end.
strip_armor_headers(lines) ==
    LET from == CHOOSE i \in 2..(Len(lines) + 1) :
                    EndsHeaders(lines, i) /\ \A j \in 2..(i - 1) : ~ EndsHeaders(lines, j)
    IN  <<Head(lines)>> \o SubSeq(lines, from, Len(lines))

\* What sequoia may write: up to two headers.
Armored ==
    {<<"begin", "blank", "body", "body", "end">>,
     <<"begin", "header", "blank", "body", "body", "end">>,
     <<"begin", "header", "header", "blank", "body", "body", "end">>}

\* build_armored_secret_key_block: sequoia builds, signs and armors the key.
Build ==
    /\ statement = "build"
    /\ \/ /\ \E armored \in Armored :
                 output' = [form |-> "plain", lines |-> strip_armor_headers(armored)]
          /\ statement' = IF args.encrypt_to THEN "encrypt" ELSE "print"
          /\ UNCHANGED <<messages, columns, exit>>
       \/ Err(columns) /\ UNCHANGED output
    /\ UNCHANGED <<args, rendering, progress_line_len, stdout>>

\* Bug: an unusable recipient falls back to the clear text.
EncryptOrNot ==
    /\ statement = "encrypt"
    /\ statement' = "print"
    /\ UNCHANGED <<args, messages, terminal, stdout, output, exit>>
\* fs::read of the recipient and encrypt_for_recipient.  Only now is the file
\* looked at, whatever it was before: one that is missing, no certificate or
\* has no usable key fails, as may the encryption itself.
Encrypt ==
    /\ statement = "encrypt"
    /\ \/ /\ \E armored \in Armored :
                 output' = [form |-> "encrypted", lines |-> strip_armor_headers(armored)]
          /\ statement' = "print"
          /\ UNCHANGED <<messages, columns, exit>>
       \/ Err(columns) /\ UNCHANGED output
    /\ UNCHANGED <<args, rendering, progress_line_len, stdout>>

\* What may be on stdout when not all of the output could be written.
Parts == {[output EXCEPT !.lines = SubSeq(@, 1, k)] : k \in 0..(Len(output.lines) - 1)}

\* print!: panics when stdout cannot be written, with part of it written.
PrintOutput ==
    /\ statement = "print"
    /\ statement' = "end"
    /\ \/ stdout' = output /\ exit' = "ok" /\ UNCHANGED <<messages, columns>>
       \/ stdout' \in Parts /\ exit' = "panic" /\ Say({"panic"}, columns)
    /\ UNCHANGED <<args, rendering, progress_line_len, output>>

\* The user interrupts the program, perhaps in the middle of its output.
Interrupt ==
    /\ statement # "end"
    /\ statement' = "end" /\ exit' = "killed"
    /\ stdout' \in IF statement = "print" THEN Parts ELSE {stdout}
    /\ UNCHANGED <<args, messages, terminal, output>>

CliNext ==
    \/ Parse \/ EngineOpened \/ NoEngine
    \/ ShowProgress \/ Found \/ NotFound \/ SearchFails
    \/ Build \/ Encrypt \/ PrintOutput \/ Interrupt

CliSpec == CliInit /\ [][CliNext]_cli_vars
-----------------------------------------------------------------------------
(* Properties.                                                             *)

Disclosures ==
    {"searching", "using", "found", "not found", "seed", "redacted", "error", "panic"}

\* Every variable holds a value of its kind, and the program has an exit status
\* exactly when it has ended.
CliTypeOK ==
    /\ args \in Arguments
    /\ statement \in {"parse", "open", "search", "build", "encrypt", "print", "end"}
    /\ stderr \subseteq Disclosures /\ glued \subseteq stderr
    /\ rendering \in {1, 2} /\ progress_line_len \in Nat
    /\ stdout \in Blocks /\ output \in Blocks
    /\ exit \in {"running", "ok", "error", "panic", "killed"}
    /\ statement = "end" <=> exit # "running"

\* With --encrypt-to neither stream ever shows the secret in the clear, not
\* even when the recipient's file fails or the program is interrupted.
NeverInTheClear ==
    args.encrypt_to => "seed" \notin stderr /\ (stdout.form = "plain" => stdout.lines = <<>>)

\* A pipe that reads stdout can trust the exit status: success goes with one
\* whole key block in the form asked for, without headers, an error with an
\* empty stdout, and whatever is there at all is of a key that stderr has
\* announced as found.
StatusTellsOutput ==
    /\ exit = "ok" =>
          stdout = [form |-> IF args.encrypt_to THEN "encrypted" ELSE "plain",
                    lines |-> <<"begin", "blank", "body", "body", "end">>]
    /\ exit = "error" => stdout.lines = <<>>
    /\ stdout.lines # <<>> => {"found", SeedLine} \subseteq stderr

\* While the search goes on the terminal shows the last progress line and
\* nothing of an earlier one, however the lines shrink and grow and whatever
\* their bytes; and the verdict, found or not found, begins on a blank line.
\* (Only an error in a batch, or of the randomness, is glued to the progress.)
ProgressLineClean ==
    /\ statement = "search" /\ progress_line_len # 0 =>
          /\ Visible(columns) = 1..(progress_line_len - ExtraBytes)
          /\ \A c \in Visible(columns) : columns[c] = rendering
    /\ glued \subseteq {"error"}

\* What the redacted seed line tells the user, "included in the encrypted
\* output", is so when the key block was built and the program has ended by
\* itself, neither interrupted nor with a broken stdout.
RedactedIsIncluded ==
    "redacted" \in stderr /\ output # NoBlock /\ exit \in {"ok", "error"} =>
        stdout.form = "encrypted"
=============================================================================
