------------------------------- MODULE Shell -------------------------------
(***************************************************************************)
(* The shell of project/system/shell.c: it reads a line, cuts it into      *)
(* tokens where it is, runs a built-in or forks a child and waits for it.  *)
(*                                                                         *)
(* Abstractions.  A line is the sequence of its words, words being         *)
(* separated by tabs only (a blank does not separate).  Directories are    *)
(* "start", "home" and the words that name one.                            *)
(***************************************************************************)
EXTENDS Naturals, SequencesExt

CONSTANTS
    MAX_TOKENS,     \* 128
    Lines,          \* the lines that may be typed
    Programs,       \* words that execvp finds
    Directories,    \* words that chdir finds
    MaxLines        \* bound: lines typed

(* "junk" stands for whatever a buffer holds that was never written.        *)
Words == {"junk"} \cup UNION {ToSet(l) : l \in Lines}

ASSUME ShellAssumption ==
    MAX_TOKENS \in Nat \ {0, 1} /\ MaxLines \in Nat /\ Lines \subseteq Seq(Words)

VARIABLES
    shAt,       \* "fgets", "run", "wait", "over"
    line,       \* main's buffer, as the words in front of its first NUL
    eof0,       \* whether the input has ended
    cwd,        \* the working directory
    child,      \* "none", "forked", "running"
    smashed,    \* whether NULL was stored behind tokens
    noFork,     \* whether fork failed
    lines,      \* lines typed so far
    typed       \* history: the last of them

shellVars == <<shAt, line, eof0, cwd, child, smashed, noFork, lines, typed>>

ShellInit ==
    /\ shAt = "fgets" /\ line = <<>> /\ eof0 = FALSE /\ cwd = "start"
    /\ child = "none" /\ smashed = FALSE /\ noFork = FALSE
    /\ lines = 0 /\ typed = <<>>

-----------------------------------------------------------------------------

FgetsLine ==
    /\ shAt = "fgets" /\ ~eof0 /\ lines < MaxLines
    /\ \E l \in Lines : line' = l /\ typed' = l
    /\ lines' = lines + 1
    /\ shAt' = "run"
    /\ UNCHANGED <<eof0, cwd, child, smashed, noFork>>

(* The result is ignored: what the buffer holds is run once more, and that  *)
(* is anything when no line was ever read.                                  *)
FgetsNothing ==
    /\ shAt = "fgets"
    /\ eof0' = TRUE
    /\ IF lines = 0 THEN line' \in {<<>>, <<"junk">>} ELSE UNCHANGED line
    /\ shAt' = "run"
    /\ UNCHANGED <<cwd, child, smashed, noFork, lines, typed>>

(* tokenize: strtok stores a NUL behind the first word of the buffer; the   *)
(* NULL behind the tokens has no place when there are MAX_TOKENS.  A        *)
(* definition whose name ends in Variant is a wrong form of the one it      *)
(* precedes: the properties are checked to tell the two apart.              *)
Tokens == SubSeq(line, 1, IF Len(line) < MAX_TOKENS THEN Len(line) ELSE MAX_TOKENS)

LineLeftVariant == line

LineLeft == IF line = <<>> THEN <<>> ELSE <<Head(line)>>

Tokenize ==
    /\ line' = LineLeft
    /\ smashed' = (Len(line) >= MAX_TOKENS)

Command == IF line = <<>> THEN "" ELSE Head(line)

Builtins == {"cd", "exit", "quit", "help", "?"}

(* Nothing to run, or a built-in.  cmd_help ends without a return, and what *)
(* run gives back then is any value.                                        *)
RunNothing ==
    /\ shAt = "run" /\ line = <<>>
    /\ Tokenize
    /\ shAt' = "fgets"
    /\ UNCHANGED <<eof0, cwd, child, noFork, lines, typed>>

CmdCd ==
    /\ shAt = "run" /\ Command = "cd"
    /\ Tokenize
    /\ cwd' = CASE Len(Tokens) = 1 -> "home"
                [] Len(Tokens) = 2 -> IF Tokens[2] \in Directories THEN Tokens[2] ELSE cwd
                [] OTHER -> cwd
    /\ shAt' = "fgets"
    /\ UNCHANGED <<eof0, child, noFork, lines, typed>>

CmdExit ==
    /\ shAt = "run" /\ Command \in {"exit", "quit"}
    /\ Tokenize
    /\ shAt' = "over"
    /\ UNCHANGED <<eof0, cwd, child, noFork, lines, typed>>

CmdHelp ==
    /\ shAt = "run" /\ Command \in {"help", "?"}
    /\ Tokenize
    /\ shAt' \in {"fgets", "over"}
    /\ UNCHANGED <<eof0, cwd, child, noFork, lines, typed>>

Fork ==
    /\ shAt = "run" /\ line # <<>> /\ Command \notin Builtins
    /\ Tokenize
    /\ child' = "forked" /\ shAt' = "wait"
    /\ UNCHANGED <<eof0, cwd, noFork, lines, typed>>

(* fork fails: the shell ends, and its message stays in the buffer of       *)
(* stdout, which _exit does not write.                                      *)
ForkFails ==
    /\ shAt = "run" /\ line # <<>> /\ Command \notin Builtins
    /\ Tokenize
    /\ noFork' = TRUE /\ shAt' = "over"
    /\ UNCHANGED <<eof0, cwd, child, lines, typed>>

(* execvp replaces the child, or it says "NO such file" and ends.           *)
Exec ==
    /\ child = "forked"
    /\ child' = IF Command \in Programs THEN "running" ELSE "none"
    /\ UNCHANGED <<shAt, line, eof0, cwd, smashed, noFork, lines, typed>>

ChildEnds ==
    /\ child = "running" /\ child' = "none"
    /\ UNCHANGED <<shAt, line, eof0, cwd, smashed, noFork, lines, typed>>

Wait ==
    /\ shAt = "wait" /\ child = "none"
    /\ shAt' = "fgets"
    /\ UNCHANGED <<line, eof0, cwd, child, smashed, noFork, lines, typed>>

(* What lay behind tokens is found overwritten when run returns, or nothing *)
(* that mattered was there.                                                 *)
StackSmashed ==
    /\ smashed /\ shAt = "fgets"
    /\ shAt' = "over"
    /\ UNCHANGED <<line, eof0, cwd, child, smashed, noFork, lines, typed>>

ShellNext ==
    \/ FgetsLine \/ FgetsNothing
    \/ RunNothing \/ CmdCd \/ CmdExit \/ CmdHelp \/ Fork \/ ForkFails
    \/ Exec \/ ChildEnds \/ Wait \/ StackSmashed

-----------------------------------------------------------------------------

(* shell.c:104: the end of the input does not end the shell.  From then on  *)
(* it runs the first word of the last line, without its arguments, over and *)
(* over; it only ends if that word tells it to, fork fails or the last line *)
(* had too many words.  Until a child is done there is no new line.         *)
EndOfInputIsNoEnd ==
    /\ eof0 /\ shAt = "run" /\ lines > 0 =>
          line = (IF typed = <<>> THEN <<>> ELSE <<Head(typed)>>)
    /\ shAt = "over" =>
          \/ typed # <<>> /\ Head(typed) \in {"exit", "quit", "help", "?"}
          \/ noFork
          \/ Len(typed) >= MAX_TOKENS
    /\ shAt \in {"fgets", "run"} => child = "none"

=============================================================================
