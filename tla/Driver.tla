------------------------------- MODULE Driver -------------------------------
(***************************************************************************)
(* main of skibicc.c: the pipeline of one run, the files it shares with    *)
(* the tools it starts and with other runs, and its exit status.  Runs of  *)
(* the compiler on one source follow one another; the source is edited at  *)
(* any time, and a run may be killed between any two steps, or while a     *)
(* tool writes its output.                                                 *)
(*                                                                         *)
(* A file is the version of the source it was made from: replace_ext gives *)
(* every file of a run the same name with another extension, so a file is  *)
(* known by its extension.  cpp, as and ld are external: they succeed or   *)
(* fail, and on failure leave their output alone or remove it.  main looks *)
(* at no result of remove(), which may fail and leave the file.            *)
(***************************************************************************)
EXTENDS Integers

CONSTANTS
    MaxVersion,   \* bound: versions of the source
    MaxRuns       \* bound: runs of the compiler

ASSUME BoundsAssumption == MaxVersion \in Nat \ {0} /\ MaxRuns \in Nat

None == 0           \* no such file
Partial == -1       \* a file cut short
Versions == 1..MaxVersion

\* The stages that may refuse a version of the source; "never" for one that
\* every stage accepts.  "ir" stands for emit_ir and emit, "as" for assembly
\* that the assembler rejects.
Stages == {"lex", "parse", "ir", "as", "never"}

compiler_option == {"CO_LEX", "CO_PARSE", "CO_CODEGEN", "CO_DEFAULT"}

VARIABLES
    refuses,   \* the stage that refuses each version, never changed
    source,    \* the version of the source file
    file,      \* the version in the file with each other extension
    opt,       \* opt
    pc,        \* the stage that runs next, "idle" between runs
    text,      \* text: the version read
    status,    \* the exit status of the last run, or "killed"
    runs,      \* runs started
    seen,      \* history: the version cpp read in this run
    kept       \* history: the files this run could not remove

vars == <<refuses, source, file, opt, pc, text, status, runs, seen, kept>>
run  == <<refuses, source, opt, runs>>
history == <<seen, kept>>

-----------------------------------------------------------------------------

Init ==
    /\ refuses \in [Versions -> Stages]
    /\ source = 1
    /\ file = [ext \in {"i", "s", "o", "out"} |-> None]
    /\ opt = "CO_DEFAULT"
    /\ pc = "idle"
    /\ text = None
    /\ status = "none"
    /\ runs = 0
    /\ seen = None
    /\ kept = {}

Edit ==
    /\ source < MaxVersion
    /\ source' = source + 1
    /\ UNCHANGED <<refuses, file, opt, pc, text, status, runs, history>>

\* The command line is read: a run begins, or ends at once for a flag that
\* does not exist or a missing path.
Start ==
    /\ pc = "idle" /\ runs < MaxRuns
    /\ runs' = runs + 1
    /\ text' = None /\ seen' = None /\ kept' = {}
    /\ \/ /\ opt' \in compiler_option
          /\ pc' = "cpp"
          /\ status' = "none"
       \/ /\ status' = "1"
          /\ UNCHANGED <<opt, pc>>
    /\ UNCHANGED <<refuses, source, file>>

\* The process ends with a status; text is freed.
Exit(s) ==
    /\ pc' = "idle"
    /\ status' = s
    /\ text' = None

Goto(stage) ==
    /\ pc' = stage
    /\ UNCHANGED <<status, text>>

\* Mutant: an output file is appended to and not truncated.
Appends(ext, v) == file' = [file EXCEPT ![ext] = @ + v]

Writes(ext, v) == file' = [file EXCEPT ![ext] = v]

\* A tool that fails leaves its output as it was, or removes it.
Spoils(ext) == UNCHANGED file \/ Writes(ext, None)

\* remove(), which may fail.
Removes(ext) ==
    \/ Writes(ext, None) /\ UNCHANGED kept
    \/ UNCHANGED file /\ kept' = kept \cup {ext}

\* Mutant: the exit status of cpp is not looked at.
after_cpp_failure_ignored == Goto("read")

after_cpp_failure == Exit("1")

run_preprocessor ==
    /\ pc = "cpp"
    /\ seen' = source
    /\ \/ Writes("i", source) /\ Goto("read")
       \/ Spoils("i") /\ after_cpp_failure
    /\ UNCHANGED <<run, kept>>

\* The file cannot be opened, or is read whole.
read_file ==
    /\ pc = "read"
    /\ \/ Exit("1")
       \/ /\ file["i"] # None
          /\ text' = file["i"]
          /\ pc' = "unlink"
          /\ UNCHANGED status
    /\ UNCHANGED <<run, file, history>>

RemovePreprocessed ==
    /\ pc = "unlink"
    /\ Removes("i")
    /\ Goto("lex")
    /\ UNCHANGED <<run, seen>>

\* Mutant: an error of the lexer is printed, and compilation goes on.
rejects_after_lexing(stage) == stage # "lex" /\ refuses[text] = stage

\* A stage that reports an error does not return.
rejects(stage) == refuses[text] = stage

lex ==
    /\ pc = "lex"
    /\ \/ rejects("lex") /\ Exit("1")
       \/ ~rejects("lex") /\ opt = "CO_LEX" /\ Exit("0")
       \/ ~rejects("lex") /\ opt # "CO_LEX" /\ Goto("parse")
    /\ UNCHANGED <<run, file, history>>

parse ==
    /\ pc = "parse"
    /\ \/ rejects("parse") /\ Exit("1")
       \/ ~rejects("parse") /\ opt = "CO_PARSE" /\ Exit("0")
       \/ ~rejects("parse") /\ opt # "CO_PARSE" /\ Goto("open")
    /\ UNCHANGED <<run, file, history>>

\* fopen is not checked: when it fails, a text that emit_ir or the lowering
\* refuses still ends the run with an error, and any other when emit writes
\* through the null pointer.
OpenAssembly ==
    /\ pc = "open"
    /\ \/ Writes("s", Partial) /\ Goto("emit")
       \/ UNCHANGED file /\ rejects("ir") /\ Exit("1")
       \/ UNCHANGED file /\ ~rejects("ir") /\ Exit("crashed")
    /\ UNCHANGED <<run, history>>

\* emit_ir and emit.  Their error exits leave the file begun.
emit ==
    /\ pc = "emit"
    /\ \/ rejects("ir") /\ Exit("1") /\ UNCHANGED file
       \/ ~rejects("ir") /\ Writes("s", text) /\ Goto("as")
    /\ UNCHANGED <<run, history>>

\* Mutant: emit_code goes on to the linker when the assembler fails.
after_as_failure_ignored == Goto("ld")

\* Mutant: the assembler is called until it succeeds.
as_retried == Goto("as")

\* emit_code returns early; main does not look at its result.
after_as_failure == Goto("cleanup")

\* emit_code's first command.
Assemble ==
    /\ pc = "as"
    /\ \/ ~rejects("as") /\ Writes("o", file["s"]) /\ Goto("ld")
       \/ Spoils("o") /\ after_as_failure
    /\ UNCHANGED <<run, history>>

\* emit_code's second command.
Link ==
    /\ pc = "ld"
    /\ \/ Writes("out", file["o"])
       \/ Spoils("out")
    /\ Goto("cleanup")
    /\ UNCHANGED <<run, history>>

\* Mutant: the assembly is left beside the source.
assembly_left == UNCHANGED <<file, kept>>

remove_assembly == Removes("s")

RemoveAssembly ==
    /\ pc = "cleanup"
    /\ remove_assembly
    /\ Exit("0")
    /\ UNCHANGED <<run, seen>>

\* The run is killed, and the tool it waits for with it.  The file that main or
\* the tool is writing stays cut short.
Output(stage) ==
    CASE stage = "cpp" -> {"i"} [] stage = "emit" -> {"s"}
      [] stage = "as" -> {"o"} [] stage = "ld" -> {"out"} [] OTHER -> {}

Kill ==
    /\ pc # "idle"
    /\ Exit("killed")
    /\ \/ UNCHANGED file
       \/ \E ext \in Output(pc) : Writes(ext, Partial)
    /\ UNCHANGED <<run, history>>

-----------------------------------------------------------------------------

Step ==
    \/ run_preprocessor \/ read_file \/ RemovePreprocessed
    \/ lex \/ parse \/ OpenAssembly \/ emit
    \/ Assemble \/ Link \/ RemoveAssembly

Next == Edit \/ Start \/ Step \/ Kill

\* A run goes on: every tool it waits for ends.
Spec == Init /\ [][Next]_vars /\ WF_vars(Step)

-----------------------------------------------------------------------------
(* Properties.                                                             *)

TypeOK ==
    /\ refuses \in [Versions -> Stages]
    /\ source \in Versions
    /\ file \in [{"i", "s", "o", "out"} -> Versions \cup {None, Partial}]
    /\ opt \in compiler_option
    /\ pc \in {"idle", "cpp", "read", "unlink", "lex", "parse", "open",
               "emit", "as", "ld", "cleanup"}
    /\ text \in Versions \cup {None, Partial}
    /\ status \in {"none", "0", "1", "crashed", "killed"}
    /\ runs \in 0..MaxRuns
    /\ seen \in Versions \cup {None}
    /\ kept \subseteq {"i", "s"}

\* What is compiled is what cpp read in this run, whatever .i an earlier run
\* that failed, was killed or could not remove it has left, and whatever has
\* been edited since.
CompilesWhatCppRead ==
    pc \in {"unlink", "lex", "parse", "open", "emit", "as", "ld"} =>
        text = seen

\* The executable changes only into the program of the version this run read:
\* no .o or .s left by an earlier run is ever linked.  It may be lost, and only
\* a run that is killed leaves it cut short.
LinksThisRun ==
    [][file'["out"] # file["out"] =>
         \/ file'["out"] \in {seen, None}
         \/ file'["out"] = Partial /\ status' = "killed"]_vars

\* Status 0 is never the answer to a source that a stage of this run refused
\* with a message; refusals by the assembler are not among them.
ZeroMeansAccepted ==
    status = "0" =>
        /\ refuses[seen] # "lex"
        /\ opt # "CO_LEX" => refuses[seen] # "parse"
        /\ opt \in {"CO_CODEGEN", "CO_DEFAULT"} => refuses[seen] # "ir"

\* Where a run may leave an intermediate file, its own or an older run's.  A run
\* that ends by itself, well or with an error, leaves the preprocessed file only
\* if it ended before it had read it, and the assembly only if it never began
\* any or ended in the middle of it, which is then cut short; or if the remove()
\* it made of the file failed.
LeavesNoMore ==
    [][pc # "idle" /\ pc' = "idle" /\ status' # "killed" =>
         /\ file'["i"] # None => pc \in {"cpp", "read"} \/ "i" \in kept'
         /\ file'["s"] # None =>
               \/ pc \in {"cpp", "read", "lex", "parse", "open"}
               \/ pc = "emit" /\ file'["s"] = Partial
               \/ "s" \in kept']_vars

\* Every run ends.
EveryRunEnds == pc # "idle" ~> pc = "idle"

\* README.md: compiling a program produces its executable.
CompilingProduces ==
    status = "0" /\ opt = "CO_DEFAULT" => file["out"] = seen

=============================================================================
