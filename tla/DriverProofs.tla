---------------------------- MODULE DriverProofs ----------------------------
(***************************************************************************)
(* What a run of the compiler compiles, links, removes and answers, for    *)
(* every number of runs, edits and versions of the source.                 *)
(*                                                                         *)
(* The safety properties are about the end of a run, or about text.  The   *)
(* invariant adds, stage by stage, what the run already holds: the file    *)
(* that the next stage reads is the one this run wrote (Fresh), the stages *)
(* behind it have accepted the text (Passed), and what they were to remove *)
(* is gone, unless remove() failed (Cleared).                              *)
(***************************************************************************)
EXTENDS Driver, TLAPS

Generating == {"open", "emit", "as", "ld", "cleanup"}
CodeOptions == {"CO_CODEGEN", "CO_DEFAULT"}

\* The file the next stage reads was written by this run.
Fresh ==
    /\ pc = "read" => file["i"] = seen
    /\ pc = "as" => file["s"] = seen
    /\ pc = "ld" => file["o"] = seen
    /\ pc \notin {"idle", "cpp"} => seen \in Versions
    /\ status = "0" => seen \in Versions
    /\ pc # "idle" => status = "none"

\* The stages behind the next one have accepted the text.
Passed ==
    /\ pc \in {"parse"} \cup Generating => refuses[seen] # "lex"
    /\ pc \in Generating => refuses[seen] # "parse"
    /\ pc \in {"as", "ld", "cleanup"} => refuses[seen] # "ir"
    /\ pc \in {"parse"} \cup Generating => opt # "CO_LEX"
    /\ pc \in Generating => opt \in CodeOptions

\* The preprocessed file is gone once it has been read, or could not be removed; the assembly is
\* begun before it is written.
Gone == file["i"] = None \/ "i" \in kept
Cleared ==
    /\ pc \in {"lex", "parse"} \cup Generating => Gone
    /\ pc = "emit" => file["s"] = Partial

IInv ==
    /\ TypeOK /\ CompilesWhatCppRead /\ ZeroMeansAccepted
    /\ Fresh /\ Passed /\ Cleared

-----------------------------------------------------------------------------

\* The invariant holds before the first run.
LEMMA InitIInv == Init => IInv
<1> SUFFICES ASSUME Init PROVE IInv
  OBVIOUS
<1>1. TypeOK
  BY BoundsAssumption DEF Init, TypeOK, compiler_option, Versions
<1>2. CompilesWhatCppRead /\ ZeroMeansAccepted
  BY DEF Init, CompilesWhatCppRead, ZeroMeansAccepted
<1>3. Fresh /\ Passed /\ Cleared
  BY DEF Init, Fresh, Passed, Cleared, Generating
<1> QED BY <1>1, <1>2, <1>3 DEF IInv

\* A step that ends the run with any status but "0" keeps the invariant.
LEMMA EndsBadly ==
    ASSUME IInv, NEW s \in {"1", "crashed", "killed"}, Exit(s), UNCHANGED run,
           file' \in [{"i", "s", "o", "out"} -> Versions \cup {None, Partial}],
           seen' \in Versions \cup {None}, kept' \subseteq {"i", "s"}
    PROVE  IInv'
<1>1. TypeOK'
  BY DEF IInv, TypeOK, Exit, run, Versions, compiler_option
<1>2. /\ CompilesWhatCppRead' /\ ZeroMeansAccepted'
      /\ Fresh' /\ Passed' /\ Cleared'
  BY DEF Exit, CompilesWhatCppRead, ZeroMeansAccepted,
         Fresh, Passed, Cleared, Generating
<1> QED BY <1>1, <1>2 DEF IInv

\* The types of the files after a step that writes one of them, or none.
LEMMA FileTypes ==
    ASSUME TypeOK, NEW ext \in {"i", "s", "o", "out"},
           NEW v \in Versions \cup {None, Partial},
           Writes(ext, v) \/ Spoils(ext) \/ UNCHANGED file
    PROVE  file' \in [{"i", "s", "o", "out"} -> Versions \cup {None, Partial}]
  BY DEF TypeOK, Writes, Spoils

\* What remove() does to the files, whether or not it fails.
LEMMA RemoveTypes ==
    ASSUME TypeOK, NEW ext \in {"i", "s"}, Removes(ext)
    PROVE  /\ file' \in [{"i", "s", "o", "out"} -> Versions \cup {None, Partial}]
           /\ kept' \subseteq {"i", "s"} /\ kept \subseteq kept'
           /\ file'[ext] = None \/ ext \in kept'
           /\ \A other \in {"i", "s", "o", "out"} : other # ext => file'[other] = file[other]
<1>1. CASE Writes(ext, None) /\ UNCHANGED kept
  BY <1>1 DEF TypeOK, Writes, None
<1>2. CASE UNCHANGED file /\ kept' = kept \cup {ext}
  BY <1>2 DEF TypeOK
<1> QED BY <1>1, <1>2 DEF Removes

\* A step that does not end the run and keeps seen has its types.
LEMMA GoesOn ==
    ASSUME TypeOK, UNCHANGED run, UNCHANGED status, seen' \in Versions \cup {None},
           kept' \subseteq {"i", "s"},
           pc' \in {"cpp", "read", "unlink", "lex", "parse", "open",
                    "emit", "as", "ld", "cleanup"},
           text' \in Versions \cup {None, Partial},
           file' \in [{"i", "s", "o", "out"} -> Versions \cup {None, Partial}]
    PROVE  TypeOK'
  BY DEF TypeOK, run, Versions, compiler_option, Stages

\* Every step keeps the invariant: one case for each stage of the run.
LEMMA NextIInv == IInv /\ [Next]_vars => IInv'
<1> SUFFICES ASSUME IInv, [Next]_vars PROVE IInv'
  OBVIOUS
<1> USE DEF None, Partial
<1>a. TypeOK
  BY DEF IInv
<1>b. source \in Versions
  BY <1>a DEF TypeOK
<1>c. kept \subseteq {"i", "s"}
  BY <1>a DEF TypeOK
<1>1. CASE Edit
  <2>1. TypeOK'
    BY <1>1, <1>a, BoundsAssumption DEF Edit, TypeOK, Versions, history
  <2>2. UNCHANGED <<refuses, file, opt, pc, text, status, seen, kept>>
    BY <1>1 DEF history, Edit
  <2>3. /\ CompilesWhatCppRead' /\ ZeroMeansAccepted'
        /\ Fresh' /\ Passed' /\ Cleared'
    BY <2>2 DEF IInv, CompilesWhatCppRead, ZeroMeansAccepted, Versions, Fresh, Passed, Cleared, Gone, history
  <2> QED BY <2>1, <2>3 DEF IInv
<1>2. CASE Start
  <2>1. TypeOK'
    BY <1>2, <1>a, BoundsAssumption
    DEF Start, TypeOK, Versions, compiler_option
  <2>2. /\ CompilesWhatCppRead' /\ ZeroMeansAccepted'
        /\ Fresh' /\ Passed' /\ Cleared'
    BY <1>2
    DEF Start, CompilesWhatCppRead, ZeroMeansAccepted, Generating, Fresh,
        Passed, Cleared, Gone, history
  <2> QED BY <2>1, <2>2 DEF IInv
<1>3. CASE run_preprocessor
  <2>1. file' \in [{"i", "s", "o", "out"} -> Versions \cup {None, Partial}]
    BY <1>3, <1>a, <1>b, FileTypes DEF run_preprocessor
  <2>2. seen' \in Versions \cup {None} /\ UNCHANGED run /\ kept' \subseteq {"i", "s"}
    BY <1>3, <1>b, <1>c DEF run_preprocessor
  <2>3. CASE Writes("i", source) /\ Goto("read")
    <3>1. TypeOK'
      BY <1>a, <1>c, <2>1, <2>2, <2>3, GoesOn DEF Goto, TypeOK
    <3>2. file'["i"] = source /\ seen' = source
      BY <1>3, <1>a, <2>3 DEF run_preprocessor, Writes, TypeOK
    <3>3. pc' = "read" /\ status' = "none"
      BY <1>3, <2>3 DEF run_preprocessor, Goto, IInv, Fresh
    <3> QED BY <1>b, <3>1, <3>2, <3>3
        DEF IInv, CompilesWhatCppRead, ZeroMeansAccepted, Generating, Fresh, Passed, Cleared, Gone, history
  <2>4. CASE Spoils("i") /\ after_cpp_failure
    BY <1>c, <2>1, <2>2, <2>4, EndsBadly DEF after_cpp_failure
  <2> QED BY <1>3, <2>3, <2>4 DEF run_preprocessor
<1>4. CASE read_file
  <2>1. UNCHANGED run /\ file' = file /\ seen' = seen /\ kept' = kept
    BY <1>4 DEF history, read_file
  <2>2. CASE Exit("1")
    BY <1>a, <1>c, <2>1, <2>2, EndsBadly DEF TypeOK
  <2>3. CASE text' = file["i"] /\ pc' = "unlink" /\ UNCHANGED status
    <3>1. text' = seen /\ seen \in Versions /\ status' = "none"
      BY <1>4, <2>3 DEF read_file, IInv, Fresh
    <3>2. TypeOK'
      BY <1>a, <1>c, <2>1, <2>3, <3>1, GoesOn DEF TypeOK
    <3> QED BY <2>1, <2>3, <3>1, <3>2
        DEF IInv, CompilesWhatCppRead, ZeroMeansAccepted, Generating, Fresh, Passed, Cleared, Gone, history
  <2> QED BY <1>4, <2>2, <2>3 DEF read_file
<1>5. CASE RemovePreprocessed
  <2>1. /\ UNCHANGED run /\ seen' = seen /\ text' = text /\ status' = "none"
        /\ status' = status /\ pc' = "lex" /\ text = seen /\ seen \in Versions
    BY <1>5, <1>a DEF RemovePreprocessed, Goto, IInv, Fresh, CompilesWhatCppRead
  <2>2. /\ file' \in [{"i", "s", "o", "out"} -> Versions \cup {None, Partial}]
        /\ Gone' /\ kept' \subseteq {"i", "s"}
    BY <1>5, <1>a, <1>c, RemoveTypes DEF RemovePreprocessed, Gone
  <2>3. TypeOK'
    BY <1>a, <2>1, <2>2, GoesOn
  <2> QED BY <2>1, <2>2, <2>3
      DEF IInv, CompilesWhatCppRead, ZeroMeansAccepted, Generating, Fresh, Passed, Cleared
<1>6. CASE lex
  <2>1. /\ UNCHANGED run /\ file' = file /\ seen' = seen /\ kept' = kept
        /\ refuses' = refuses /\ opt' = opt
        /\ text = seen /\ seen \in Versions /\ status = "none"
        /\ Gone
    BY <1>6 DEF history, lex, run, IInv, Fresh, CompilesWhatCppRead, Cleared
  <2>2. CASE Exit("1")
    BY <1>a, <1>c, <2>1, <2>2, EndsBadly DEF TypeOK
  <2>3. CASE ~rejects("lex") /\ opt = "CO_LEX" /\ Exit("0")
    <3>1. TypeOK'
      BY <1>a, <1>c, <2>1, <2>3 DEF TypeOK, Exit, run, Versions, compiler_option
    <3> QED BY <2>1, <2>3, <3>1
        DEF IInv, CompilesWhatCppRead, ZeroMeansAccepted, Generating, Exit,
            rejects, Fresh, Passed, Cleared, Gone, history
  <2>4. CASE ~rejects("lex") /\ opt # "CO_LEX" /\ Goto("parse")
    <3>1. TypeOK'
      BY <1>a, <1>c, <2>1, <2>4, GoesOn DEF Goto, TypeOK
    <3> QED BY <2>1, <2>4, <3>1
        DEF IInv, CompilesWhatCppRead, ZeroMeansAccepted, Generating, Goto,
            rejects, Fresh, Passed, Cleared, Gone, history
  <2> QED BY <1>6, <2>2, <2>3, <2>4 DEF lex
<1>7. CASE parse
  <2>1. /\ UNCHANGED run /\ file' = file /\ seen' = seen /\ kept' = kept
        /\ refuses' = refuses /\ opt' = opt
        /\ text = seen /\ seen \in Versions /\ status = "none"
        /\ Gone /\ refuses[seen] # "lex" /\ opt # "CO_LEX"
    BY <1>7 DEF history, parse, run, IInv, Fresh, CompilesWhatCppRead, Cleared, Passed
  <2>2. CASE Exit("1")
    BY <1>a, <1>c, <2>1, <2>2, EndsBadly DEF TypeOK
  <2>3. CASE ~rejects("parse") /\ opt = "CO_PARSE" /\ Exit("0")
    <3>1. TypeOK'
      BY <1>a, <1>c, <2>1, <2>3 DEF TypeOK, Exit, run, Versions, compiler_option
    <3> QED BY <2>1, <2>3, <3>1
        DEF IInv, CompilesWhatCppRead, ZeroMeansAccepted, Generating, Exit,
            rejects, Fresh, Passed, Cleared, Gone, history
  <2>4. CASE ~rejects("parse") /\ opt # "CO_PARSE" /\ Goto("open")
    <3>1. TypeOK'
      BY <1>a, <1>c, <2>1, <2>4, GoesOn DEF Goto, TypeOK
    <3>2. opt \in CodeOptions
      BY <1>a, <1>c, <2>1, <2>4 DEF TypeOK, compiler_option, CodeOptions
    <3> QED BY <2>1, <2>4, <3>1, <3>2
        DEF IInv, CompilesWhatCppRead, ZeroMeansAccepted, Generating, Goto,
            rejects, Fresh, Passed, Cleared, Gone, history
  <2> QED BY <1>7, <2>2, <2>3, <2>4 DEF parse
<1>8. CASE OpenAssembly
  <2>1. /\ UNCHANGED run /\ seen' = seen /\ kept' = kept /\ refuses' = refuses /\ opt' = opt
        /\ text = seen /\ seen \in Versions /\ status = "none"
        /\ Gone /\ opt \in CodeOptions
        /\ refuses[seen] # "lex" /\ refuses[seen] # "parse"
    BY <1>8 DEF history, OpenAssembly, run, IInv, Fresh, CompilesWhatCppRead, Cleared,
                Passed, Generating
  <2>2. file' \in [{"i", "s", "o", "out"} -> Versions \cup {None, Partial}]
    BY <1>8, <1>a, FileTypes DEF OpenAssembly
  <2>3. CASE Writes("s", Partial) /\ Goto("emit")
    <3>1. TypeOK'
      BY <1>a, <1>c, <2>1, <2>2, <2>3, GoesOn DEF Goto, TypeOK
    <3>2. Gone' /\ file'["s"] = Partial
      BY <1>a, <2>1, <2>3 DEF Writes, TypeOK, Gone
    <3> QED BY <2>1, <2>3, <3>1, <3>2
        DEF IInv, CompilesWhatCppRead, ZeroMeansAccepted, Generating, Goto,
            Fresh, Passed, Cleared, CodeOptions
  <2>4. CASE Exit("1") \/ Exit("crashed")
    BY <1>a, <1>c, <2>1, <2>2, <2>4, EndsBadly DEF TypeOK
  <2> QED BY <1>8, <2>3, <2>4 DEF OpenAssembly
<1>9. CASE emit
  <2>1. /\ UNCHANGED run /\ seen' = seen /\ kept' = kept /\ refuses' = refuses /\ opt' = opt
        /\ text = seen /\ seen \in Versions /\ status = "none"
        /\ Gone /\ opt \in CodeOptions
        /\ refuses[seen] # "lex" /\ refuses[seen] # "parse"
    BY <1>9 DEF history, emit, run, IInv, Fresh, CompilesWhatCppRead, Cleared,
                Passed, Generating
  <2>2. file' \in [{"i", "s", "o", "out"} -> Versions \cup {None, Partial}]
    BY <1>9, <1>a, <1>c, <2>1, FileTypes DEF emit
  <2>3. CASE Exit("1")
    BY <1>a, <1>c, <2>1, <2>2, <2>3, EndsBadly DEF TypeOK
  <2>4. CASE ~rejects("ir") /\ Writes("s", text) /\ Goto("as")
    <3>1. TypeOK'
      BY <1>a, <1>c, <2>1, <2>2, <2>4, GoesOn DEF Goto, TypeOK
    <3>2. Gone' /\ file'["s"] = seen
      BY <1>a, <1>c, <2>1, <2>4 DEF Writes, TypeOK, Gone
    <3> QED BY <2>1, <2>4, <3>1, <3>2
        DEF IInv, CompilesWhatCppRead, ZeroMeansAccepted, Generating, Goto,
            rejects, Fresh, Passed, Cleared, Gone, history, CodeOptions
  <2> QED BY <1>9, <2>3, <2>4 DEF emit
<1>10. CASE Assemble
  <2>1. /\ UNCHANGED run /\ seen' = seen /\ kept' = kept /\ refuses' = refuses /\ opt' = opt
        /\ text = seen /\ seen \in Versions /\ status = "none"
        /\ Gone /\ opt \in CodeOptions /\ file["s"] = seen
        /\ refuses[seen] \notin {"lex", "parse", "ir"}
    BY <1>10 DEF history, Assemble, run, IInv, Fresh, CompilesWhatCppRead, Cleared,
                 Passed, Generating
  <2>2. file' \in [{"i", "s", "o", "out"} -> Versions \cup {None, Partial}]
    BY <1>10, <1>a, <1>c, <2>1, FileTypes DEF Assemble
  <2>3. CASE Writes("o", file["s"]) /\ Goto("ld")
    <3>1. TypeOK'
      BY <1>a, <1>c, <2>1, <2>2, <2>3, GoesOn DEF Goto, TypeOK
    <3>2. Gone' /\ file'["o"] = seen
      BY <1>a, <1>c, <2>1, <2>3 DEF Writes, TypeOK, Gone
    <3> QED BY <2>1, <2>3, <3>1, <3>2
        DEF IInv, CompilesWhatCppRead, ZeroMeansAccepted, Generating, Goto,
            Fresh, Passed, Cleared, Gone, history, CodeOptions
  <2>4. CASE Spoils("o") /\ after_as_failure
    <3>1. TypeOK'
      BY <1>a, <1>c, <2>1, <2>2, <2>4, GoesOn DEF Goto, TypeOK, after_as_failure
    <3>2. Gone'
      BY <1>a, <1>c, <2>1, <2>4 DEF Spoils, Writes, TypeOK, Gone
    <3> QED BY <2>1, <2>4, <3>1, <3>2
        DEF IInv, CompilesWhatCppRead, ZeroMeansAccepted, Generating, Goto,
            after_as_failure, Fresh, Passed, Cleared, Gone, history,
            CodeOptions
  <2> QED BY <1>10, <2>3, <2>4 DEF Assemble
<1>11. CASE Link
  <2>1. /\ UNCHANGED run /\ seen' = seen /\ kept' = kept /\ refuses' = refuses /\ opt' = opt
        /\ text = seen /\ seen \in Versions /\ status = "none"
        /\ Gone /\ opt \in CodeOptions /\ file["o"] = seen
        /\ refuses[seen] \notin {"lex", "parse", "ir"}
    BY <1>11 DEF history, Link, run, IInv, Fresh, CompilesWhatCppRead, Cleared,
                 Passed, Generating
  <2>2. file' \in [{"i", "s", "o", "out"} -> Versions \cup {None, Partial}]
    BY <1>11, <1>a, <1>c, <2>1, FileTypes DEF Link
  <2>3. pc' = "cleanup" /\ status' = status /\ text' = text
    BY <1>11 DEF Link, Goto
  <2>4. TypeOK'
    BY <1>a, <1>c, <2>1, <2>2, <2>3, GoesOn DEF TypeOK
  <2>5. Gone'
    BY <1>11, <1>a, <2>1 DEF Link, Spoils, Writes, TypeOK, Gone
  <2> QED BY <2>1, <2>3, <2>4, <2>5
      DEF IInv, CompilesWhatCppRead, ZeroMeansAccepted, Generating, Fresh,
          Passed, Cleared, Gone, history, CodeOptions
<1>12. CASE RemoveAssembly
  <2>1. /\ UNCHANGED run /\ seen' = seen /\ refuses' = refuses /\ opt' = opt
        /\ seen \in Versions /\ opt \in CodeOptions
        /\ refuses[seen] \notin {"lex", "parse", "ir"}
    BY <1>12 DEF RemoveAssembly, run, IInv, Fresh, Passed, Generating
  <2>2. /\ file' \in [{"i", "s", "o", "out"} -> Versions \cup {None, Partial}]
        /\ kept' \subseteq {"i", "s"}
    BY <1>12, <1>a, RemoveTypes DEF RemoveAssembly, remove_assembly
  <2>3. Exit("0")
    BY <1>12 DEF RemoveAssembly
  <2>4. TypeOK'
    BY <1>a, <2>1, <2>2, <2>3 DEF TypeOK, Exit, run, Versions, compiler_option
  <2> QED BY <2>1, <2>2, <2>3, <2>4
      DEF IInv, CompilesWhatCppRead, ZeroMeansAccepted, Generating, Exit,
          Fresh, Passed, Cleared, CodeOptions
<1>13. CASE Kill
  <2>1. UNCHANGED run /\ seen' = seen /\ kept' = kept /\ Exit("killed")
    BY <1>13 DEF history, Kill
  <2>2. file' \in [{"i", "s", "o", "out"} -> Versions \cup {None, Partial}]
    <3>1. CASE UNCHANGED file
      BY <1>a, <3>1 DEF TypeOK
    <3>2. CASE \E ext \in Output(pc) : Writes(ext, Partial)
      <4>1. PICK ext \in Output(pc) : Writes(ext, Partial)
        BY <3>2
      <4>2. ext \in {"i", "s", "o", "out"}
        BY <1>a, <4>1 DEF Output, TypeOK
      <4> QED BY <1>a, <4>1, <4>2, FileTypes
    <3> QED BY <1>13, <3>1, <3>2 DEF Kill
  <2> QED BY <1>a, <1>c, <2>1, <2>2, EndsBadly DEF TypeOK
<1>14. CASE UNCHANGED vars
  BY <1>14
  DEF vars, IInv, TypeOK, CompilesWhatCppRead, ZeroMeansAccepted, Fresh,
      Passed, Cleared, Gone, history
<1> QED
  BY <1>1, <1>2, <1>3, <1>4, <1>5, <1>6, <1>7, <1>8, <1>9, <1>10, <1>11,
     <1>12, <1>13, <1>14 DEF Next, Step

-----------------------------------------------------------------------------

\* The strengthened invariant, for every number of runs and edits.
THEOREM Inductive == Spec => []IInv
BY InitIInv, NextIInv, PTL DEF Spec

\* Every variable has its type: a file holds a version of the source, or nothing, or
\* what a stage left unfinished, and main is at one of its stages.
THEOREM TypeCorrect == Spec => []TypeOK
<1>1. IInv => TypeOK
  BY DEF IInv
<1> QED BY <1>1, Inductive, PTL

\* What main compiles is what cpp read in the same run.
THEOREM CompilesCurrent == Spec => []CompilesWhatCppRead
<1>1. IInv => CompilesWhatCppRead
  BY DEF IInv
<1> QED BY <1>1, Inductive, PTL

\* Exit status 0 is never given to a text that the lexer, the parser or the
\* code generator refused.
THEOREM ZeroAccepted == Spec => []ZeroMeansAccepted
<1>1. IInv => ZeroMeansAccepted
  BY DEF IInv
<1> QED BY <1>1, Inductive, PTL

\* The files that a run may leave: what a run that is not killed leaves of the preprocessed file and
\* the assembly tells where it ended, or that remove() failed.
THEOREM EndsTidy == Spec => LeavesNoMore
<1> DEFINE Tidy == pc # "idle" /\ pc' = "idle" /\ status' # "killed" =>
                     /\ file'["i"] # None => pc \in {"cpp", "read"} \/ "i" \in kept'
                     /\ file'["s"] # None =>
                           \/ pc \in {"cpp", "read", "lex", "parse", "open"}
                           \/ pc = "emit" /\ file'["s"] = Partial
                           \/ "s" \in kept'
<1>1. ASSUME IInv, Next PROVE Tidy
  <2>1. TypeOK /\ Cleared
    BY <1>1 DEF IInv
  <2>2. CASE run_preprocessor \/ read_file \/ Edit
    BY <2>2 DEF run_preprocessor, read_file, Edit
  <2>3. CASE Start \/ Kill
    BY <2>3 DEF Start, Kill, Exit
  <2>4. CASE RemovePreprocessed \/ Assemble \/ Link
    BY <2>4 DEF RemovePreprocessed, Assemble, Link, Goto, after_as_failure
  <2>5. CASE lex \/ parse
    BY <2>1, <2>5 DEF lex, parse, history, Cleared, Gone, Generating
  <2>6. CASE OpenAssembly
    BY <2>1, <2>6 DEF OpenAssembly, Goto, history, Cleared, Gone, Generating
  <2>7. CASE emit
    BY <2>1, <2>7 DEF emit, Goto, history, Cleared, Gone, Generating
  <2>8. CASE RemoveAssembly
    <3>1. /\ file'["s"] = None \/ "s" \in kept'
          /\ file'["i"] = file["i"] /\ kept \subseteq kept'
      BY <2>1, <2>8, RemoveTypes DEF RemoveAssembly, remove_assembly
    <3> QED BY <2>1, <2>8, <3>1 DEF RemoveAssembly, Cleared, Gone, Generating
  <2> QED BY <1>1, <2>2, <2>3, <2>4, <2>5, <2>6, <2>7, <2>8 DEF Next, Step
<1>2. IInv /\ [Next]_vars => [Tidy]_vars
  BY <1>1
<1> QED BY <1>2, Inductive, PTL DEF Spec, LeavesNoMore

\* emit_code links what this run assembled, never an older object file.
THEOREM LinksCurrent == Spec => LinksThisRun
<1> DEFINE Linked == file'["out"] # file["out"] =>
                       \/ file'["out"] \in {seen, None}
                       \/ file'["out"] = Partial /\ status' = "killed"
<1>1. ASSUME IInv, Next PROVE Linked
  <2>0. TypeOK
    BY <1>1 DEF IInv
  <2>1. ASSUME NEW ext \in {"i", "s", "o"}, NEW v, Writes(ext, v)
        PROVE  file'["out"] = file["out"]
    BY <2>0, <2>1 DEF Writes, TypeOK
  <2>2. ASSUME NEW ext \in {"i", "s", "o"}, Spoils(ext)
        PROVE  file'["out"] = file["out"]
    BY <2>1, <2>2 DEF Spoils
  <2>3. CASE Link
    <3>1. file["o"] = seen
      BY <1>1, <2>3 DEF IInv, Fresh, Link
    <3> QED BY <2>0, <2>3, <3>1 DEF Link, Spoils, Writes, TypeOK
  <2>4. CASE Kill
    BY <2>0, <2>4 DEF Kill, Exit, Writes, TypeOK
  <2>5. CASE \/ Edit \/ Start \/ read_file \/ lex \/ parse
    BY <2>5 DEF Edit, Start, read_file, lex, parse
  <2>6. CASE run_preprocessor \/ Assemble
    BY <2>1, <2>2, <2>6 DEF run_preprocessor, Assemble
  <2>7. CASE RemovePreprocessed \/ OpenAssembly \/ emit \/ RemoveAssembly
    BY <2>1, <2>7
    DEF RemovePreprocessed, OpenAssembly, emit, RemoveAssembly, remove_assembly, Removes
  <2> QED BY <1>1, <2>3, <2>4, <2>5, <2>6, <2>7 DEF Next, Step
<1>2. IInv /\ [Next]_vars => [Linked]_vars
  BY <1>1
<1> QED BY <1>2, Inductive, PTL DEF Spec, LinksThisRun

=============================================================================
