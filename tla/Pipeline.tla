------------------------------ MODULE Pipeline ------------------------------
(***************************************************************************)
(* compileMain (src/src/driver.cpp) with runExeSnippet and runJIT          *)
(* (src/src/jit.cpp), emitObjectFile and linkExecutable (src/src/aot.cpp): *)
(* one invocation of hcc, from the options to the exit status, and the     *)
(* #exe{} snippets that run inside it through the runtime's one stream.    *)
(*                                                                         *)
(* What lexer, parser, codegen, LLVM and the C compiler make of the source *)
(* is a choice: every call that can fail does so or not.                   *)
(***************************************************************************)
EXTENDS Integers, Sequences

CONSTANTS
  MaxExe,    \* bound on the #exe{} blocks of the source
  MaxPrints, \* bound on the StreamPrint calls of a snippet
  Codes      \* what compiled code calls Exit with

ASSUME PipelineAssumption ==
  MaxExe \in Nat /\ MaxPrints \in Nat /\ Codes \subseteq Int

VARIABLES
  opts,     \* the options: [outExe, outObj, emitLL, noRun]
  stage,    \* the next thing compileMain does, "snippet", or "exit"
  rc,       \* the exit status, once stage = "exit"
  files,    \* the files written and not removed
  ran,      \* whether the program was started
  hc_stream,\* the stream buffer of the runtime: who printed each piece
  exes,     \* #exe{} blocks met
  printed,  \* history: pieces printed by the snippet that runs
  spliced,  \* the pieces the last snippet spliced in, and how many it printed
  ended     \* history: whether a snippet ended the process

hccVars == <<opts, stage, rc, files, ran, hc_stream, exes, printed, spliced, ended>>

build == <<opts, rc, files, ran, ended>>
exe   == <<hc_stream, exes, printed, spliced, ended>>

aotMode == opts.outExe \/ opts.outObj

Exit(n) == stage' = "exit" /\ rc' = n

\* Compiled code calls Exit(code); the status keeps the low byte of the code.
HC_Exit == \E code \in Codes : Exit(code % 256)

\* Compiled code throws what nobody catches.
Unhandled == Exit(1)

-----------------------------------------------------------------------------
(* Front end and #exe{} *)

\* Options, the prelude and the source file: unknown, not found, not readable.
Open ==
  /\ stage = "open"
  /\ \/ stage' = "parse" /\ UNCHANGED rc
     \/ \E n \in {1, 2} : Exit(n)
  /\ UNCHANGED <<opts, files, ran, exe>>

\* The buffer is handed out and stays in the runtime too.
HC_StreamGet_Keeps == UNCHANGED hc_stream

\* The buffer is handed out; the runtime starts a new one.
HC_StreamGet == hc_stream' = <<>>

\* The snippet has an error, or the JIT has: nothing is run, nothing spliced in,
\* and only the hook says so.
ExeFails ==
  /\ stage = "parse" /\ exes < MaxExe
  /\ exes' = exes + 1
  /\ spliced' = [who |-> <<>>, own |-> 0]
  /\ UNCHANGED <<build, stage, hc_stream, printed>>

ExeStart ==
  /\ stage = "parse" /\ exes < MaxExe
  /\ exes' = exes + 1 /\ printed' = 0 /\ stage' = "snippet"
  /\ HC_StreamGet
  /\ UNCHANGED <<build, spliced>>

HC_StreamPrint ==
  /\ stage = "snippet" /\ printed < MaxPrints
  /\ hc_stream' = Append(hc_stream, exes)
  /\ printed' = printed + 1
  /\ UNCHANGED <<build, stage, exes, spliced>>

\* Exit, or an exception nobody catches, ends the process: the compiler itself.
ExeExits ==
  /\ stage = "snippet"
  /\ (HC_Exit \/ Unhandled) /\ ended' = TRUE
  /\ UNCHANGED <<opts, files, ran, hc_stream, exes, printed, spliced>>

ExeEnds ==
  /\ stage = "snippet"
  /\ spliced' = [who |-> hc_stream, own |-> printed]
  /\ HC_StreamGet
  /\ stage' = "parse"
  /\ UNCHANGED <<build, exes, printed>>

-----------------------------------------------------------------------------
(* Back end *)

\* The end of parseProgram; --emit-llvm prints and, without -o and -c, is all.
Parsed ==
  /\ stage = "parse"
  /\ \/ stage' = "codegen" /\ UNCHANGED rc
     \/ Exit(1)
  /\ UNCHANGED <<opts, files, ran, exe>>

Codegen ==
  /\ stage = "codegen"
  /\ \/ Exit(1)
     \/ opts.emitLL /\ ~aotMode /\ Exit(0)
     \/ /\ ~(opts.emitLL /\ ~aotMode)
        /\ stage' = IF aotMode THEN "object" ELSE "jit"
        /\ UNCHANGED rc
  /\ UNCHANGED <<opts, files, ran, exe>>

\* The object file of -c, or a temporary next to the executable of -o.
emitObjectFile ==
  /\ stage = "object"
  /\ \/ Exit(1) /\ UNCHANGED files
     \/ Exit(1) /\ files' = files \cup {"obj"}
     \/ /\ files' = files \cup {"obj"}
        /\ IF opts.outExe THEN stage' = "link" /\ UNCHANGED rc ELSE Exit(0)
  /\ UNCHANGED <<opts, ran, exe>>

\* The temporary object file is never removed.
RemoveTemporary_Never(fs) == fs

RemoveTemporary(fs) == IF opts.outObj THEN fs ELSE fs \ {"obj"}

\* No runtime archive, no C compiler or a link error leave the object file.
linkExecutable ==
  /\ stage = "link"
  /\ \/ Exit(1) /\ UNCHANGED files
     \/ Exit(0) /\ files' = RemoveTemporary(files \cup {"exe"})
  /\ UNCHANGED <<opts, ran, exe>>

\* The JIT or a symbol it lacks fails; --no-run stops here; the program returns,
\* or ends itself and hcc with it.
runJIT ==
  /\ stage = "jit"
  /\ \/ Exit(1) /\ UNCHANGED ran
     \/ opts.noRun /\ Exit(0) /\ UNCHANGED ran
     \/ ~opts.noRun /\ ran' = TRUE /\ (Exit(0) \/ HC_Exit \/ Unhandled)
  /\ UNCHANGED <<opts, files, exe>>

HccInit ==
  /\ opts \in [outExe : BOOLEAN, outObj : BOOLEAN, emitLL : BOOLEAN, noRun : BOOLEAN]
  /\ stage = "open" /\ rc = 0 /\ files = {} /\ ran = FALSE
  /\ hc_stream = <<>> /\ exes = 0 /\ printed = 0 /\ spliced = [who |-> <<>>, own |-> 0]
  /\ ended = FALSE

HccNext ==
  \/ Open \/ ExeFails \/ ExeStart \/ HC_StreamPrint \/ ExeExits \/ ExeEnds
  \/ Parsed \/ Codegen \/ emitObjectFile \/ linkExecutable \/ runJIT
  \/ stage = "exit" /\ UNCHANGED hccVars

HccSpec == HccInit /\ [][HccNext]_hccVars

-----------------------------------------------------------------------------
(* Properties *)

Requested == (IF opts.outExe THEN {"exe"} ELSE {}) \cup (IF opts.outObj THEN {"obj"} ELSE {})

\* Exit status 0 means that what was asked for is there and nothing else: the
\* files of -o and -c and no temporary, or the program was run.  The exception is
\* a snippet that ends the process, with any status it likes: then nothing was
\* made, and nothing run.
ZeroMeansDelivered ==
  /\ stage = "exit" /\ rc = 0 /\ ~ended =>
       /\ files = Requested
       /\ ran = (~aotMode /\ ~opts.emitLL /\ ~opts.noRun)
  /\ ended => stage = "exit" /\ files = {} /\ ~ran

\* A snippet splices in all it printed and only that, whatever the snippets
\* before it printed or how they ended.
SpliceIsOwn ==
  /\ Len(spliced.who) = spliced.own
  /\ \A i, j \in 1..Len(spliced.who) : spliced.who[i] = spliced.who[j]
=============================================================================
