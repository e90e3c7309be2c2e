----------------------------- MODULE XalWebView -----------------------------
(***************************************************************************)
(* The sign-in window (xal_webview_qt.cpp): show starts the process        *)
(* mcpelauncher-webview, reads once from its output and once from its      *)
(* errors, closes both pipes, waits for its end and looks for the final    *)
(* url in what was read.                                                   *)
(*                                                                         *)
(* Output comes in pieces: the start of a url with the prefix that was     *)
(* asked for, the rest of one, or text no url contains.  The process is    *)
(* external: it writes what it likes and ends when it likes, waits while a *)
(* pipe is full and is killed when it writes to a closed one.              *)
(***************************************************************************)
EXTENDS Naturals, Sequences, SequencesExt, FiniteSetsExt

CONSTANTS
  PipeSize,       (* pieces a pipe holds                                     *)
  ReadSize,       (* pieces one read takes                                   *)
  MaxWrites       (* bound: pieces the process writes                        *)

Pieces == {"prefix", "rest", "other"}

VARIABLES
  out,            (* the pipe of the output: pieces                          *)
  err,            (* the pipe of the errors: how many pieces                 *)
  child,          (* "running", "failed" (exit status) or "ended"            *)
  writes,
  parent,         (* where show is                                           *)
  result,         (* outputStdOut                                            *)
  url             (* what show returned                                      *)

childVars == <<child, writes>>
vars == <<out, err, childVars, parent, result, url>>

Init ==
  /\ out = <<>> /\ err = 0 /\ child = "running" /\ writes = 0
  /\ parent = "stdout" /\ result = <<>> /\ url = <<>>

-----------------------------------------------------------------------------
(* The process.                                                             *)
PipesOpen == parent \in {"stdout", "stderr"}

WriteOut ==
  /\ child = "running" /\ writes < MaxWrites /\ writes' = writes + 1
  /\ PipesOpen /\ Len(out) < PipeSize
  /\ \E p \in Pieces : out' = Append(out, p)
  /\ UNCHANGED <<err, child, parent, result, url>>

WriteErr ==
  /\ child = "running" /\ writes < MaxWrites /\ writes' = writes + 1
  /\ PipesOpen /\ err < PipeSize
  /\ err' = err + 1
  /\ UNCHANGED <<out, child, parent, result, url>>

(* WEXITSTATUS is 0 for a process a signal killed.                          *)
Killed ==
  /\ child = "running" /\ ~PipesOpen
  /\ child' = "ended"
  /\ UNCHANGED <<out, err, writes, parent, result, url>>

Exit ==
  /\ child = "running"
  /\ child' \in {"ended", "failed"}
  /\ UNCHANGED <<out, err, writes, parent, result, url>>

(* It waits for room in one pipe while show waits for data in the other.    *)
Stuck == (parent = "stdout" /\ err = PipeSize) \/ (parent = "stderr" /\ Len(out) = PipeSize)

-----------------------------------------------------------------------------
(* exec_get_stdout.  A read waits for data or for the end of the process.   *)
ReadStdout ==
  /\ parent = "stdout" /\ (out # <<>> \/ child # "running")
  /\ LET n == Min({ReadSize, Len(out)})
     IN  result' = SubSeq(out, 1, n) /\ out' = SubSeq(out, n + 1, Len(out))
  /\ parent' = "stderr"
  /\ UNCHANGED <<err, childVars, url>>

(* Mutant: the launcher keeps its writing end of the errors open, and the   *)
(* end of the process does not end them.                                    *)
ReadStderrOnly ==
  /\ parent = "stderr" /\ err > 0
  /\ err' = 0 /\ parent' = "wait"
  /\ UNCHANGED <<out, childVars, result, url>>

ReadStderr ==
  /\ parent = "stderr" /\ (err > 0 \/ child # "running")
  /\ err' = 0 /\ parent' = "wait"
  /\ UNCHANGED <<out, childVars, result, url>>

(* The place of the first piece of a set, from a place on, counted from 0   *)
(* as the code does; Npos when there is none.                               *)
Npos == MaxWrites + 1
FindFirst(s, pieces, from) ==
  Min({k \in from..(Len(s) - 1) : s[k + 1] \in pieces} \cup {Npos})
Substr(s, from, count) == SubSeq(s, from + 1, Min({from + count, Len(s)}))

(* Mutant: the text after the url is not cut off.                           *)
UrlToTheEnd(s) ==
  LET iurl == FindFirst(s, {"prefix"}, 0)
  IN  IF iurl = Npos THEN <<>> ELSE Substr(s, iurl, Npos)

(* The second argument of substr is a count, and the code passes a place.   *)
Url(s) ==
  LET iurl == FindFirst(s, {"prefix"}, 0)
      eurl == FindFirst(s, {"other"}, iurl)
  IN  IF iurl = Npos THEN <<>> ELSE Substr(s, iurl, eurl)

(* An output that is a url as it stands is found whole; the status of the   *)
(* process or a missing url end in an error for the user and no url.        *)
show ==
  /\ parent = "wait" /\ child # "running"
  /\ parent' = "returned"
  /\ url' = IF child = "failed" THEN <<>> ELSE Url(result)
  /\ UNCHANGED <<out, err, childVars, result>>

Launcher == ReadStdout \/ ReadStderr \/ show

Next == WriteOut \/ WriteErr \/ Killed \/ Exit \/ Launcher

Spec == Init /\ [][Next]_vars

-----------------------------------------------------------------------------
(* The values of the variables.                                             *)
TypeOK ==
  /\ out \in Seq(Pieces) /\ Len(out) <= PipeSize /\ err \in 0..PipeSize
  /\ child \in {"running", "failed", "ended"} /\ writes \in 0..MaxWrites
  /\ parent \in {"stdout", "stderr", "wait", "returned"}
  /\ result \in Seq(Pieces) /\ Len(result) <= ReadSize /\ url \in Seq(Pieces)

(* What show returns is a url with the prefix and nothing after it, or      *)
(* nothing, though the process may have printed other text as well.  The    *)
(* exception: text before the url, which makes the count too large.         *)
UrlOnly ==
  parent = "returned" /\ url # <<>> =>
    /\ url[1] = "prefix"
    /\ "other" \in ToSet(url) => result[1] # "prefix"

(* show gets through both reads and the wait for the process, whatever the  *)
(* process writes where, unless it fills the pipe that show does not read   *)
(* yet.                                                                     *)
ShowReturns == <>(parent = "returned" \/ Stuck)
=============================================================================
