----------------------------- MODULE ChatSerial -----------------------------
(***************************************************************************)
(* tools/chat.py on a serial port: the REPL, SerialBackend and ShellFramer *)
(* on the host, the Zephyr shell on the board, and the line between them.  *)
(*                                                                         *)
(* The board cannot be told to stop.  All the host knows of it is what it  *)
(* reads, in chunks cut anywhere, also inside the prompt; and the user may *)
(* press Ctrl-C between any two instructions.  `dirty` is the backend's    *)
(* record that a command may still be running.                             *)
(*                                                                         *)
(* The line carries items tagged with the command that printed them: its   *)
(* "echo", lines of "text", the "stats" footer, an "err" line, and the     *)
(* prompt in two halves, "p1" and "p2".  Generated text may itself look    *)
(* like a prompt at the start of a line, like an error line, or like the   *)
(* "dash" line that opens the footer; the bytes are the same.              *)
(***************************************************************************)
EXTENDS Naturals, Sequences

CONSTANTS
    MaxCmds,        \* bound on the commands typed
    MaxText,        \* bound on the lines of text a command prints
    MaxMimics,      \* bound on the lines of text that look like something else
    MaxSessions     \* bound on the starts of chat.py

ASSUME BoundsAssumption == {MaxCmds, MaxText, MaxMimics, MaxSessions} \subseteq Nat

VARIABLES
    busy,           \* the shell is in a command handler
    running,        \* the command it runs, or ran last
    budget,         \* lines of text the handler may still print
    rx,             \* lines typed that the shell has not started
    line,           \* bytes printed by the board that the host has not read
    pc,             \* where the REPL is: "input" or a phase of _run
    kind,           \* the REPL action in progress: "gen" or "info"
    cur,            \* number of the last command line written
    dirty,          \* SerialBackend.dirty
    batch,          \* items of the last chunk not yet turned into events
    fstate,         \* ShellFramer.state
    held,           \* part of a prompt the framer holds: "no", "half" or "whole"
    error,          \* _run saw an error line
    verdict,        \* how the last _run ended: "none", "ok" or "failed"
    shown,          \* history: commands whose output this _run has used
    open,           \* history: commands unfinished when _drain met silence
    refused,        \* history: commands that ended with an error line
    mimics,         \* history: lines of text that looked like something else
    interrupted,    \* history: a wait was abandoned, by Ctrl-C or by deadline
    orphan,         \* history: chat.py was started while the board was busy
    sessions        \* starts of chat.py so far

boardVars == <<busy, running, budget, rx>>
framerVars == <<batch, fstate, held>>
historyVars == <<shown, open, refused, mimics, interrupted, orphan, sessions>>
hostVars == <<pc, kind, cur, dirty, framerVars, error, verdict>>
vars == <<boardVars, line, hostVars, historyVars>>

Item(k) == [cmd |-> running, what |-> k]

Init ==
    /\ busy = FALSE /\ running = 0 /\ budget = 0 /\ rx = <<>> /\ line = <<>>
    /\ pc = "input" /\ kind = "gen" /\ cur = 0 /\ dirty = FALSE
    /\ batch = <<>> /\ fstate = "stream" /\ held = "no"
    /\ error = FALSE /\ verdict = "none"
    /\ shown = {} /\ open = {} /\ refused = {} /\ mimics = 0
    /\ interrupted = FALSE /\ orphan = FALSE /\ sessions = 1

-----------------------------------------------------------------------------
(* The board.  A command line typed while a handler runs waits in rx.       *)

ShellStarts ==
    /\ ~ busy /\ rx # <<>>
    /\ busy' = TRUE
    /\ running' = Head(rx) /\ rx' = Tail(rx)
    /\ budget' = MaxText
    /\ line' = Append(line, [cmd |-> Head(rx), what |-> "echo"])
    /\ UNCHANGED <<hostVars, historyVars>>

\* A command ends, after at most MaxText lines: the handlers have no endless
\* loop, and every chunk renews _run's deadline, so that one that printed
\* without end would hold the REPL for ever.
ShellPrints ==
    /\ busy /\ budget > 0
    /\ budget' = budget - 1
    /\ line' = Append(line, Item("text"))
    /\ UNCHANGED <<busy, running, rx, hostVars, historyVars>>

\* A line of text that looks like something else; what looks like a prompt has
\* the rest of its line behind it.
ShellMimics ==
    /\ busy /\ budget > 0 /\ mimics < MaxMimics
    /\ budget' = budget - 1
    /\ \E look \in {<<"p1", "p2", "text">>, <<"err">>, <<"dash">>} :
          line' = line \o [n \in DOMAIN look |-> Item(look[n])]
    /\ mimics' = mimics + 1
    /\ UNCHANGED <<busy, running, rx, hostVars, shown, open, refused, interrupted,
                   orphan, sessions>>

\* The handler returns, after its footer or an error line, and the shell
\* prints its prompt.
ShellReturns ==
    /\ busy
    /\ \E k \in {"stats", "err"} :
          /\ line' = line \o <<Item(k), Item("p1"), Item("p2")>>
          /\ refused' = IF k = "err" THEN refused \cup {running} ELSE refused
    /\ busy' = FALSE
    /\ UNCHANGED <<running, budget, rx, hostVars, shown, open, mimics, interrupted,
                   orphan, sessions>>

-----------------------------------------------------------------------------
(* The host.                                                                *)

NewFramer(s) == batch' = <<>> /\ fstate' = s /\ held' = "no"

\* One ser.read: any non-empty part of what has arrived.
Take ==
    \E n \in 1 .. Len(line) :
       /\ batch' = SubSeq(line, 1, n)
       /\ line' = SubSeq(line, n + 1, Len(line))

\* A prompt is the one thing printed without a newline.
EndsLine(i) == i.what \notin {"p1", "p2"}

\* The framer looks for a newline before it looks for a prompt: a prompt is
\* one only where the chunk ends behind it, else the head of a line of text.
PromptSeen(i) ==
    i.what = "p2" /\ held = "half" /\ Tail(batch) = <<>> /\ fstate # "echo"

\* _complete_line: what a line is taken for.  A footer is expected of a
\* generation only.
TakenFor(i) ==
    IF \/ held = "whole" \/ i.what = "echo"
       \/ i.what \in {"stats", "dash"} /\ ~ (pc = "run" /\ kind = "gen")
    THEN "text" ELSE i.what

\* The event ShellFramer.feed makes of an item, "" for none.  In state "echo"
\* everything through the first newline is dropped, in state "tail" all lines.
Event(i) ==
    CASE PromptSeen(i) -> "done"
      [] ~ PromptSeen(i) /\ ~ EndsLine(i) ->
            IF i.what = "p2" /\ held = "no" /\ fstate = "stream" THEN "text" ELSE ""
      [] EndsLine(i) ->
            IF fstate # "stream" \/ TakenFor(i) = "dash" THEN ""
            ELSE IF TakenFor(i) = "err" THEN "error" ELSE TakenFor(i)

\* ShellFramer.feed on one item.
Feed(i) ==
    /\ batch' = Tail(batch)
    /\ fstate' = IF ~ EndsLine(i) \/ fstate = "tail" THEN fstate
                 ELSE IF fstate = "stream" /\ TakenFor(i) \in {"stats", "dash"} THEN "tail"
                 ELSE "stream"
    /\ held' = IF fstate = "echo" \/ EndsLine(i) THEN "no"
               ELSE IF i.what = "p1" THEN "half" ELSE "whole"

\* The user enters something to send; _run begins.
EnterLine(k) ==
    /\ pc = "input" /\ cur < MaxCmds
    /\ kind' = k
    /\ pc' = IF dirty THEN "resync" ELSE "drain"
    /\ shown' = {} /\ verdict' = "none"
    /\ NewFramer("stream")
    /\ UNCHANGED <<boardVars, line, cur, dirty, error, open, refused, mimics, interrupted,
                   orphan, sessions>>

ResyncRead ==
    /\ pc = "resync" /\ batch = <<>>
    /\ Take
    /\ UNCHANGED <<boardVars, pc, kind, cur, dirty, fstate, held, error, verdict, historyVars>>

\* The rest of the chunk is dropped with the framer when the prompt is seen.
ResyncEvent ==
    /\ pc = "resync" /\ batch # <<>>
    /\ IF Event(Head(batch)) = "done"
       THEN dirty' = FALSE /\ pc' = "drain" /\ NewFramer("stream")
       ELSE Feed(Head(batch)) /\ UNCHANGED <<dirty, pc>>
    /\ UNCHANGED <<boardVars, line, kind, cur, error, verdict, historyVars>>

\* RESYNC_TIMEOUT is tested before every read, whatever has arrived.
ResyncTimeout ==
    /\ pc = "resync" /\ batch = <<>>
    /\ pc' = "input"
    /\ interrupted' = TRUE
    /\ NewFramer("stream")
    /\ UNCHANGED <<boardVars, line, kind, cur, dirty, error, verdict, shown, open, refused, mimics, orphan, sessions>>

\* _drain: read until nothing comes, or give up on a flooded line.
Drain ==
    /\ pc = "drain"
    /\ \/ /\ line = <<>> /\ pc' = "write"
          /\ open' = {rx[n] : n \in DOMAIN rx} \cup (IF busy THEN {running} ELSE {})
          /\ UNCHANGED line
       \/ /\ line # <<>>
          /\ \E n \in 1 .. Len(line) : line' = SubSeq(line, n + 1, Len(line))
          /\ pc' \in {"drain", "input"}
          /\ UNCHANGED open
    /\ UNCHANGED <<boardVars, kind, cur, dirty, framerVars, error, verdict, shown, refused,
                   mimics, interrupted, orphan, sessions>>

WriteCommand ==
    /\ pc = "write"
    /\ cur' = cur + 1
    /\ rx' = Append(rx, cur + 1)
    /\ NewFramer("echo")
    /\ error' = FALSE
    /\ pc' = "run"
    /\ UNCHANGED <<busy, running, budget, line, kind, dirty, verdict, historyVars>>

RunRead ==
    /\ pc = "run" /\ batch = <<>>
    /\ Take
    /\ UNCHANGED <<boardVars, pc, kind, cur, dirty, fstate, held, error, verdict, historyVars>>

\* Mutant: an error line ends the command at once, prompt or no prompt.
RunEventRaises ==
    /\ pc = "run" /\ batch # <<>>
    /\ LET i == Head(batch)
           e == Event(i)
       IN  /\ shown' = IF e = "" THEN shown ELSE shown \cup {i.cmd}
           /\ error' = (e = "error")
           /\ dirty' = (e = "error")
           /\ IF e \in {"done", "error"}
              THEN /\ pc' = "input" /\ NewFramer("stream")
                   /\ verdict' = IF e = "error" THEN "failed" ELSE "ok"
              ELSE Feed(i) /\ UNCHANGED <<pc, verdict>>
    /\ UNCHANGED <<boardVars, line, kind, cur, open, refused, mimics, interrupted, orphan,
                   sessions>>

\* Mutant: only the last event before the prompt is remembered.
RunEventForgets ==
    /\ pc = "run" /\ batch # <<>>
    /\ LET i == Head(batch)
           e == Event(i)
       IN  /\ shown' = IF e = "" \/ (e = "text" /\ error) THEN shown
                       ELSE shown \cup {i.cmd}
           /\ error' = (e = "error")
           /\ IF e = "done"
              THEN /\ pc' = "input" /\ NewFramer("stream")
                   /\ verdict' = IF error THEN "failed" ELSE "ok"
              ELSE Feed(i) /\ UNCHANGED <<pc, verdict>>
    /\ UNCHANGED <<boardVars, line, kind, cur, dirty, open, refused, mimics, interrupted,
                   orphan, sessions>>

\* One event of the loop in _run.  An error is kept until the prompt comes, and
\* no text is passed on after it.
RunEvent ==
    /\ pc = "run" /\ batch # <<>>
    /\ LET i == Head(batch)
           e == Event(i)
       IN  /\ shown' = IF e = "" \/ (e = "text" /\ error) THEN shown
                       ELSE shown \cup {i.cmd}
           /\ error' = (error \/ e = "error")
           /\ IF e = "done"
              THEN /\ pc' = "input" /\ NewFramer("stream")
                   /\ verdict' = IF error THEN "failed" ELSE "ok"
              ELSE Feed(i) /\ UNCHANGED <<pc, verdict>>
    /\ UNCHANGED <<boardVars, line, kind, cur, dirty, open, refused, mimics, interrupted,
                   orphan, sessions>>

\* Mutant: a timeout does not mark the backend dirty.
RunTimeoutClean ==
    /\ pc = "run" /\ batch = <<>> /\ line = <<>>
    /\ pc' = "input"
    /\ NewFramer("stream")
    /\ UNCHANGED <<boardVars, line, kind, cur, dirty, error, verdict, historyVars>>

\* Mutant: every empty read renews the deadline.
RunTimeoutNever ==
    /\ pc = "run" /\ batch = <<>> /\ line = <<>>
    /\ UNCHANGED vars

\* FIRST_BYTE_TIMEOUT or INTER_CHUNK_TIMEOUT: tested when a read came up empty.
RunTimeout ==
    /\ pc = "run" /\ batch = <<>> /\ line = <<>>
    /\ dirty' = TRUE
    /\ pc' = "input"
    /\ NewFramer("stream")
    /\ UNCHANGED <<boardVars, line, kind, cur, error, verdict, historyVars>>

\* Mutant: Ctrl-C leaves the backend clean.
CancelClean ==
    /\ pc # "input" /\ kind = "gen"
    /\ pc' = "input"
    /\ interrupted' = TRUE
    /\ NewFramer("stream")
    /\ UNCHANGED <<boardVars, line, kind, cur, dirty, error, verdict, shown, open, refused, mimics, orphan, sessions>>

\* Ctrl-C while a generation is anywhere in _run.
Cancel ==
    /\ pc # "input" /\ kind = "gen"
    /\ dirty' = TRUE
    /\ pc' = "input"
    /\ interrupted' = TRUE
    /\ NewFramer("stream")
    /\ UNCHANGED <<boardVars, line, kind, cur, error, verdict, shown, open, refused, mimics, orphan, sessions>>

\* chat.py ends (quit at the prompt, or Ctrl-C in /info or /load, which the
\* REPL does not catch) and is started again: a new backend on a freshly
\* opened port.
Restart ==
    /\ pc = "input" \/ kind = "info"
    /\ sessions < MaxSessions
    /\ sessions' = sessions + 1
    /\ dirty' = FALSE
    /\ pc' = "input"
    /\ line' = <<>>
    /\ orphan' = (orphan \/ busy \/ rx # <<>>)
    /\ NewFramer("stream")
    /\ UNCHANGED <<boardVars, kind, cur, error, verdict, shown, open, refused, mimics,
                   interrupted>>

-----------------------------------------------------------------------------

Board == ShellStarts \/ ShellPrints \/ ShellMimics \/ ShellReturns
Deadline == ResyncTimeout \/ RunTimeout
Host ==
    \/ ResyncRead \/ ResyncEvent
    \/ Drain \/ WriteCommand
    \/ RunRead \/ RunEvent
User == (\E k \in {"gen", "info"} : EnterLine(k)) \/ Cancel \/ Restart

Done == pc = "input" /\ cur = MaxCmds /\ ~ busy /\ rx = <<>>

Next == Board \/ Host \/ Deadline \/ User \/ (Done /\ UNCHANGED vars)

\* The host's code runs and its deadlines pass.  Nothing is assumed of the
\* board or of the user.
Spec == Init /\ [][Next]_vars /\ WF_vars(Host) /\ WF_vars(Deadline)

-----------------------------------------------------------------------------

TypeOK ==
    LET Items == [cmd  : 0 .. MaxCmds,
                  what : {"echo", "text", "stats", "err", "dash", "p1", "p2"}]
    IN  /\ busy \in BOOLEAN /\ running \in 0 .. MaxCmds /\ budget \in 0 .. MaxText
        /\ rx \in Seq(1 .. MaxCmds) /\ line \in Seq(Items)
        /\ pc \in {"input", "resync", "drain", "write", "run"}
        /\ kind \in {"gen", "info"}
        /\ cur \in 0 .. MaxCmds /\ dirty \in BOOLEAN
        /\ batch \in Seq(Items) /\ fstate \in {"echo", "stream", "tail"}
        /\ held \in {"no", "half", "whole"}
        /\ error \in BOOLEAN /\ verdict \in {"none", "ok", "failed"}
        /\ {shown, open, refused} \subseteq SUBSET (0 .. MaxCmds)
        /\ mimics \in 0 .. MaxMimics
        /\ interrupted \in BOOLEAN /\ orphan \in BOOLEAN
        /\ sessions \in 0 .. MaxSessions

\* chat.py met no command of an earlier session, and no text that looks like
\* something else.
Undisturbed == ~ orphan /\ mimics = 0

\* The answer shown to a question is the answer to that question: whatever was
\* interrupted, timed out or failed before, a command's text, error and stats
\* were printed by that command.  When chat.py was restarted over a running
\* command, or text imitated a prompt, it may be taken in by a command that was
\* still running when the line fell silent, never by one that had finished.
Pairing ==
    shown \subseteq {cur} \cup (IF Undisturbed THEN {} ELSE open)

\* When the backend believes the line is clean, the board is idle with nothing
\* typed ahead and nothing unread; so a command is never typed into a running
\* handler and _drain throws nothing away.
CleanMeansQuiet ==
    Undisturbed /\ ~ dirty /\ pc # "run" => ~ busy /\ rx = <<>> /\ line = <<>>

\* A command is reported as failed exactly when the board printed its error line,
\* however the line and the prompt behind it were cut into chunks.
VerdictIsTheBoards ==
    Undisturbed /\ verdict # "none" => (verdict = "failed" <=> cur \in refused)

\* A prompt will still appear on the line for a framer that starts now.
PromptToCome ==
    busy \/ rx # <<>> \/ \E n \in DOMAIN line : line[n].what = "p1"

\* A device error or a timeout never leaves the backend dirty when the prompt
\* was already read: unless a wait was abandoned, the resync of the next
\* command has a prompt to find; also after a restart over a running command,
\* and whatever the text of a generation looks like.
DirtIsRecoverable ==
    dirty /\ pc = "input" /\ ~ interrupted => PromptToCome

\* "a busy device finishes on its own; the next command waits for it": after
\* Ctrl-C the prompt that the next command waits for is one that still comes.
CancelIsRecoverable ==
    dirty /\ pc = "input" /\ Undisturbed => PromptToCome

\* Every line the user enters gets the REPL back, whether the board answers,
\* falls silent at any point, or is found busy by a new session: no wait on
\* a silent board is without a deadline.  What a command prints is taken to be
\* finite, as MaxText makes it; a board that never stopped printing would renew
\* the deadline with every chunk.
ReplReturns == pc # "input" ~> pc = "input"
=============================================================================
