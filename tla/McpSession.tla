----------------------------- MODULE McpSession -----------------------------
(***************************************************************************)
(* One session of a retained QA client (docs/qa) with the stdio MCP server *)
(* (crexxrag_cli.crexx, ragmcp.crexx) over a library to which other        *)
(* processes may publish.  The client keeps one request outstanding, waits *)
(* for the first byte of its answer under a guard of 120 seconds, then     *)
(* reads to the end of the line without one.  The server answers a request *)
(* with one line, a notification with none, and stops when its input ends. *)
(*                                                                         *)
(* Answers carry what the clients compare: the request they answer,        *)
(* whether it failed, the state of the library they were read from and a   *)
(* page of a listing.  Similar questions stand for one; ranking, evidence  *)
(* bounds, timings and the text of the files are left out.                 *)
(***************************************************************************)
EXTENDS Integers, Sequences, SequencesExt, FiniteSets

CONSTANTS
    Scripts,    \* the clients that may run
    Sources,    \* source_id of the sources, in their order
    Known,      \* the sources the library starts with
    Limit,      \* sources (or characters of a citation) in one page
    Span,       \* characters of the cited text
    MaxFaults,  \* model bound: a server that hangs or crashes
    MaxEvents   \* model bound: faults and transactions of other processes

ASSUME McpAssumption ==
    /\ Scripts \subseteq {"run_mcp", "test5_mcp", "probe_wide", "measure_mcp",
                          "smoke_measure", "answer_path", "followups", "smoke_followups"}
    /\ Sources \subseteq Nat \ {0} /\ IsFiniteSet(Sources) /\ Known \subseteq Sources
    /\ Limit \in Nat \ {0} /\ Span \in Nat \ {0}
    /\ MaxFaults \in Nat /\ MaxEvents \in Nat

VARIABLES
    script,    \* the client
    recorded,  \* what an earlier session left in the output directory:
               \* "none", "failed" (an answer without evidence), "answer"
    step,      \* the next step of the script
    at,        \* where the client is
    raised,    \* the exception on its way: "no", "yes", or "pipe" when bytes
               \* are left that the server will not take
    sequence,  \* the id of the last request
    answer,    \* the id in the answer saved last
    page,      \* the listing being read: got, seen, cursor
    listed,    \* the sources listed
    packet,    \* what the last evidence was read from, NoView before that
    shots,     \* snapshots of the library
    failures,  \* the failed checks
    status,    \* the exit status, -1 before the end
    inp, out,  \* the pipes: requests; complete lines
    server,    \* its state, the answer it writes, its exit code
    lib,       \* the library
    begun,     \* history: the library when the first snapshot was complete
    mixed,     \* history: an answer before the second snapshot was read from
               \* another library than that one
    writes, faults

clientVars == <<step, at, raised, sequence, answer, page, listed, packet, failures, status>>
shotVars == <<shots, begun>>
worldVars == <<lib, writes, faults>>
vars == <<script, recorded, clientVars, shotVars, inp, out, server, mixed, worldVars>>

-----------------------------------------------------------------------------
(* The scripts. *)

Call(tool)   == [do |-> "call", on |-> tool, into |-> ""]
Notify       == [do |-> "notify", on |-> "", into |-> ""]
Recall       == [do |-> "recall", on |-> "", into |-> ""]
Compare(n)   == [do |-> "compare", on |-> n, into |-> ""]
Read(w, n)   == [do |-> "read", on |-> w, into |-> n]

(* Eight counts, five hashes, the metadata and PRAGMA data_version, each a *)
(* statement of its own: nothing holds the library still between them.     *)
Snapshot(n) == <<Read("counts", n), Read("hashes", n), Read("meta", n), Read("version", n)>>

Checked(listing) ==
    Snapshot("before")
    \o <<Call("initialize"), Notify, Call("tools"), Call("denied"), Call("status")>>
    \o listing
    \o <<Call("inspect"), Call("repeat"), Call("cite"), Call("citation")>>
    \o Snapshot("readonly") \o <<Compare("readonly"), Call("path")>>
    \o Snapshot("after") \o <<Compare("after")>>

(* The first edition of run_mcp asked for an overview as well. *)
RunMcp == Checked(<<Call("sources")>>)
Test5Mcp == Checked(<<Call("sources"), Call("overview")>>)

ProbeWide ==
    <<Read("version", "before"), Call("initialize"), Notify, Call("inspect"), Call("denied")>>

MeasureMcp ==
    <<Call("initialize"), Notify, Call("tools"), Call("status"), Call("overview"),
      Call("inspect"), Call("repeat"), Call("cite")>>

SmokeMeasureMcp == MeasureMcp

AnswerPath ==
    <<Call("initialize"), Notify, Call("status"), Call("path"), Call("inspect"), Call("answer")>>

Followups ==
    <<Call("initialize"), Notify, Call("sources"), Call("inspect"), Recall, Call("path"),
      Recall, Call("cite")>>

SmokeFollowups ==
    <<Call("initialize"), Call("sources"), Recall, Call("inspect"), Call("cite")>>

Session ==
    CASE script = "run_mcp"         -> RunMcp
      [] script = "test5_mcp"       -> Test5Mcp
      [] script = "probe_wide"      -> ProbeWide
      [] script = "measure_mcp"     -> MeasureMcp
      [] script = "smoke_measure"   -> SmokeMeasureMcp
      [] script = "answer_path"     -> AnswerPath
      [] script = "followups"       -> Followups
      [] script = "smoke_followups" -> SmokeFollowups

Now      == Session[step]
Checking == script \in {"run_mcp", "test5_mcp"}
Probing  == script = "probe_wide"

-----------------------------------------------------------------------------
(* The library and the server's answers. *)

NoReply == [id |-> 0]
Empty == [got |-> <<>>, seen |-> {}, cursor |-> 0]
NoView == [gen |-> 0]

Open(view) == view.rows \ view.closed

(* What retrieval reads: accounts of provider runs and gaps are no part.   *)
Retrieved(view) ==
    [gen |-> view.gen, rows |-> view.rows, closed |-> view.closed, other |-> view.other]

(* ORDER BY: the numbers of S from the smallest to the largest.            *)
InOrder(S) ==
    CHOOSE s \in [1..Cardinality(S) -> S] :
        Range(s) = S /\ \A i, j \in DOMAIN s : i < j => s[i] < s[j]

After(S, cursor) == InOrder({s \in S : s > cursor})

(* Fault: the cursor counts the rows returned. *)
OffsetPage(S, cursor) ==
    LET all == InOrder(S)
        last == IF Len(all) > cursor + Limit THEN cursor + Limit ELSE Len(all)
    IN [items |-> SubSeq(all, cursor + 1, last), next |-> IF Len(all) > last THEN last ELSE 0]

(* A key after the last one returned, and one row more than the page to    *)
(* know whether another follows.                                           *)
Page(S, cursor) ==
    LET rest == After(S, cursor)
        items == SubSeq(rest, 1, IF Len(rest) > Limit THEN Limit ELSE Len(rest))
    IN [items |-> items, next |-> IF Len(rest) > Limit THEN Last(items) ELSE 0]

Whole(S) == [items |-> InOrder(S), next |-> 0]

(* A listing of another limit than run_mcp's returns it in one page.       *)
Content(view, request) ==
    CASE request.tool = "sources" /\ Checking -> Page(Open(view), request.cursor)
      [] request.tool = "sources" /\ ~Checking -> Whole(Open(view))
      [] request.tool = "citation" -> Page(1..Span, request.cursor)
      [] request.tool = "cite" -> Whole(1..Span)
      [] OTHER -> [items |-> <<>>, next |-> 0]

Denied(tool) == tool = "denied"
Protocol(tool) == tool \in {"initialize", "tools"}

Answers(request) ==
    {[id |-> request.id, tool |-> request.tool, failed |-> f, view |-> lib,
      items |-> IF f THEN <<>> ELSE Content(lib, request).items,
      next  |-> IF f THEN 0 ELSE Content(lib, request).next] :
        f \in CASE Denied(request.tool)   -> {TRUE}
                [] Protocol(request.tool) -> {FALSE}
                [] OTHER                  -> BOOLEAN}

Commit(l) == [l EXCEPT !.commits = @ + 1]

(* mcpdispatchsession and the loop around it: the whole answer is computed *)
(* from one read snapshot; a path query also records its gap.              *)
Dispatch ==
    /\ server.state = "idle" /\ inp # <<>>
    /\ IF Head(inp).id = 0
       THEN UNCHANGED <<server, lib>>
       ELSE \E a \in Answers(Head(inp)) :
              /\ server' = [server EXCEPT !.state = "answering", !.reply = a]
              /\ lib' = IF a.tool = "path" /\ ~a.failed
                        THEN Commit([lib EXCEPT !.gaps = @ + 1]) ELSE lib
    /\ inp' = Tail(inp)
    /\ UNCHANGED <<script, recorded, clientVars, shotVars, out, mixed, writes, faults>>

(* say: a long line reaches the client in parts.                           *)
Say ==
    /\ server.state = "answering"
    /\ server' = [server EXCEPT !.state = "writing"]
    /\ UNCHANGED <<script, recorded, clientVars, shotVars, inp, out, mixed, worldVars>>

Said ==
    /\ server.state = "writing"
    /\ out' = Append(out, server.reply)
    /\ server' = [server EXCEPT !.state = "idle", !.reply = NoReply]
    /\ UNCHANGED <<script, recorded, clientVars, shotVars, inp, mixed, worldVars>>

Gone == server.state = "gone"

(* lines("stdin") is 0 at the end of the input.                            *)
ServerEnds ==
    /\ server.state = "idle" /\ inp = <<>> /\ server.eof
    /\ server' = [server EXCEPT !.state = "gone", !.code = 0]
    /\ UNCHANGED <<script, recorded, clientVars, shotVars, inp, out, mixed, worldVars>>

Terminated ==
    /\ server.told /\ ~Gone
    /\ server' = [server EXCEPT !.state = "gone", !.code = 15]
    /\ inp' = <<>>
    /\ UNCHANGED <<script, recorded, clientVars, shotVars, out, mixed, worldVars>>

Crash ==
    /\ ~Gone /\ status = -1 /\ faults < MaxFaults /\ writes + faults < MaxEvents
    /\ server' = [server EXCEPT !.state = "gone", !.code = 1]
    /\ inp' = <<>> /\ faults' = faults + 1
    /\ UNCHANGED <<script, recorded, clientVars, shotVars, out, mixed, lib, writes>>

(* It stops where it is, half a line written or not, until it is killed.   *)
Hang ==
    /\ server.state \in {"idle", "answering", "writing"} /\ status = -1
    /\ faults < MaxFaults /\ writes + faults < MaxEvents
    /\ server' = [server EXCEPT !.state = IF @ = "writing" THEN "stalled" ELSE "hung"]
    /\ faults' = faults + 1
    /\ UNCHANGED <<script, recorded, clientVars, shotVars, inp, out, mixed, lib, writes>>

(* Another process commits: it publishes a source or retires one, records  *)
(* a provider run, or writes what no count or hash covers.                 *)
Committed ==
    {[lib EXCEPT !.gen = @ + 1, !.rows = @ \cup {s}] : s \in Sources \ lib.rows}
    \cup {[lib EXCEPT !.gen = @ + 1, !.closed = @ \cup {s}] : s \in Open(lib)}
    \cup {[lib EXCEPT !.runs = @ + 1], [lib EXCEPT !.other = @ + 1]}

(* Where it is the next thing to be read; a commit elsewhere is the same   *)
(* as one there, since no other step looks at the library.                 *)
LibraryIsNext ==
    \/ server.state = "idle" /\ inp # <<>>
    \/ at = "step" /\ step <= Len(Session) /\ Now.do = "read"
    \/ Probing /\ at = "waiting" /\ Gone

OtherWrites ==
    /\ writes + faults < MaxEvents /\ LibraryIsNext
    /\ writes' = writes + 1
    /\ \E l \in Committed : lib' = Commit(l)
    /\ UNCHANGED <<script, recorded, clientVars, shotVars, inp, out, server, mixed, faults>>

-----------------------------------------------------------------------------
(* The client. *)

Raise(why) == raised' = why /\ at' = "closing"

Proceed == step' = step + 1 /\ at' = "step"

(* run_mcp and probe_wide make their directory (exist_ok=False); the       *)
(* others write over what is there.                                        *)
Start ==
    /\ at = "start"
    /\ IF (Checking \/ Probing) /\ recorded # "none"
       THEN at' = "left" /\ status' = 1
       ELSE at' = "step" /\ UNCHANGED status
    /\ UNCHANGED <<script, recorded, step, raised, sequence, answer, page, listed, packet,
                   failures, shotVars, inp, out, server, mixed, worldVars>>

Seen(what) ==
    CASE what = "counts"  -> [sources |-> Cardinality(lib.rows), runs |-> lib.runs, gaps |-> lib.gaps]
      [] what = "hashes"  -> <<lib.rows, lib.closed>>
      [] what = "meta"    -> lib.gen
      [] what = "version" -> lib.commits

ReadSnapshot ==
    /\ at = "step" /\ step <= Len(Session) /\ Now.do = "read"
    /\ shots' = [shots EXCEPT ![Now.into] = [w \in (DOMAIN @) \cup {Now.on} |->
                    IF w = Now.on THEN Seen(w) ELSE @[w]]]
    /\ begun' = IF Now.into = "before" /\ Now.on = "version" THEN lib ELSE begun
    /\ Proceed
    /\ UNCHANGED <<script, recorded, raised, sequence, answer, page, listed, packet,
                   failures, status, inp, out, server, mixed, worldVars>>

(* Fault: counts, hashes and metadata are thought to be enough. *)
SameRows(a, b) == a.counts = b.counts /\ a.hashes = b.hashes /\ a.meta = b.meta

(* 'ordinary MCP Q&A makes no database writes', then the looser comparison *)
(* once path queries have recorded their gap.                              *)
SameLibrary(a, b) == a = b
SameCorpus(a, b) == a.meta = b.meta /\ a.hashes = b.hashes /\ a.counts.runs = b.counts.runs

CompareSnapshots ==
    /\ at = "step" /\ step <= Len(Session) /\ Now.do = "compare"
    /\ LET same == IF Now.on = "readonly" THEN SameLibrary(shots.before, shots.readonly)
                                          ELSE SameCorpus(shots.before, shots.after)
       IN failures' = IF same THEN failures ELSE failures \cup {Now.on}
    /\ Proceed
    /\ UNCHANGED <<script, recorded, raised, sequence, answer, page, listed, packet,
                   status, shotVars, inp, out, server, mixed, worldVars>>

Evidence == packet # NoView /\ Open(packet) # {}

(* A citation is read when the evidence before it has a passage.           *)
NothingToCite ==
    /\ at = "step" /\ step <= Len(Session) /\ Now.do = "call"
    /\ Now.on \in {"cite", "citation"} /\ ~Evidence /\ script # "followups"
    /\ failures' = IF Checking THEN failures \cup {"evidence"} ELSE failures
    /\ IF script = "smoke_followups" THEN Raise("yes") /\ UNCHANGED step
                                     ELSE Proceed /\ UNCHANGED raised
    /\ UNCHANGED <<script, recorded, sequence, answer, page, listed, packet, status,
                   shotVars, inp, out, server, mixed, worldVars>>

Guarded == ~Probing

(* A write after the server is gone fails, and fails again in close.       *)
SendRequest ==
    /\ at = "step" /\ step <= Len(Session) /\ Now.do = "call"
    /\ Now.on \in {"cite", "citation"} => Evidence \/ script = "followups"
    /\ sequence' = sequence + 1
    /\ IF Gone
       THEN Raise("pipe") /\ UNCHANGED inp
       ELSE /\ inp' = Append(inp, [id |-> sequence + 1, tool |-> Now.on, cursor |-> page.cursor])
            /\ at' = IF Guarded THEN "sent" ELSE "reading"
            /\ UNCHANGED raised
    /\ UNCHANGED <<script, recorded, step, answer, page, listed, packet, failures, status,
                   shotVars, out, server, mixed, worldVars>>

SendNotification ==
    /\ at = "step" /\ step <= Len(Session) /\ Now.do = "notify"
    /\ IF Gone
       THEN Raise("pipe") /\ UNCHANGED <<inp, step>>
       ELSE inp' = Append(inp, [id |-> 0, tool |-> "", cursor |-> 0])
            /\ Proceed /\ UNCHANGED raised
    /\ UNCHANGED <<script, recorded, sequence, answer, page, listed, packet, failures, status,
                   shotVars, out, server, mixed, worldVars>>

(* The follow-up scripts go on from an answer that an earlier script left. *)
ReadRecorded ==
    /\ at = "step" /\ step <= Len(Session) /\ Now.do = "recall"
    /\ IF recorded = "answer" THEN Proceed /\ UNCHANGED raised
                              ELSE Raise("yes") /\ UNCHANGED step
    /\ UNCHANGED <<script, recorded, sequence, answer, page, listed, packet, failures, status,
                   shotVars, inp, out, server, mixed, worldVars>>

(* select: the first byte of an answer, or the end of the server's output. *)
Readable == out # <<>> \/ server.state \in {"writing", "stalled", "gone"}

FirstByte ==
    /\ at = "sent" /\ Readable
    /\ at' = "reading"
    /\ UNCHANGED <<script, recorded, step, raised, sequence, answer, page, listed, packet,
                   failures, status, shotVars, inp, out, server, mixed, worldVars>>

(* Fault: the client goes on to its next request when the guard expires.   *)
OvertakenGuard ==
    /\ at = "sent" /\ ~Readable
    /\ Proceed
    /\ UNCHANGED <<script, recorded, raised, sequence, answer, page, listed, packet,
                   failures, status, shotVars, inp, out, server, mixed, worldVars>>

(* Fault: the client waits again when the guard expires.                   *)
RenewedGuard == at = "sent" /\ ~Readable /\ UNCHANGED vars

GuardExpires ==
    /\ at = "sent" /\ ~Readable
    /\ Raise("yes")
    /\ UNCHANGED <<script, recorded, step, sequence, answer, page, listed, packet,
                   failures, status, shotVars, inp, out, server, mixed, worldVars>>

(* The output ended inside a line or before it: no JSON to parse.          *)
OutputEnds ==
    /\ at = "reading" /\ out = <<>> /\ Gone
    /\ Raise("yes")
    /\ UNCHANGED <<script, recorded, step, sequence, answer, page, listed, packet,
                   failures, status, shotVars, inp, out, server, mixed, worldVars>>

(* The checks of rpc, and those the session makes on the answer.           *)
Unexpected(a) ==
    {c \in {"id", "outcome", "generation", "repeat"} :
        \/ c = "id" /\ a.id # sequence
        \/ c = "outcome" /\ a.failed # Denied(a.tool)
        \/ c = "generation" /\ a.tool \in {"status", "inspect", "repeat", "path"}
             /\ ~a.failed /\ a.view.gen # shots.before.meta
        \/ c = "repeat" /\ a.tool = "repeat" /\ ~a.failed /\ Retrieved(a.view) # packet}

Failed(a) ==
    CASE Checking -> Unexpected(a)
      [] Probing  -> IF a.failed # Denied(a.tool) THEN {"outcome"} ELSE {}
      [] OTHER    -> {}

(* Where the script indexes an answer that has no records, or asserts; a   *)
(* listing that failed has an empty list of them, or none at all when it   *)
(* is a JSON-RPC error.                                                    *)
Unusable(a) ==
    CASE Checking /\ a.failed /\ a.tool = "sources" -> BOOLEAN
      [] Checking -> {a.failed /\ a.tool \notin {"denied", "overview"}}
      [] Probing  -> {a.id # sequence}
      [] script \in {"measure_mcp", "smoke_measure"} -> {a.failed /\ a.tool = "status"}
      [] script = "smoke_followups" -> {a.failed /\ a.tool = "inspect"}
      [] OTHER -> {FALSE}

Paged(a) == Checking /\ a.tool \in {"sources", "citation"}

(* One page read: the cursor leads to the next one, a repeated one is an   *)
(* error, none ends the listing.                                           *)
TurnPage(a) ==
    LET got == page.got \o a.items
        all == IF a.tool = "sources" THEN shots.before.counts.sources ELSE Span
        exact == Len(got) = Cardinality(Range(got)) /\ Len(got) = all
    IN IF a.next = 0
       THEN /\ page' = Empty /\ Proceed /\ UNCHANGED raised
            /\ listed' = IF a.tool = "sources" THEN got ELSE listed
            /\ failures' = failures \cup Failed(a) \cup IF exact THEN {} ELSE {"pages"}
       ELSE /\ page' = [got |-> got, seen |-> page.seen \cup {a.next}, cursor |-> a.next]
            /\ failures' = failures \cup Failed(a)
            /\ IF a.next \in page.seen THEN Raise("yes") ELSE at' = "step" /\ UNCHANGED raised
            /\ UNCHANGED <<step, listed>>

ReadAnswer ==
    /\ at = "reading" /\ out # <<>>
    /\ \E a \in {Head(out)} : \E unusable \in Unusable(a) :
       /\ answer' = a.id
       /\ packet' = IF a.tool \notin {"inspect", "repeat"} THEN packet
                    ELSE IF a.failed THEN NoView ELSE Retrieved(a.view)
       /\ mixed' = (mixed \/ (a.view # begun /\ "version" \notin DOMAIN shots.readonly))
       /\ IF Paged(a) /\ ~unusable THEN TurnPage(a)
          ELSE /\ failures' = failures \cup Failed(a)
               /\ IF unusable THEN Raise("yes") /\ UNCHANGED step
                              ELSE Proceed /\ UNCHANGED raised
               /\ UNCHANGED <<page, listed>>
    /\ out' = Tail(out)
    /\ UNCHANGED <<script, recorded, sequence, status, shotVars, inp, server, worldVars>>

SessionOver ==
    /\ at = "step" /\ step > Len(Session)
    /\ at' = "closing"
    /\ UNCHANGED <<script, recorded, step, raised, sequence, answer, page, listed, packet,
                   failures, status, shotVars, inp, out, server, mixed, worldVars>>

(* finally: proc.stdin.close().  With bytes left to write it raises again, *)
(* and nothing after it is done.                                           *)
CloseInput ==
    /\ at = "closing"
    /\ IF raised = "pipe"
       THEN at' = "left" /\ status' = 1 /\ UNCHANGED server
       ELSE at' = "waiting" /\ server' = [server EXCEPT !.eof = TRUE] /\ UNCHANGED status
    /\ UNCHANGED <<script, recorded, step, raised, sequence, answer, page, listed, packet,
                   failures, shotVars, inp, out, mixed, worldVars>>

(* The server has ended: the last checks, the result and the exit status.  *)
LastChecks ==
    CASE Checking -> IF server.code = 0 THEN {} ELSE {"exit"}
      [] Probing  -> (IF server.code = 0 THEN {} ELSE {"exit"})
                     \cup IF lib.commits = shots.before.version THEN {} ELSE {"written"}
      [] OTHER    -> {}

(* Fault: the number of failures is the exit status. *)
FailureCount(failed) == Cardinality(failed)

ExitStatus(failed) == IF failed # {} \/ raised # "no" THEN 1 ELSE 0

Conclude ==
    /\ at \in {"waiting", "killing"} /\ Gone
    /\ at' = "done"
    /\ failures' = failures \cup LastChecks
    /\ status' = ExitStatus(failures')
    /\ UNCHANGED <<script, recorded, step, raised, sequence, answer, page, listed, packet,
                   shotVars, inp, out, server, mixed, worldVars>>

(* probe_wide waits once; the others terminate the server and wait again.  *)
WaitExpires ==
    /\ at = "waiting" /\ ~Gone
    /\ IF Probing
       THEN at' = "left" /\ status' = 1 /\ UNCHANGED server
       ELSE at' = "killing" /\ server' = [server EXCEPT !.told = TRUE] /\ UNCHANGED status
    /\ UNCHANGED <<script, recorded, step, raised, sequence, answer, page, listed, packet,
                   failures, shotVars, inp, out, mixed, worldVars>>

SecondWaitExpires ==
    /\ at = "killing" /\ ~Gone
    /\ at' = "left" /\ status' = 1
    /\ UNCHANGED <<script, recorded, step, raised, sequence, answer, page, listed, packet,
                   failures, shotVars, inp, out, server, mixed, worldVars>>

-----------------------------------------------------------------------------
Init ==
    /\ script \in Scripts /\ recorded \in {"none", "failed", "answer"}
    /\ recorded # "none" => Checking \/ Probing \/ script \in {"followups", "smoke_followups"}
    /\ step = 1 /\ at = "start" /\ raised = "no" /\ sequence = 0
    /\ answer = 0 /\ page = Empty /\ listed = <<>> /\ packet = NoView
    /\ shots = [n \in {"before", "readonly", "after"} |-> <<>>]
    /\ failures = {} /\ status = -1
    /\ inp = <<>> /\ out = <<>>
    /\ server = [state |-> "idle", reply |-> NoReply, code |-> -1, eof |-> FALSE, told |-> FALSE]
    /\ lib = [gen |-> 1, rows |-> Known, closed |-> {}, runs |-> 0, gaps |-> 0, other |-> 0,
              commits |-> 0]
    /\ begun = lib /\ mixed = FALSE /\ writes = 0 /\ faults = 0

Client ==
    \/ Start \/ ReadSnapshot \/ CompareSnapshots \/ NothingToCite \/ SendRequest
    \/ SendNotification \/ ReadRecorded \/ FirstByte \/ GuardExpires \/ OutputEnds
    \/ ReadAnswer \/ SessionOver \/ CloseInput \/ Conclude \/ WaitExpires
    \/ SecondWaitExpires

Server == Dispatch \/ Say \/ Said \/ ServerEnds \/ Terminated

Next == Client \/ Server \/ Crash \/ Hang \/ OtherWrites

(* A client that can move moves, and each of its waits has an end; nothing *)
(* is asked of the server.                                                 *)
Spec == Init /\ [][Next]_vars /\ WF_vars(Client)

-----------------------------------------------------------------------------
(* Properties. *)

(* Every variable has its type.  A client numbers its requests from 1 and  *)
(* leaves with an exit status of 0 or 1.                                   *)
TypeOK ==
    /\ script \in Scripts /\ recorded \in {"none", "failed", "answer"}
    /\ step \in 1..(Len(Session) + 1)
    /\ at \in {"start", "step", "sent", "reading", "closing", "waiting", "killing", "done", "left"}
    /\ raised \in {"no", "yes", "pipe"} /\ sequence \in Nat /\ answer \in Nat /\ mixed \in BOOLEAN
    /\ listed \in Seq(Sources) /\ page.cursor \in Nat
    /\ failures \subseteq {"id", "outcome", "generation", "repeat", "pages", "evidence",
                           "readonly", "after", "exit", "written"}
    /\ status \in -1..1 /\ (status # -1 <=> at \in {"done", "left"})
    /\ Len(inp) <= 2 /\ Len(out) <= 1
    /\ server.state \in {"idle", "answering", "writing", "hung", "stalled", "gone"}
    /\ lib.rows \subseteq Sources /\ lib.closed \subseteq lib.rows

(* An answer saved under the label of a request answers that request, also *)
(* for the clients that do not look at its id: a notification has no line  *)
(* of its own, and after the guard has expired nothing more is read        *)
(* (rpc, mcpdispatchsession).                                              *)
AnswersMatch == [][answer' # answer => answer' = sequence]_vars

(* The pages of a listing hold no source twice and every source that was   *)
(* there all the time, whatever is published between two pages (run_mcp's  *)
(* loop over rag_source_list; _page of ragrepository).                     *)
PagesAreExact ==
    /\ Cardinality(Range(page.got)) = Len(page.got)
    /\ listed # <<>> /\ "outcome" \notin failures =>
         /\ Cardinality(Range(listed)) = Len(listed)
         /\ Known \ lib.closed \subseteq Range(listed)

(* A session that run_mcp or probe_wide calls a success ran to its end,    *)
(* every answer up to the read-only comparison came from the library as it *)
(* was at the start, and run_mcp listed exactly its sources; whatever      *)
(* other processes wrote, and at whatever moment of a snapshot.            *)
CleanVerdict ==
    status = 0 /\ (Checking \/ Probing) =>
        /\ step = Len(Session) + 1 /\ server.code = 0
        /\ ~mixed
        /\ Checking => /\ Range(listed) = Open(begun)
                       /\ Cardinality(Open(begun)) = Len(listed)

(* A session ends, with no help from the server: every wait of a client    *)
(* has its limit, except the one for the rest of a line that has begun and *)
(* all reading of probe_wide.                                              *)
SessionEnds ==
    \/ <>(status # -1)
    \/ <>[](at = "reading" /\ (Guarded => server.state \in {"writing", "stalled"}))
=============================================================================
