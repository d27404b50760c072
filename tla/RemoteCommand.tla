--------------------------- MODULE RemoteCommand ---------------------------
(***************************************************************************)
(* One command on a remote machine: ost_utils.ssh, which shows and gathers *)
(* the output while the command runs, and ovirtlib's sshlib.Node, which    *)
(* waits for the exit status and reads the output after it.                *)
(*                                                                         *)
(* The remote program, the flow control of the connection and its loss are *)
(* the environment; paramiko's transport thread moves data into the        *)
(* channel between any two steps of the client.                            *)
(***************************************************************************)
EXTENDS Integers, Sequences

CONSTANTS Chunk,       \* the most that one recv takes, 1024 in the code
          Window,      \* what the remote may send before the client reads
          Tries,       \* SSH_TRIES_DEFAULT
          MaxLookups   \* rounds of syncutil.sync that TIMEOUT leaves room for

ASSUME SizesAssumption == {Chunk, Window, Tries, MaxLookups} \subseteq Nat \ {0}

VARIABLES client,      \* "ssh", "node" or "sftp"
          method,      \* the method of Node
          quiet,       \* ssh is called with show_output=False
          program,     \* what the remote command writes and how it exits
          sent,        \* how much of either stream it has written
          window,
          buf,         \* received by the channel, not read by the client
          chan,        \* [status, closed]; status "none" until it arrives
          lost,        \* the connection broke
          pc, tries, lookups,
          open,        \* the client holds a connection
          all,         \* what the client has read of either stream
          queue,       \* chunks to be shown
          shown,
          writable,    \* what select found ready to be written to
          seen         \* how much had arrived when either stream was last looked at

vars == <<client, method, quiet, program, sent, window, buf, chan, lost, pc, tries,
          lookups, open, all, queue, shown, writable, seen>>
remote == <<program, sent, window, buf, chan, lost>>

Streams == {"out", "err"}
\* output is a sequence of one-byte characters x and of halves c1, c2 of a two-byte one
Outputs == {<< >>, <<"x">>, <<"x", "c1", "c2">>, <<"x", "x", "x", "x">>}
Programs == [out : Outputs, err : {<< >>, <<"x">>}, status : {0, 1}]
Fits(p) == Len(p.out) + Len(p.err) <= Window

\* what each method does with the output of its command
Methods == [exec_command |-> "plain", set_mtu |-> "plain", change_active_slave |-> "plain",
            ping4 |-> "plain", global_replace_str_in_file |-> "plain", restart_service |-> "plain",
            assign_ip_with_dhcp_client |-> "plain", get_ipv4_of_interface |-> "text",
            lookup_ip_address_with_dns_query |-> "lookup", get_default_route_v6 |-> "route"]

Ended == pc \in {"returned", "returned_error", "raised"}
Flat(chunks) == LET f[i \in 0..Len(chunks)] == IF i = 0 THEN << >> ELSE f[i - 1] \o chunks[i]
                IN f[Len(chunks)]
Least(a, b) == IF a < b THEN a ELSE b
Take(s) == SubSeq(s, 1, Least(Chunk, Len(s)))
Rest(s) == SubSeq(s, Least(Chunk, Len(s)) + 1, Len(s))

-----------------------------------------------------------------------------
(* The remote side: writes what the window allows, exits, and hangs up.     *)

RemoteWrites(s) ==
    /\ open /\ ~chan.closed /\ pc \notin {"exec", "open_sftp", "put"}
    /\ sent[s] < Len(program[s])
    /\ window > 0
    /\ sent' = [sent EXCEPT ![s] = @ + 1]
    /\ buf' = [buf EXCEPT ![s] = Append(@, program[s][sent[s] + 1])]
    /\ window' = window - 1
    /\ UNCHANGED <<program, chan, lost>>

RemoteExits ==
    /\ open /\ ~chan.closed /\ pc \notin {"exec", "open_sftp", "put"}
    /\ \A s \in Streams : sent[s] = Len(program[s])
    /\ chan' = IF chan.status = "none" THEN [chan EXCEPT !.status = "exited"]
                                       ELSE [chan EXCEPT !.closed = TRUE]
    /\ UNCHANGED <<program, sent, window, buf, lost>>

ConnectionLost ==
    /\ open /\ ~chan.closed /\ chan.status = "none"
    /\ lost' = TRUE
    /\ chan' = [chan EXCEPT !.closed = TRUE]
    /\ UNCHANGED <<program, sent, window, buf>>

Remote ==
    /\ RemoteExits \/ ConnectionLost \/ \E s \in Streams : RemoteWrites(s)
    /\ UNCHANGED <<client, method, quiet, pc, tries, lookups, open, all, queue, shown, writable, seen>>
RemoteGoesOn ==
    /\ RemoteExits \/ \E s \in Streams : RemoteWrites(s)
    /\ UNCHANGED <<client, method, quiet, pc, tries, lookups, open, all, queue, shown, writable, seen>>

\* chan.exit_status, and what recv_exit_status returns: -1 if none came
ExitStatus == IF chan.status = "none" THEN -1 ELSE program.status

-----------------------------------------------------------------------------
(* Connecting.                                                              *)

Unread == <<all, queue, shown, writable, seen>>
Goto(where) == pc' = where

\* An exception goes to the caller, but sync takes any result of a later query that is not
\* the empty string for the address, and an exception is one.
Raising == IF client = "node" /\ Methods[method] = "lookup" /\ lookups > 1 THEN "returned_error" ELSE "raised"

\* get_ssh_client tries again after every error of the connection; Node does not
Connect ==
    /\ pc = "connect"
    /\ \/ /\ open' = TRUE
          /\ Goto(IF client = "sftp" THEN "open_sftp" ELSE "exec")
          /\ UNCHANGED tries
       \/ /\ client = "ssh"
          /\ tries' = tries - 1
          /\ Goto(IF tries = 1 THEN "raised" ELSE "connect")
          /\ UNCHANGED open
       \/ /\ client # "ssh"
          /\ Goto(Raising)
          /\ UNCHANGED <<open, tries>>
    /\ UNCHANGED <<remote, client, method, quiet, lookups, Unread>>

Exec ==
    /\ pc = "exec"
    /\ IF chan.closed                   \* open_session, exec_command or send raise
       THEN /\ Goto(Raising)
            /\ open' = (client = "ssh")      \* Node's finally closes; ssh has none
       ELSE /\ Goto(IF client = "ssh" THEN "select" ELSE "status")
            /\ UNCHANGED open
    /\ UNCHANGED <<remote, client, method, quiet, tries, lookups, Unread>>

-----------------------------------------------------------------------------
(* drain_ssh_channel                                                        *)

Select ==
    /\ pc = "select"
    /\ writable' = {s \in Streams : queue[s] # << >>}
    /\ Goto("recv")
    /\ UNCHANGED <<remote, client, method, quiet, tries, lookups, open, all, queue, shown, seen>>

QueuedInFrontMut(chunks, chunk) == <<chunk>> \o chunks
Queued(chunks, chunk) == Append(chunks, chunk)

\* at most one chunk of either stream per round, queued if it is to be shown
RecvFrom(s, next) ==
    /\ all' = [all EXCEPT ![s] = @ \o Take(buf[s])]
    /\ queue' = IF buf[s] = << >> \/ quiet THEN queue ELSE [queue EXCEPT ![s] = Queued(@, Take(buf[s]))]
    /\ buf' = [buf EXCEPT ![s] = Rest(@)]
    /\ window' = window + Len(Take(buf[s]))
    /\ seen' = [seen EXCEPT ![s] = sent[s]]
    /\ Goto(next)
    /\ UNCHANGED <<client, method, quiet, program, sent, chan, lost, tries, lookups, open, shown, writable>>
RecvOnCloseMut == pc = "recv" /\ chan.closed /\ RecvFrom("out", "recv_stderr")
Recv == pc = "recv" /\ RecvFrom("out", "recv_stderr")
RecvStderr == pc = "recv_stderr" /\ RecvFrom("err", "write")

\* the text stream takes no bytes: every chunk is decoded by itself
Decodes(chunk) == chunk[1] # "c2" /\ chunk[Len(chunk)] # "c1"

Write ==
    /\ pc = "write"
    /\ IF \A s \in writable : Decodes(Head(queue[s]))
       THEN /\ shown' = [s \in Streams |-> IF s \in writable THEN shown[s] \o Head(queue[s]) ELSE shown[s]]
            /\ queue' = [s \in Streams |-> IF s \in writable THEN Tail(queue[s]) ELSE queue[s]]
            /\ Goto("check")
       ELSE /\ Goto("raised")
            /\ UNCHANGED <<shown, queue>>
    /\ UNCHANGED <<remote, client, method, quiet, tries, lookups, open, all, writable, seen>>

DoneOnCloseMut == chan.closed
\* nothing is ever queued by a quiet call: for it the channel's end is enough
Done == chan.closed /\ \A s \in Streams : queue[s] = << >>
Check ==
    /\ pc = "check"
    /\ Goto(IF Done THEN "finish" ELSE "select")
    /\ UNCHANGED <<remote, client, method, quiet, tries, lookups, open, Unread>>

Finish ==
    /\ pc = "finish"
    /\ open' = FALSE
    /\ Goto("returned")
    /\ UNCHANGED <<remote, client, method, quiet, tries, lookups, Unread>>

-----------------------------------------------------------------------------
(* Node                                                                     *)

\* recv_exit_status blocks, and nothing reads the output while it does
AwaitStatus ==
    /\ pc = "status"
    /\ chan.status # "none" \/ chan.closed
    /\ Goto("read")
    /\ UNCHANGED <<remote, client, method, quiet, tries, lookups, open, Unread>>

\* stdout.read() and stderr.read() return at the end of the stream
ReadToEnd(s, next) ==
    /\ chan.closed
    /\ all' = [all EXCEPT ![s] = @ \o buf[s]]
    /\ buf' = [buf EXCEPT ![s] = << >>]
    /\ window' = window + Len(buf[s])
    /\ Goto(next)
    /\ UNCHANGED <<client, method, quiet, program, sent, chan, lost, tries, lookups, open, queue, shown, writable, seen>>

StatusUnseenMut(afterwards, failing) == afterwards
ByStatus(afterwards, failing) == IF ExitStatus = 0 THEN afterwards ELSE failing
Read == pc = "read" /\ ReadToEnd("out", ByStatus("close", "read_stderr"))
ReadStderr == pc = "read_stderr" /\ ReadToEnd("err", "close_raising")

\* the finally clause, then what the method makes of the output
LookupDone == all.out # << >>
NodeCloseMut == UNCHANGED open
NodeClose == open' = FALSE
Outcome ==
    CASE pc = "close_raising" -> Raising
      [] pc = "close" /\ Methods[method] = "route" -> "raised"      \* bytes have no find('via ')
      [] pc = "close" /\ Methods[method] = "lookup" /\ ~LookupDone -> "again"
      [] OTHER -> "returned"
Close ==
    /\ pc \in {"close", "close_raising"}
    /\ NodeClose
    /\ Goto(Outcome)
    /\ UNCHANGED <<remote, client, method, quiet, tries, lookups, Unread>>

\* syncutil.sync: a new connection and a new query, until TIMEOUT
LookupAgain ==
    /\ pc = "again"
    /\ \/ /\ lookups < MaxLookups
          /\ lookups' = lookups + 1
          /\ program' \in {p \in Programs : p.out \in {<< >>, <<"x">>} /\ p.err = << >>}
          /\ sent' = [s \in Streams |-> 0] /\ buf' = [s \in Streams |-> << >>]
          /\ window' = Window /\ chan' = [status |-> "none", closed |-> FALSE]
          /\ Goto("connect")
       \/ /\ lookups = MaxLookups
          /\ Goto("raised")
          /\ UNCHANGED <<lookups, program, sent, buf, window, chan>>
    /\ UNCHANGED <<client, method, quiet, lost, tries, open, Unread>>

\* sftp_put: the transport is turned into an sftp client before the try
OpenSftp ==
    /\ pc = "open_sftp"
    /\ Goto(IF chan.closed THEN "raised" ELSE "put")
    /\ UNCHANGED <<remote, client, method, quiet, tries, lookups, open, Unread>>
Put ==
    /\ pc = "put"
    /\ open' = FALSE
    /\ Goto(IF chan.closed THEN "raised" ELSE "returned")
    /\ UNCHANGED <<remote, client, method, quiet, tries, lookups, Unread>>

Client ==
    \/ Connect \/ Exec
    \/ Select \/ Recv \/ RecvStderr \/ Write \/ Check \/ Finish
    \/ AwaitStatus \/ Read \/ ReadStderr \/ Close \/ LookupAgain
    \/ OpenSftp \/ Put

Init ==
    /\ client \in {"ssh", "node", "sftp"}
    /\ method \in IF client = "node" THEN {"exec_command", "get_ipv4_of_interface",
                       "lookup_ip_address_with_dns_query", "get_default_route_v6"} ELSE {"exec_command"}
    /\ quiet \in IF client = "ssh" THEN BOOLEAN ELSE {FALSE}
    /\ program \in Programs
    /\ sent = [s \in Streams |-> 0] /\ buf = [s \in Streams |-> << >>]
    /\ window = Window /\ chan = [status |-> "none", closed |-> FALSE] /\ lost = FALSE
    /\ pc = "connect" /\ tries = Tries /\ lookups = 1 /\ open = FALSE
    /\ all = [s \in Streams |-> << >>] /\ queue = [s \in Streams |-> << >>]
    /\ shown = [s \in Streams |-> << >>] /\ writable = {} /\ seen = [s \in Streams |-> 0]

Terminated == Ended /\ UNCHANGED vars

Next == Client \/ Remote \/ Terminated

\* the client's thread runs, and a command that may write or exit does
Spec == Init /\ [][Next]_vars /\ WF_vars(Client) /\ WF_vars(RemoteGoesOn)

-----------------------------------------------------------------------------
(* Properties.                                                              *)

\* The window counts what lies unread; a client reads a stream in order, without gaps,
\* and shows it in order too.
TypeOK ==
    /\ client \in {"ssh", "node", "sftp"} /\ method \in DOMAIN Methods /\ program \in Programs
    /\ quiet \in BOOLEAN /\ (quiet => client = "ssh")
    /\ window = Window - Len(buf.out) - Len(buf.err)
    /\ chan.status \in {"none", "exited"} /\ chan.closed \in BOOLEAN /\ lost \in BOOLEAN
    /\ tries \in 0..Tries /\ lookups \in 1..MaxLookups
    /\ open \in BOOLEAN /\ writable \subseteq Streams
    /\ \A s \in Streams :
         /\ all[s] \o buf[s] = SubSeq(program[s], 1, sent[s])
         /\ client = "ssh" /\ ~quiet => all[s] = shown[s] \o Flat(queue[s])

\* The command did not end well, or was never started.
Failed == ExitStatus # 0 \/ ~(\E s \in Streams : sent[s] > 0 \/ chan.closed)

\* What the caller is told is what happened.  Node returns only the whole output of a
\* command that exited with 0, and raises only if it did not, if the connection failed
\* or if the method failed on the output.  A lookup raises what its first query raises, or
\* Timeout after answers that were all empty; the error of a later query it returns as the
\* address, and no other method returns an error.  ssh returns the command's status, unless
\* the connection was lost, and has shown all it returns if it was to show it.
HonestResult ==
    /\ pc = "returned" /\ client = "node" => program.status = 0 /\ all.out = program.out
    /\ pc = "returned" /\ client = "ssh" => (ExitStatus = program.status \/ lost) /\ (quiet \/ shown = all)
    /\ pc = "raised" /\ client = "node" /\ Methods[method] \in {"plain", "text"} => Failed
    /\ pc = "raised" /\ client = "node" /\ Methods[method] = "lookup"
         => \/ lookups = 1 /\ Failed
            \/ lookups = MaxLookups /\ ExitStatus = 0 /\ ~LookupDone
    /\ pc = "returned_error" => client = "node" /\ Methods[method] = "lookup" /\ lookups > 1 /\ Failed

\* The loop of drain_ssh_channel may end with output unread, but only with output that
\* came after its last look at the stream: closed channel and empty queues are not
\* believed before a look that found nothing.  With show_output=False they are: of what has
\* come by the last look no more than one chunk is sure to be returned.
LosesOnlyWhatCameLate ==
    pc \in {"finish", "returned"} /\ client = "ssh"
        => \A s \in Streams : Len(all[s]) >= IF quiet THEN Least(Chunk, seen[s]) ELSE seen[s]

\* Node never leaves its connection open, sftp only if the transport failed before the
\* try, ssh only when it raises: a lost connection or half a character in a chunk.
ClosesConnection ==
    Ended /\ open => pc = "raised" /\ (client = "sftp" => chan.closed)
                                   /\ client # "node"

\* A command ends: always for ssh, which reads while it waits; for Node, which reads
\* after it has waited, if the output fits the window.
CommandEnds == (client = "node" => Fits(program)) ~> Ended
=============================================================================
