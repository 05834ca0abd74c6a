--------------------------- MODULE HttpProperties ---------------------------
(* What the HTTP client is checked for: connections have one owner and are  *)
(* not lost, answers are the request's own and whole, a request is repeated *)
(* only when that was announced, and all of this ends.                      *)
EXTENDS HttpClient

Pooled(fd) == {x \in Key \X (1 .. MaxPerHost) : x[2] <= Len(pool[x[1]]) /\ pool[x[1]][x[2]].fd = fd}

\* A socket is never in the pool twice, or in the pool and used, or used by two
\* requests; and one that is open has an owner that will close it, through
\* every retry, eviction, timeout and failure.  The exception is a handshake
\* that fails: openConnection leaves the socket open.
ConnectionsOwned ==
    \A fd \in Fd :
        LET owners == Cardinality(Owner(fd, Active)) + Cardinality(Pooled(fd))
        IN  /\ owners <= 1
            /\ sock[fd] \in {"opening", "open"} => owners = 1 \/ tls[fd] = "shaking"

\* The answer to a request is what the server sent for that request on the
\* connection the request is on, whole when its length was told, though the
\* connection carried others' answers before and the reader kept their rest.
\* Two answers may not be whole: one whose head was merged with that of an earlier
\* attempt, and a streamed one that ended with a chunk size that is no number.
OwnAnswer ==
    \A q \in Task : task[q].pc = "done" =>
        LET head == task[q].head  body == task[q].body
        IN  /\ head.q = q /\ head.fd = task[q].fd
            /\ \A i \in DOMAIN body : body[i].q = q /\ body[i].fd = task[q].fd
            /\ task[q].kind # "head" /\ head.mode \in {"length", "chunked"} /\ task[q].before = NoHead =>
                  \/ body = Parts(q, head.fd, head.n)
                            \o (IF head.mode = "chunked" THEN <<LastChunk(q, head.fd)>> ELSE <<>>)
                  \/ task[q].kind = "stream" /\ BrokenChunk(q, head.fd) \in Range(body)

\* A server handles a request once, or twice when one of its connections had
\* carried another request before, in whichever order; a streamed request is
\* never repeated.
SentAtMostTwice ==
    \A q \in Task :
        /\ Len(served[q]) <= IF task[q].kind = "stream" THEN 1 ELSE 2
        /\ Len(served[q]) = 2 =>
              /\ served[q][1] # served[q][2]
              /\ \E p \in Task \ {q} : Range(served[q]) \cap Range(served[p]) # {}

\* A request settles when servers answer or close, or the body is the user's
\* to read, however connections fail.  Two things nothing ends: a handshake whose
\* socket closes, and the body of a second attempt whose head was merged with
\* that of the first, which may be read as longer than it is.
RequestsSettle ==
    \A q \in Task :
        (task[q].pc = "connecting") ~>
            \/ task[q].pc \in {"done", "failed", "closed", "stream"}
            \/ task[q].pc = "handshake" /\ rclosed[task[q].fd]
            \/ task[q].pc = "body" /\ task[q].before # NoHead
=============================================================================
