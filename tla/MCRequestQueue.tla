--------------------------- MODULE MCRequestQueue ---------------------------
(***************************************************************************)
(* Requests and what they do to the directory tree: the request queue with  *)
(* clients that are killed (RequestQueue), and two threads that work on     *)
(* paths (Namespace). TLC explores one of them at a time: "part" says       *)
(* which; the queue stays in its initial state then, or the variables of    *)
(* the directories are Off.                                                 *)
(***************************************************************************)
EXTENDS RequestQueue, Namespace, TLC

CONSTANTS c1, c2, w1, w2

VARIABLE part

\* Workers are bound round-robin.
RoundRobin == [w \in Workers |-> IF w = w1 THEN 1 ELSE (1 % NumQueues) + 1]
\* Names of one and two components, and the parent of a directory.
ShortPaths == {<<"a">>, <<"b">>, <<"a", "a">>, <<"a", "..">>}
\* The clients are interchangeable, and so are the workers of a single queue. The
\* threads of Namespace are the same model values as the clients.
Symmetry == Permutations(Clients) \union Permutations(Workers)

Off == "off"
NoNames == nphy = Off /\ ndx = Off /\ ncache = Off /\ nmeta = Off /\ nthr = Off

\* Three scopes of Namespace. "moves": directories are made, moved between two names and
\* removed, each inode is born once and no transaction fails. "files": the same for
\* files, which are created, moved and unlinked. "reuse": one name and no moves; inodes
\* are born again and transactions fail.
Scope == [moves |-> {"mkdir", "rename", "rmdir", "evict"},
          reuse |-> {"open", "mkdir", "rmdir", "evict"},
          files |-> {"creat", "unlink", "rename", "evict"}]

QueueInit ==
    /\ part \in {"queue"} \union DOMAIN Scope /\ Init
    /\ IF part = "queue" THEN NoNames ELSE NInit

InScope ==
    /\ \A t \in NThreads : nthr'[t].pc = "idle" \/ nthr'[t].op \in Scope[part]
    /\ part # "reuse" => /\ \A e \in Inos : nphy'[e].gen <= 1
                        /\ \A t \in NThreads : ~nthr'[t].err
    /\ part = "reuse" => \A t \in NThreads : nthr'[t].ni.path # <<"b">>

\* Bound: requests made by all clients, and clients killed, in one behaviour.
MaxEvents == 3
WithinBounds ==
    calls'[c1] + calls'[c2] + Cardinality({c \in Clients : pc'[c] = "dead"}) <= MaxEvents
QueueNext ==
    \/ part = "queue" /\ Next /\ WithinBounds /\ UNCHANGED <<part, nvars>>
    \/ part \in DOMAIN Scope /\ NNext /\ InScope /\ UNCHANGED <<part, vars>>
QueueSpec == QueueInit /\ [][QueueNext]_<<part, vars, nvars>>

\* Namespace: an operation acts on the inodes its path means, the directories stay a tree,
\* the directory indexes and the name cache agree with it, and ".." never leads to a
\* directory that is unlinked.
TreeSound == part # "queue" => ActsOnItsPath /\ StaysATree /\ CachesAgree /\ DotdotIsLinked
=============================================================================
