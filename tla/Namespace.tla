------------------------------ MODULE Namespace ------------------------------
(***************************************************************************)
(* Names: path lookup (pfs_namei.cc), the directory operations              *)
(* (pfs_dir.cc), the in-memory directory index and its dxredo callback      *)
(* (pfs_inode.cc), and what they enter into and delete from the name cache. *)
(*                                                                         *)
(* A lookup takes and releases the locks once for every component of the    *)
(* path.  The operation then runs in a write transaction: it locks the      *)
(* parent directory, checks the path it has walked (pfs_path_check), and    *)
(* changes the metadata; the metadata lock is held until the transaction    *)
(* ends, the directory index is updated by a callback after that.           *)
(***************************************************************************)
EXTENDS Integers, Sequences, FiniteSets, TLC

CONSTANTS
    NThreads,
    Inos,        \* inode numbers, 0 is the root directory
    Paths,       \* paths the operations are called with: sequences of names
    Ops,         \* subset of {"open", "creat", "mkdir", "unlink", "rmdir", "rename", "evict"}
    MaxGen,      \* bound: births of one inode number (in_btime)
    NoThread,
    TxFails      \* transactions may fail

VARIABLES
    nphy,        \* [Inos -> physical inode, with its direntry]
    ndx,         \* [Inos -> in-memory directory index]
    ncache,      \* the name cache: set of [dir, name, ino]
    nmeta,       \* the thread in a write transaction, NoThread if none
    nthr         \* [NThreads -> an operation in progress]

nvars == <<nphy, ndx, ncache, nmeta, nthr>>

NoIno == -1
FreeInode(g) == [type |-> "none", par |-> NoIno, name |-> "", linked |-> FALSE, gen |-> g]
RootInode == [type |-> "dir", par |-> 0, name |-> "", linked |-> TRUE, gen |-> 0]

\* a lookup: the inode stack, the last two inode numbers, what was found
Ni(path) == [path |-> path, pos |-> 0, 
             stk |-> <<[ino |-> 0, gen |-> 0, name |-> "", type |-> "dir"]>>,
             ino |-> 0, par |-> 0, found |-> TRUE]
NIdle == [pc |-> "idle", op |-> "open", ni |-> Ni(<<>>), old |-> Ni(<<>>), undo |-> <<>>,
          redo |-> {}, rel |-> NoIno, err |-> FALSE, bad |-> ""]
NGo(t, r) == nthr' = [nthr EXCEPT ![t] = r]

Entries(p, d) == {e \in Inos \ {0} : p[e].linked /\ p[e].par = d}
Index(p, d) == {<<p[e].name, e>> : e \in Entries(p, d)}
LastName(ni) == ni.path[Len(ni.path)]
Top(ni) == ni.stk[Len(ni.stk)]
ParentOfTop(ni) == ni.stk[IF Len(ni.stk) = 1 THEN 1 ELSE Len(ni.stk) - 1]

\* pfs_inode_sync lets a thread pass into directory d
DirSynced(d) == ndx[d].cbdone
\* the index after pfs_inode_sync, which reloads a stale inode
pfs_inode_reload(d) ==
    IF ndx[d].stale THEN [ent |-> Index(nphy, d), stale |-> FALSE, cbdone |-> TRUE] ELSE ndx[d]

(***************************************************************************)
(* pfs_namei_lookup, one component of the path in a step.                   *)
(***************************************************************************)
\* the component was found: instk_push
Pushed(ni, e, name) ==
    [ni EXCEPT !.pos = @ + 1, !.par = ni.ino, !.ino = e, !.found = TRUE,
               !.stk = 
                   Append(@, [ino |-> e, gen |-> nphy[e].gen, name |-> name, type |-> nphy[e].type])]
\* it was not: the path is broken unless this was its last component
NotFound(ni) == [ni EXCEPT !.pos = @ + 1, !.par = ni.ino, !.ino = NoIno, !.found = FALSE]

Goes(r) == r.pc \in {"lookup", "lookup2"} /\ r.ni.pos < Len(r.ni.path) /\ r.ni.found
Name(r) == r.ni.path[r.ni.pos + 1]
Hits(d, name) == {c \in ncache : c.dir = d /\ c.name = name}

\* the name cache answers
LookupCached(t) ==
    LET r == nthr[t]
    IN  /\ Goes(r) /\ Name(r) # ".." /\ nmeta = NoThread
        /\ \E c \in Hits(Top(r.ni).ino, Name(r)) :
              NGo(t, [r EXCEPT !.ni = Pushed(r.ni, c.ino, Name(r))])
        /\ UNCHANGED <<nphy, ndx, ncache, nmeta>>

\* the directory index answers, and its answer enters the name cache
pfs_inode_dir_find(t) ==
    LET r == nthr[t]
        top == Top(r.ni)
        d == top.ino
        i == pfs_inode_reload(d)
        ent == {x \in i.ent : x[1] = Name(r)}
        isdir == nphy[d].type = "dir" /\ nphy[d].gen = top.gen
    IN  /\ Goes(r) /\ Name(r) # ".." /\ nmeta = NoThread
        /\ Hits(d, Name(r)) = {} /\ DirSynced(d)
        /\ \/ /\ isdir
              /\ ndx' = [ndx EXCEPT ![d] = i]
              /\ ncache' = ncache \union {[dir |-> d, name |-> x[1], ino |-> x[2]] : x \in ent}
              /\ IF ent = {} THEN NGo(t, [r EXCEPT !.ni = NotFound(r.ni)])
                 ELSE \E x \in ent : NGo(t, [r EXCEPT !.ni = Pushed(r.ni, x[2], Name(r))])
           \/ /\ ~isdir                                    \* ENOTDIR, ENOENT
              /\ NGo(t, NIdle)
              /\ UNCHANGED <<ndx, ncache>>
        /\ UNCHANGED <<nphy, nmeta>>

\* ".." pops the stack, and takes the parent's parent from the metadata
LookupDotdot(t) ==
    LET r == nthr[t]
        ni == r.ni
        p == ni.par
        unlinked == p # 0 /\ nphy[p].type = "dir" /\ ~nphy[p].linked
        popped == IF Len(ni.stk) > 1 THEN SubSeq(ni.stk, 1, Len(ni.stk) - 1) ELSE ni.stk
    IN  /\ Goes(r) /\ Name(r) = ".." /\ nmeta = NoThread
        /\ NGo(t, IF Top(ni).type # "dir" \/ nphy[p].type # "dir" THEN NIdle
                  ELSE IF unlinked THEN [NIdle EXCEPT !.bad = "dotdot"]
                  ELSE [r EXCEPT !.ni = [ni EXCEPT !.pos = @ + 1, !.stk = popped, !.ino = p,
                                                   !.par = nphy[p].par]])
        /\ UNCHANGED <<nphy, ndx, ncache, nmeta>>

\* pfs_path_check, under the metadata lock: the names and the inodes of the stack
\* are those on the way from the top of the stack to the root
pfs_path_check_Top(ni) ==
    LET s == Top(ni) IN Len(ni.stk) = 1 \/ (nphy[s.ino].linked /\ nphy[s.ino].gen = s.gen)
pfs_path_check(ni) ==
    \A i \in 2..Len(ni.stk) :
        LET s == ni.stk[i]
            p == nphy[s.ino]
        IN  /\ p.type # "none" /\ p.linked /\ p.gen = s.gen
            /\ p.name = s.name /\ p.par = ni.stk[i - 1].ino
            /\ i < Len(ni.stk) => p.type = "dir"

\* what a path means: the inode it leads to from the root, NoIno if none
RECURSIVE WalkFrom(_, _)
WalkFrom(d, path) ==
    IF path = <<>> THEN d
    ELSE LET es == {e \in Entries(nphy, d) : nphy[e].name = Head(path)}
         IN  IF es = {} \/ nphy[d].type # "dir" THEN NoIno
             ELSE WalkFrom(CHOOSE e \in es : TRUE, Tail(path))
Parent(path) == SubSeq(path, 1, Len(path) - 1)
(***************************************************************************)
(* The operations.                                                         *)
(***************************************************************************)
\* rename_mtx: one rename at a time
Start(t) ==
    /\ nthr[t].pc = "idle" /\ nthr[t].bad = ""
    /\ \E op \in Ops \ {"evict"}, path \in Paths :
          /\ op # "open" => \A i \in DOMAIN path : path[i] # ".."
          /\ op = "rename" => \A x \in NThreads : nthr[x].pc = "idle" \/ nthr[x].op # "rename"
          /\ NGo(t, [NIdle EXCEPT !.pc = "lookup", !.op = op, !.ni = Ni(path)])
    /\ UNCHANGED <<nphy, ndx, ncache, nmeta>>

\* the lookup is over: found, or not found with only the last component missing
Resolved(r, pc) ==
    /\ r.pc = pc
    /\ r.ni.pos = Len(r.ni.path) \/ ~r.ni.found
Broken(ni) == ~ni.found /\ ni.pos < Len(ni.path)
Found(r, pc) == Resolved(r, pc) /\ r.ni.found
Absent(r, pc) == Resolved(r, pc) /\ ~r.ni.found /\ ~Broken(r.ni)

\* the calls that end without a transaction: the path is broken, or it does not
\* exist (or exists) and the operation needs it to
Fails(t) ==
    LET r == nthr[t]
    IN  /\ \/ Resolved(r, "lookup") /\ (Broken(r.ni) \/ (~r.ni.found /\ r.op \notin {"creat", "mkdir"}))
           \/ Resolved(r, "lookup2") /\ Broken(r.ni)
           \/ Found(r, "lookup") /\ r.op \in {"unlink", "rmdir", "rename"} /\ Len(r.ni.stk) = 1
        /\ NGo(t, NIdle)
        /\ UNCHANGED <<nphy, ndx, ncache, nmeta>>

\* history: the inode the operation is about to act on is not what the path means
Missed(ni, path) == IF \E i \in DOMAIN ni.path : ni.path[i] = ".." THEN FALSE
                    ELSE WalkFrom(0, path) # Top(ni).ino

\* pfs_memdir_xlookup of an existing file
Open(t) ==
    LET r == nthr[t]
    IN  /\ Found(r, "lookup") /\ r.op \in {"open", "creat", "mkdir"} /\ nmeta = NoThread
        /\ NGo(t, IF pfs_path_check(r.ni) /\ Missed(r.ni, r.ni.path)
                  THEN [NIdle EXCEPT !.bad = "path"] ELSE NIdle)
        /\ UNCHANGED <<nphy, ndx, ncache, nmeta>>

\* a transaction body: the metadata becomes p, the directories of redo wait for it
Body(t, r, p, redo, rel, missed) ==
    /\ nphy' = p
    /\ nmeta' = t
    /\ ndx' = [d \in Inos |-> IF \E x \in redo : x.dir = d
                              THEN [pfs_inode_reload(d) EXCEPT !.cbdone = FALSE] ELSE ndx[d]]
    /\ NGo(t, [r EXCEPT !.pc = "tx", !.undo = nphy, !.redo = redo, !.rel = rel,
                        !.bad = IF missed THEN "path" ELSE ""])
Add(d, name, e) == [dir |-> d, op |-> "add", name |-> name, ino |-> e]
Del(d, name, e) == [dir |-> d, op |-> "del", name |-> name, ino |-> e]
pfs_namecache_delete_by_deno_Keep(es) == ncache
pfs_namecache_delete_by_deno(es) == {c \in ncache : c.ino \notin es}

\* pfs_memdir_xlookup with O_CREAT of a name that was not found
Create(t) ==
    LET r == nthr[t]
        d == Top(r.ni).ino
        name == LastName(r.ni)
        free == {e \in Inos \ {0} : nphy[e].type = "none" /\ nphy[e].gen < MaxGen}
        exists == \E x \in pfs_inode_reload(d).ent : x[1] = name
    IN  /\ Absent(r, "lookup") /\ r.op \in {"creat", "mkdir"}
        /\ nmeta = NoThread /\ DirSynced(d)
        /\ \/ /\ nphy[d].type # "dir" \/ ~pfs_path_check(r.ni) \/ exists \/ free = {}
              /\ NGo(t, NIdle)
              /\ UNCHANGED <<nphy, ndx, nmeta>>
           \/ /\ nphy[d].type = "dir" /\ pfs_path_check(r.ni) /\ ~exists
              /\ \E e \in free :
                    Body(t, r, [nphy EXCEPT ![e] =
                                 [type |-> IF r.op = "mkdir" THEN "dir" ELSE "file", par |-> d,
                                  name |-> name, linked |-> TRUE, gen |-> @.gen + 1]],
                         {Add(d, name, e)}, NoIno, Missed(r.ni, Parent(r.ni.path)))
        /\ UNCHANGED ncache

Unlinked(p, e) == [p EXCEPT ![e] = [@ EXCEPT !.linked = FALSE, !.par = NoIno, !.name = ""]]
\* pfs_dir_del refuses
CannotDel_Full(e, isdir) == (nphy[e].type = "dir") # isdir
CannotDel(e, isdir) ==
    (nphy[e].type = "dir") # isdir \/ (isdir /\ Entries(nphy, e) # {})

Remove(t) ==
    LET r == nthr[t]
        d == ParentOfTop(r.ni).ino
        e == Top(r.ni).ino
        cannot == ~pfs_path_check(r.ni) \/ CannotDel(e, r.op = "rmdir")
    IN  /\ Found(r, "lookup") /\ r.op \in {"unlink", "rmdir"} /\ Len(r.ni.stk) > 1
        /\ nmeta = NoThread /\ DirSynced(d)
        /\ IF cannot THEN NGo(t, NIdle) /\ UNCHANGED <<nphy, ndx, ncache, nmeta>>
           ELSE /\ Body(t, r, Unlinked(nphy, e), {Del(d, nphy[e].name, e)}, e,
                        Missed(r.ni, r.ni.path))
                /\ ncache' = pfs_namecache_delete_by_deno({e})

\* pfs_memdir_before_rename: the old path is found, the new one is looked up
BeforeRename(t) ==
    LET r == nthr[t]
    IN  /\ Found(r, "lookup") /\ r.op = "rename" /\ Len(r.ni.stk) > 1
        /\ \E path \in Paths :
              /\ \A i \in DOMAIN path : path[i] # ".."
              /\ NGo(t, [r EXCEPT !.pc = "lookup2", !.old = r.ni, !.ni = Ni(path)])
        /\ UNCHANGED <<nphy, ndx, ncache, nmeta>>
\* the way up from directory d meets e, within k steps
RECURSIVE Under(_, _, _)
Under(d, e, k) == d = e \/ (k > 0 /\ d \notin {0, NoIno} /\ Under(nphy[d].par, e, k - 1))
InOwnSubdir(d, e) == Under(d, e, Cardinality(Inos))

pfs_dir_move(p, e, nd, name) == [p EXCEPT ![e].par = nd, ![e].name = name]
\* pfs_dir_rename moves entry e to directory nd, over n if there is such an entry
pfs_dir_rename(e, nd, n, name) ==
    pfs_dir_move(IF n = NoIno THEN nphy ELSE Unlinked(nphy, n), e, nd, name)
CannotRename(e, nd, n) ==
    \/ nphy[nd].type # "dir" \/ n \in {0, e}
    \/ nphy[e].type = "dir" /\ InOwnSubdir(nd, e)
    \/ n # NoIno /\ CannotDel(n, nphy[e].type = "dir")

pfs_memdir_xrename(t) ==
    LET r == nthr[t]
        od == ParentOfTop(r.old).ino
        e == Top(r.old).ino
        n == IF r.ni.found THEN Top(r.ni).ino ELSE NoIno
        nd == IF r.ni.found THEN ParentOfTop(r.ni).ino ELSE Top(r.ni).ino
        name == LastName(r.ni)
        cannot ==
            \/ ~pfs_path_check(r.old) \/ ~pfs_path_check(r.ni) \/ CannotRename(e, nd, n)
            \/ n = NoIno /\ \E x \in pfs_inode_reload(nd).ent : x[1] = name
    IN  /\ r.op = "rename" /\ (Found(r, "lookup2") \/ Absent(r, "lookup2"))
        /\ nmeta = NoThread /\ DirSynced(od) /\ DirSynced(nd)
        /\ IF cannot THEN NGo(t, NIdle) /\ UNCHANGED <<nphy, ndx, ncache, nmeta>>
           ELSE /\ Body(t, r, pfs_dir_rename(e, nd, n, name),
                        {Del(od, nphy[e].name, e), Add(nd, name, e)}
                          \union (IF n = NoIno THEN {} ELSE {Del(nd, name, n)}),
                        n, Missed(r.old, r.old.path)
                           \/ WalkFrom(0, IF n = NoIno THEN Parent(r.ni.path) ELSE r.ni.path)
                                # Top(r.ni).ino)
                /\ ncache' = pfs_namecache_delete_by_deno({e, n})

\* the transaction ends; undone, it leaves the inodes it touched stale
TxEnd(t) ==
    LET r == nthr[t]
        touched == {e \in Inos : nphy[e] # r.undo[e]} \union {x.dir : x \in r.redo}
    IN  /\ r.pc = "tx"
        /\ nmeta' = NoThread
        /\ \/ /\ NGo(t, [r EXCEPT !.pc = "callback", !.undo = <<>>])
              /\ UNCHANGED <<nphy, ndx>>
           \/ /\ TxFails
              /\ nphy' = r.undo
              /\ ndx' = [d \in Inos |-> [ndx[d] EXCEPT !.stale = @ \/ d \in touched]]
              /\ NGo(t, [r EXCEPT !.pc = "callback", !.undo = <<>>, !.err = TRUE])
        /\ UNCHANGED ncache

\* pfs_inode_dir_update_done of each directory: the dxredo records are applied to
\* the index if the transaction is committed
pfs_inode_dxredo_apply(d, redo) ==
    LET of(op) == {<<x.name, x.ino>> : x \in {y \in redo : y.dir = d /\ y.op = op}}
    IN  (ndx[d].ent \ of("del")) \union of("add")
pfs_inode_dir_update_done(t) ==
    LET r == nthr[t]
    IN  /\ r.pc = "callback"
        /\ ndx' = [d \in Inos |->
                     IF \E x \in r.redo : x.dir = d
                     THEN [ndx[d] EXCEPT !.cbdone = TRUE,
                                         !.ent = IF r.err THEN @ ELSE pfs_inode_dxredo_apply(d, r.redo)]
                     ELSE ndx[d]]
        /\ NGo(t, IF r.rel # NoIno /\ ~r.err
                  THEN [NIdle EXCEPT !.pc = "release", !.op = r.op, !.rel = r.rel, !.bad = r.bad]
                  ELSE [NIdle EXCEPT !.bad = r.bad])
        /\ UNCHANGED <<nphy, ncache, nmeta>>

\* pfs_inode_release: the unlinked inode is freed by a transaction of its own
pfs_inode_release(t) ==
    LET r == nthr[t]
    IN  /\ r.pc = "release" /\ nmeta = NoThread
        /\ \/ /\ nphy' = [nphy EXCEPT ![r.rel] = FreeInode(@.gen)]
              /\ ndx' = [ndx EXCEPT ![r.rel].stale = TRUE]
           \/ TxFails /\ UNCHANGED <<nphy, ndx>>
        /\ NGo(t, [NIdle EXCEPT !.bad = r.bad])
        /\ UNCHANGED <<ncache, nmeta>>

\* evict_entries: the name cache drops an entry
evict_entries ==
    /\ "evict" \in Ops
    /\ \E c \in ncache : ncache' = ncache \ {c}
    /\ UNCHANGED <<nphy, ndx, nmeta, nthr>>

NInit ==
    /\ nphy = [e \in Inos |-> IF e = 0 THEN RootInode ELSE FreeInode(0)]
    /\ ndx = [e \in Inos |-> [ent |-> {}, stale |-> TRUE, cbdone |-> TRUE]]
    /\ ncache = {}
    /\ nmeta = NoThread
    /\ nthr = [t \in NThreads |-> NIdle]

NNext ==
    \/ \E t \in NThreads :
          \/ Start(t) \/ LookupCached(t) \/ pfs_inode_dir_find(t) \/ LookupDotdot(t)
          \/ Fails(t) \/ Open(t) \/ Create(t) \/ Remove(t) \/ BeforeRename(t)
          \/ pfs_memdir_xrename(t) \/ TxEnd(t) \/ pfs_inode_dir_update_done(t) \/ pfs_inode_release(t)
    \/ evict_entries

NSpec == NInit /\ [][NNext]_nvars

(***************************************************************************)
(* Properties.                                                             *)
(***************************************************************************)
\* Whatever is created, removed and renamed under a lookup that holds no lock
\* between its components, an operation acts on the inodes its paths mean when it
\* changes the metadata: pfs_path_check lets no other lookup through.
ActsOnItsPath == \A t \in NThreads : nthr[t].bad # "path"

\* Concurrent renames and removals leave a tree: every linked inode is reached from
\* the root, no directory has two entries of one name, and nothing hangs below what
\* is unlinked or is not a directory.
StaysATree ==
    \A e \in Inos \ {0} : nphy[e].linked =>
        /\ Under(nphy[e].par, 0, Cardinality(Inos))
        /\ nphy[nphy[e].par].type = "dir" /\ nphy[nphy[e].par].linked
        /\ \A x \in Inos \ {0, e} :
              ~(nphy[x].linked /\ nphy[x].par = nphy[e].par /\ nphy[x].name = nphy[e].name)

\* Outside transactions the name cache tells only entries that exist, whether the
\* transactions that deleted from it are committed or undone; and the index of a
\* directory that no callback is due for and that is not stale lists its entries.
CachesAgree ==
    /\ nmeta = NoThread =>
          \A c \in ncache : nphy[c.ino].linked /\ nphy[c.ino].par = c.dir /\ nphy[c.ino].name = c.name
    /\ \A d \in Inos : (nphy[d].type = "dir" /\ ndx[d].cbdone /\ ~ndx[d].stale)
                          => ndx[d].ent = Index(nphy, d)

\* "no delayed removal on directory currently" (pfs_namei.cc): a lookup of ".." never
\* finds that the directory it steps back to is unlinked.
DotdotIsLinked == \A t \in NThreads : nthr[t].bad # "dotdot"
=============================================================================
