------------------------------ MODULE NameCache ------------------------------
(***************************************************************************)
(* The name cache of pfs_namecache.cc: two hash tables (by name and by      *)
(* direntry number) and an LRU list over the same entries, grown one bucket *)
(* at a time by a maintenance thread while the other threads use them.      *)
(* Each step is what one thread does under one hold of nch_lock.            *)
(***************************************************************************)
EXTENDS Integers, Sequences, SequencesExt, FiniteSets, TLC

CONSTANTS
    Items,           \* what may be cached: names with their direntries
    MountOf,         \* [Items -> mount]
    NameHash,        \* [Items -> Nat]: calc_hash
    DenoHash,        \* [Items -> Nat]: calc_deno_hash
    MaxBuckets,      \* bound: size of the largest table, a power of two
    NcMax,           \* the values the option nc_max is set to
    MaxBucketLen     \* nc_max_bucket_len

VARIABLES
    nch,             \* [sz, name, deno]: the tables
    expand_info,     \* [on, bucket, sz, name, deno]: the tables under construction
    nc_lru,          \* the LRU list, most recently used first
    nc_max,
    nc_mounted       \* mounts that look names up

ncvars == <<nch, expand_info, nc_lru, nc_max, nc_mounted>>

SEARCH_DEPTH == 1
Buckets == 0..(MaxBuckets - 1)
EmptyTable == [b \in Buckets |-> {}]
Mounts == {MountOf[e] : e \in Items}
NoExpand == [on |-> FALSE, bucket |-> 0, sz |-> 1, name |-> EmptyTable, deno |-> EmptyTable]

\* the bucket a hash is looked for in: <<in the new table?, index>>
NcHead_NewFirst(hash) == <<expand_info.on, hash % (IF expand_info.on THEN expand_info.sz ELSE nch.sz)>>
NcHead(hash) ==
    LET idx == hash % nch.sz
    IN  IF ~expand_info.on \/ idx >= expand_info.bucket THEN <<FALSE, idx>>
        ELSE <<TRUE, hash % expand_info.sz>>
get_namehash_head(e) ==
    LET h == NcHead(NameHash[e]) IN IF h[1] THEN expand_info.name[h[2]] ELSE nch.name[h[2]]
get_denohash_head(e) ==
    LET h == NcHead(DenoHash[e]) IN IF h[1] THEN expand_info.deno[h[2]] ELSE nch.deno[h[2]]

\* LIST_REMOVE works on the entry, wherever it is
Without(tbl, es) == [b \in Buckets |-> tbl[b] \ es]
remove_entries(es) ==
    /\ nch' = [nch EXCEPT !.name = Without(@, es), !.deno = Without(@, es)]
    /\ expand_info' = [expand_info EXCEPT !.name = Without(@, es), !.deno = Without(@, es)]
    /\ nc_lru' = SelectSeq(nc_lru, LAMBDA x : x \notin es)

\* promote_entry, unless the entry was promoted within the LRU window
promote_entry(e) ==
    \/ nc_lru' = <<e>> \o SelectSeq(nc_lru, LAMBDA x : x # e)
    \/ nc_lru' = nc_lru

\* should_rehash, with the size hash_init gives the new tables
RECURSIVE PowerOf2(_, _)
PowerOf2(n, k) == IF k >= n THEN k ELSE PowerOf2(n, 2 * k)
should_rehash == nc_max > nch.sz * SEARCH_DEPTH /\ ~expand_info.on
\* rehash_namecache starts an expansion, or goes on without for lack of memory
Expand(now) ==
    IF ~should_rehash THEN {now}
    ELSE {now, [now EXCEPT !.on = TRUE, !.bucket = 0,
                           !.sz = PowerOf2((nc_max + SEARCH_DEPTH - 1) \div SEARCH_DEPTH, 1)]}

pfs_namecache_enter(e) ==
    LET there == e \in get_namehash_head(e)
        full == Cardinality(get_namehash_head(e)) >= MaxBucketLen
        nh == NcHead(NameHash[e])
        dh == NcHead(DenoHash[e])
        lru == <<e>> \o nc_lru
        gone == {lru[i] : i \in (nc_max + 1)..Len(lru)}           \* evict_entries
        in(tbl, isnew, h) == Without(IF h[1] = isnew THEN [tbl EXCEPT ![h[2]] = @ \union {e}] ELSE tbl, gone)
    IN  /\ MountOf[e] \in nc_mounted
        /\ \/ /\ there
              /\ promote_entry(e)
              /\ expand_info' \in Expand(expand_info)
              /\ UNCHANGED nch
           \/ /\ ~there /\ full                                     \* numrejects
              /\ expand_info' \in Expand(expand_info)
              /\ UNCHANGED <<nch, nc_lru>>
           \/ /\ ~there /\ ~full
              /\ nc_lru' = SubSeq(lru, 1, Len(lru) - Cardinality(gone))
              /\ nch' = [nch EXCEPT !.name = in(@, FALSE, nh), !.deno = in(@, FALSE, dh)]
              /\ expand_info' \in Expand([expand_info EXCEPT !.name = in(@, TRUE, nh),
                                                             !.deno = in(@, TRUE, dh)])
        /\ UNCHANGED <<nc_max, nc_mounted>>

pfs_namecache_delete_by_deno(e) ==
    /\ IF e \in get_denohash_head(e) THEN remove_entries({e})
       ELSE UNCHANGED <<nch, expand_info, nc_lru>>
    /\ UNCHANGED <<nc_max, nc_mounted>>

pfs_namecache_lookup(e) ==
    /\ e \in get_namehash_head(e)
    /\ promote_entry(e)
    /\ UNCHANGED <<nch, expand_info, nc_max, nc_mounted>>

\* the mount's last use of the cache; it waits for an expansion to end
MayClear_Always == TRUE
MayClear == ~expand_info.on
pfs_namecache_clear_mount(m) ==
    /\ m \in nc_mounted /\ MayClear
    /\ remove_entries({e \in UNION {IF expand_info.on /\ i < expand_info.bucket
                                    THEN expand_info.name[i] ELSE nch.name[i] : i \in 0..(nch.sz - 1)} :
                         MountOf[e] = m})
    /\ nc_mounted' = nc_mounted \ {m}
    /\ UNCHANGED nc_max

NcMount(m) ==
    /\ m \notin nc_mounted
    /\ nc_mounted' = nc_mounted \union {m}
    /\ UNCHANGED <<nch, expand_info, nc_lru, nc_max>>

\* one bucket of each table moves into the new tables; after the last one these
\* take the place of the old
Moved(new, old, b, hash) ==
    [x \in Buckets |-> new[x] \union {e \in old[b] : hash[e] % expand_info.sz = x}]
maintenance_thread ==
    LET b == expand_info.bucket
        name == Moved(expand_info.name, nch.name, b, NameHash)
        deno == Moved(expand_info.deno, nch.deno, b, DenoHash)
    IN  /\ expand_info.on
        /\ IF b + 1 = nch.sz
           THEN /\ nch' = [sz |-> expand_info.sz, name |-> name, deno |-> deno]
                /\ expand_info' = NoExpand
           ELSE /\ nch' = [nch EXCEPT !.name[b] = {}, !.deno[b] = {}]
                /\ expand_info' = [expand_info EXCEPT !.bucket = b + 1, !.name = name, !.deno = deno]
        /\ UNCHANGED <<nc_lru, nc_max, nc_mounted>>

\* the maintenance thread could not be created: free_expand_info
NoThreadForIt ==
    /\ expand_info.on /\ expand_info.bucket = 0
    /\ expand_info' = NoExpand
    /\ UNCHANGED <<nch, nc_lru, nc_max, nc_mounted>>

SetOption ==
    /\ nc_max' \in NcMax
    /\ UNCHANGED <<nch, expand_info, nc_lru, nc_mounted>>

NcInit ==
    /\ nch = [sz |-> 1, name |-> EmptyTable, deno |-> EmptyTable]
    /\ expand_info = NoExpand
    /\ nc_lru = <<>>
    /\ nc_max \in NcMax
    /\ nc_mounted = Mounts

NcNext ==
    \/ \E e \in Items : \/ pfs_namecache_enter(e) \/ pfs_namecache_delete_by_deno(e)
                        \/ pfs_namecache_lookup(e)
    \/ \E m \in Mounts : pfs_namecache_clear_mount(m) \/ NcMount(m)
    \/ maintenance_thread \/ NoThreadForIt \/ SetOption

NcSpec == NcInit /\ [][NcNext]_ncvars

(***************************************************************************)
(* Properties.                                                             *)
(***************************************************************************)
InTables(a, b) == UNION {a[x] : x \in Buckets} \union UNION {b[x] : x \in Buckets}
Cached == {nc_lru[i] : i \in DOMAIN nc_lru}
\* At every moment of an expansion, what is in the LRU list is found under its name
\* and under its direntry number, and nothing else is in the tables: no entry is lost
\* between the old and the new tables, and none outlives its deletion or eviction.
EveryEntryFound ==
    /\ Cached = InTables(nch.name, expand_info.name) /\ Cached = InTables(nch.deno, expand_info.deno)
    /\ \A e \in Cached : e \in get_namehash_head(e) /\ e \in get_denohash_head(e)

\* A mount leaves nothing behind in the cache: a later mount may live at the same
\* address, and its lookups would be answered from the entries of the old one.
ClearedIsGone == \A e \in Cached : MountOf[e] \in nc_mounted
=============================================================================
