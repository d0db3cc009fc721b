-------------------------- MODULE MountTableProofs --------------------------
(***************************************************************************)
(* The inductive invariant of MountTable, kept by every step of every call, *)
(* one lemma per conjunct and kind of step, and the property that follows.  *)
(***************************************************************************)
EXTENDS MountTable, TLAPS

\* The steps of a call by the lock they hold.
LEMMA Kinds ==
    /\ \A pc \in HoldsNone : pc \notin HoldsWrite /\ pc \notin HoldsRead
    /\ \A pc \in HoldsRead : pc \notin HoldsWrite
    /\ {"idle", "check", "free", "wrfree", "post", "uget", "ufind", "uwr", "get"} \subseteq HoldsNone
    /\ {"using", "readdir", "posting", "ufini"} \subseteq HoldsRead
    /\ {"create", "destroy"} \subseteq HoldsWrite
    /\ "idle" \notin Changing /\ "get" \notin Changing
BY Zenon DEF HoldsNone, HoldsRead, HoldsWrite, Changing

\* The forms a call's state takes.
LEMMA CallForms ==
    ASSUME NEW s \in CallStates
    PROVE  /\ MIdle \in CallStates /\ MIdle.pc = "idle" /\ MIdle.bad = FALSE /\ MIdle.i = 1
           /\ \A p \in HoldsWrite \cup HoldsRead \cup HoldsNone :
                 /\ [s EXCEPT !.pc = p] \in CallStates
                 /\ [s EXCEPT !.pc = p].pc = p /\ [s EXCEPT !.pc = p].i = s.i
                 /\ [s EXCEPT !.pc = p].name = s.name /\ [s EXCEPT !.pc = p].bad = s.bad
                 /\ \A j \in Entry :
                       /\ [s EXCEPT !.pc = p, !.i = j] \in CallStates
                       /\ [s EXCEPT !.pc = p, !.i = j].pc = p /\ [s EXCEPT !.pc = p, !.i = j].i = j
                       /\ [s EXCEPT !.pc = p, !.i = j].name = s.name
                       /\ [s EXCEPT !.pc = p, !.i = j].bad = s.bad
           /\ 1 \in Entry
<1>1. 1 \in Entry BY MountTableAssumption DEF Entry
<1>2. MIdle \in CallStates /\ MIdle.pc = "idle" /\ MIdle.bad = FALSE /\ MIdle.i = 1
  BY Zenon, <1>1 DEF MIdle, CallStates, HoldsNone, AnyName
<1>3. ASSUME NEW p \in HoldsWrite \cup HoldsRead \cup HoldsNone
      PROVE  /\ [s EXCEPT !.pc = p] \in CallStates
             /\ [s EXCEPT !.pc = p].pc = p /\ [s EXCEPT !.pc = p].i = s.i
             /\ [s EXCEPT !.pc = p].name = s.name /\ [s EXCEPT !.pc = p].bad = s.bad
  BY Zenon DEF CallStates
<1>4. ASSUME NEW p \in HoldsWrite \cup HoldsRead \cup HoldsNone, NEW j \in Entry
      PROVE  /\ [s EXCEPT !.pc = p, !.i = j] \in CallStates
             /\ [s EXCEPT !.pc = p, !.i = j].pc = p /\ [s EXCEPT !.pc = p, !.i = j].i = j
             /\ [s EXCEPT !.pc = p, !.i = j].name = s.name
             /\ [s EXCEPT !.pc = p, !.i = j].bad = s.bad
  BY Zenon DEF CallStates
<1> QED BY Zenon, <1>1, <1>2, <1>3, <1>4

\* The state of a call that starts.
First(p, n) == [MIdle EXCEPT !.pc = p, !.name = n]

\* A call starts with the first entry.
LEMMA FirstForm ==
    ASSUME NEW p \in HoldsNone, NEW n \in PbdNames
    PROVE  /\ First(p, n) \in CallStates
           /\ First(p, n).pc = p /\ First(p, n).i = 1 /\ First(p, n).bad = FALSE
<1>1. 1 \in Entry BY MountTableAssumption DEF Entry
<1>2. MIdle \in CallStates /\ MIdle.bad = FALSE /\ MIdle.i = 1
  BY Zenon, <1>1 DEF MIdle, CallStates, HoldsNone, AnyName
<1> QED BY Zenon, <1>2 DEF First, CallStates, AnyName

\* A step of the call of t: the others stay where they are.
LEMMA CallMoves ==
    ASSUME MtTypeOK, NEW t \in Callers, NEW r \in CallStates, MGo(t, r)
    PROVE  /\ mthr' \in [Callers -> CallStates]
           /\ mthr'[t] = r /\ \A x \in Callers : x # t => mthr'[x] = mthr[x]
BY Zenon DEF MtTypeOK, MGo

\* A step that leaves the mounts and their entries alone, but for the locks.
LEMMA MountsStay ==
    ASSUME MtInv, NEW t \in Callers, NEW r \in CallStates, MGo(t, r),
           \A i \in Entry : /\ mount_entry'[i].mnt = mount_entry[i].mnt
                            /\ mount_entry'[i].epoch = mount_entry[i].epoch,
           mobj' = mobj, mdir' = mdir, mount_mutex' = mount_mutex, ~r.bad,
           r.pc = "create" => isfree(r.i, ""),
           r.pc = "destroy" => hasname(r.i, r.name),
           r.pc \in HoldsRead => ~isfree(r.i, ""),
           r.pc = "readdir" => r.i = mdir[t].id,
           mount_mutex /\ r.pc \in Changing => ChangesTable(t) \/ \A x \in Callers : ~ChangesTable(x),
           mount_mutex /\ r.pc = "check" => \A j \in Entry : j < r.i => ~hasname(j, r.name),
           mount_mutex /\ r.pc \in {"free", "wrfree", "create"} => \A j \in Entry : ~hasname(j, r.name)
    PROVE  FoundHolds' /\ MountsLive' /\ StreamsFresh' /\ OneChange'
<1>1. /\ mthr'[t] = r /\ \A x \in Callers : x # t => mthr'[x] = mthr[x]
  BY Zenon, CallMoves DEF MtInv
<1>2. /\ \A x \in Callers : mthr[x].i \in Entry
      /\ \A x \in Callers : mdir[x].id # 0 => mdir[x].id \in Entry
      /\ r.i \in Entry
  BY Zenon DEF MtInv, MtTypeOK, CallStates, StreamStates
<1>3. /\ \A i \in Entry : \A n : isfree(i, n)' <=> isfree(i, n)
      /\ \A i \in Entry : \A n : hasname(i, n)' <=> hasname(i, n)
  BY Zenon DEF isfree, hasname
<1>4. FoundHolds'
  <2> SUFFICES ASSUME NEW x \in Callers
               PROVE  /\ mthr'[x].pc = "create" => isfree(mthr[x].i, "")'
                      /\ mthr'[x].pc = "destroy" => hasname(mthr[x].i, mthr[x].name)'
                      /\ mthr'[x].pc \in HoldsRead => ~(isfree(mthr[x].i, "")')
    BY Zenon DEF FoundHolds
  <2>1. CASE x = t BY Zenon, <1>1, <1>2, <2>1 DEF isfree, hasname
  <2>2. CASE x # t
    <3>1. /\ mthr[x].pc = "create" => isfree(mthr[x].i, "")
          /\ mthr[x].pc = "destroy" => hasname(mthr[x].i, mthr[x].name)
          /\ mthr[x].pc \in HoldsRead => ~isfree(mthr[x].i, "")
      BY Zenon DEF MtInv, FoundHolds
    <3> QED BY <1>1, <1>2, <2>2, <3>1 DEF isfree, hasname
  <2> QED BY Zenon, <2>1, <2>2
<1>5. MountsLive' BY DEF MtInv, MountsLive, isfree
<1>6. StreamsFresh'
  <2> SUFFICES ASSUME NEW x \in Callers
               PROVE  /\ ~mthr'[x].bad
                      /\ mthr'[x].pc = "readdir" => mthr'[x].i = mdir'[x].id
                      /\ mdir'[x].id # 0 =>
                           /\ mdir'[x].mnt \in Addrs
                           /\ mdir'[x].epoch <= mount_entry'[mdir'[x].id].epoch
                           /\ mdir'[x].epoch = mount_entry'[mdir'[x].id].epoch =>
                                /\ mount_entry'[mdir'[x].id].mnt = mdir'[x].mnt
                                /\ mobj'[mdir'[x].mnt].birth = mdir'[x].birth
    BY Zenon DEF StreamsFresh
  <2>1. ~mthr'[x].bad /\ (mthr'[x].pc = "readdir" => mthr'[x].i = mdir[x].id)
    BY Zenon, <1>1 DEF MtInv, StreamsFresh
  <2>2. mdir[x].id # 0 =>
            /\ mdir[x].mnt \in Addrs /\ mdir[x].epoch <= mount_entry[mdir[x].id].epoch
            /\ mdir[x].epoch = mount_entry[mdir[x].id].epoch =>
                  /\ mount_entry[mdir[x].id].mnt = mdir[x].mnt
                  /\ mobj[mdir[x].mnt].birth = mdir[x].birth
    BY Zenon DEF MtInv, StreamsFresh
  <2> QED BY Zenon, <1>2, <2>1, <2>2
<1>7. OneChange'
  <2> SUFFICES ASSUME mount_mutex PROVE OneChange' BY Zenon DEF OneChange
  <2>1. /\ \A x, y \in Callers : ChangesTable(x) /\ ChangesTable(y) => x = y
        /\ \A i, j \in Entry : \A n \in AnyName : hasname(i, n) /\ hasname(j, n) => i = j
        /\ \A x \in Callers :
             /\ mthr[x].pc = "check" => \A j \in Entry : j < mthr[x].i => ~hasname(j, mthr[x].name)
             /\ mthr[x].pc \in {"free", "wrfree", "create"} =>
                   \A j \in Entry : ~hasname(j, mthr[x].name)
    BY Zenon DEF MtInv, OneChange
  <2>2. \A x, y \in Callers : ChangesTable(x)' /\ ChangesTable(y)' => x = y
    BY Zenon, <1>1, <2>1 DEF ChangesTable
  <2>3. \A i, j \in Entry : \A n \in AnyName : hasname(i, n)' /\ hasname(j, n)' => i = j
    BY Zenon, <1>3, <2>1
  <2>4. ASSUME NEW x \in Callers
        PROVE  /\ mthr'[x].pc = "check" =>
                    \A j \in Entry : j < mthr'[x].i => ~(hasname(j, mthr[x].name)')
               /\ mthr'[x].pc \in {"free", "wrfree", "create"} =>
                    \A j \in Entry : ~(hasname(j, mthr[x].name)')
    <3>1. CASE x = t
      <4>1. \A j \in Entry : hasname(j, mthr[x].name)' <=> hasname(j, r.name)
        BY Zenon, <1>1, <3>1 DEF hasname
      <4>2. r.pc = "check" => \A j \in Entry : j < r.i => ~hasname(j, r.name) BY Zenon
      <4>3. r.pc \in {"free", "wrfree", "create"} => \A j \in Entry : ~hasname(j, r.name) BY Zenon
      <4> HIDE DEF hasname
      <4> QED BY Zenon, <1>1, <3>1, <4>1, <4>2, <4>3
    <3>2. CASE x # t
      <4>1. \A j \in Entry : hasname(j, mthr[x].name)' <=> hasname(j, mthr[x].name)
        BY Zenon, <1>1, <3>2 DEF hasname
      <4> QED BY Zenon, <1>1, <2>1, <3>2, <4>1
    <3> QED BY Zenon, <3>1, <3>2
  <2> QED BY Zenon, <2>2, <2>3, <2>4 DEF OneChange, hasname
<1> QED BY Zenon, <1>4, <1>5, <1>6, <1>7

\* A step between two places where the call holds no lock.
LEMMA SearchKeeps ==
    ASSUME MtInv, NEW t \in Callers, NEW r \in CallStates, MGo(t, r),
           UNCHANGED <<mount_entry, mobj, mdir>>, UNCHANGED mount_mutex, ~r.bad,
           mthr[t].pc \in HoldsNone, r.pc \in HoldsNone,
           mount_mutex /\ r.pc \in Changing => ChangesTable(t) \/ \A x \in Callers : ~ChangesTable(x),
           mount_mutex /\ r.pc = "check" => \A j \in Entry : j < r.i => ~hasname(j, r.name),
           mount_mutex /\ r.pc \in {"free", "wrfree", "create"} => \A j \in Entry : ~hasname(j, r.name)
    PROVE  MtInv'
<1>1. /\ mthr' \in [Callers -> CallStates]
      /\ mthr'[t] = r /\ \A x \in Callers : x # t => mthr'[x] = mthr[x]
  BY Zenon, CallMoves DEF MtInv
<1>2. MtTypeOK' BY Zenon, <1>1 DEF MtInv, MtTypeOK
<1>3. LocksHeld'
  <2>1. /\ \A x \in Callers : \A i \in Entry :
             /\ mount_entry[i].wr = x <=> mthr[x].pc \in HoldsWrite /\ mthr[x].i = i
             /\ x \in mount_entry[i].rd <=> mthr[x].pc \in HoldsRead /\ mthr[x].i = i
        /\ \A i \in Entry : mount_entry[i].wr = Nobody \/ mount_entry[i].rd = {}
    BY Zenon DEF MtInv, LocksHeld
  <2>2. /\ mthr[t].pc \notin HoldsWrite /\ mthr[t].pc \notin HoldsRead
        /\ r.pc \notin HoldsWrite /\ r.pc \notin HoldsRead
    BY Zenon, Kinds
  <2> QED BY <1>1, <2>1, <2>2 DEF LocksHeld
<1>4. /\ r.pc # "create" /\ r.pc # "destroy" /\ r.pc # "readdir" /\ r.pc \notin HoldsRead
  BY Zenon, Kinds DEF HoldsNone
<1>5. FoundHolds' /\ MountsLive' /\ StreamsFresh' /\ OneChange'
  BY Zenon, MountsStay, <1>4
<1> QED BY Zenon, <1>2, <1>3, <1>5 DEF MtInv

\* mountentry_find_iter goes on to the next entry, or to r after the last one.
LEMMA FindIterKeeps ==
    ASSUME MtInv, NEW t \in Callers, NEW r \in CallStates, NEW kind,
           find_iter(t, kind, r), UNCHANGED mount_mutex, mthr[t].pc \in HoldsNone,
           mthr[t].pc = "check" => kind # "free",
           \/ r = MIdle
           \/ /\ mthr[t].pc = "check" /\ r = [mthr[t] EXCEPT !.pc = "free", !.i = 1]
    PROVE  MtInv'
<1>1. PICK s \in CallStates : s = mthr[t] BY Zenon DEF MtInv, MtTypeOK
<1>2. s.i \in Entry /\ ~s.bad /\ ~Cond(kind, s.i, s.name) /\ s.pc \in HoldsNone
  BY Zenon, <1>1 DEF MtInv, StreamsFresh, CallStates, find_iter
<1>3. UNCHANGED <<mount_entry, mobj, mdir>> BY Zenon DEF find_iter
<1>4. s.pc = "check" => ~hasname(s.i, s.name) BY Zenon, <1>1, <1>2 DEF Cond
<1>5. mount_mutex => /\ s.pc = "check" => \A j \in Entry : j < s.i => ~hasname(j, s.name)
                     /\ s.pc \in {"free", "wrfree", "create"} => \A j \in Entry : ~hasname(j, s.name)
  BY Zenon, <1>1 DEF MtInv, OneChange
<1>6. CASE s.i < PFS_MAX_NMOUNT
  <2>1. s.i + 1 \in Entry BY <1>2, <1>6, MountTableAssumption DEF Entry
  <2> DEFINE q == [s EXCEPT !.i = s.i + 1]
  <2>2. /\ q \in CallStates /\ q.pc = s.pc /\ q.i = s.i + 1
        /\ q.name = s.name /\ q.bad = s.bad
    BY Zenon, <2>1 DEF CallStates
  <2>3. MGo(t, q) BY Zenon, <1>1, <1>6 DEF find_iter, MGo
  <2> HIDE DEF q
  <2>4. s.pc = "check" /\ mount_mutex => \A j \in Entry : j < s.i + 1 => ~hasname(j, s.name)
    <3> SUFFICES ASSUME s.pc = "check", mount_mutex, NEW j \in Entry, j < s.i + 1
                 PROVE  ~hasname(j, s.name)
      BY Zenon
    <3>1. j < s.i \/ j = s.i BY <1>2 DEF Entry
    <3> QED BY Zenon, <1>4, <1>5, <3>1
  <2>5. q.pc \in Changing => ChangesTable(t) BY Zenon, <1>1, <2>2 DEF ChangesTable
  <2> QED BY Zenon, SearchKeeps, <1>1, <1>2, <1>3, <1>5, <2>2, <2>3, <2>4, <2>5
<1>7. CASE ~(s.i < PFS_MAX_NMOUNT)
  <2>1. MGo(t, r) BY Zenon, <1>1, <1>7 DEF find_iter
  <2>2. CASE r = MIdle
    <3>1. r.pc = "idle" /\ ~r.bad /\ "idle" \notin Changing /\ "idle" \in HoldsNone
      BY Zenon, <2>2, CallForms, Kinds
    <3> QED BY Zenon, SearchKeeps, <1>3, <2>1, <3>1
  <2>3. CASE s.pc = "check" /\ r = [s EXCEPT !.pc = "free", !.i = 1]
    <3>1. "free" \in HoldsNone /\ "check" \in Changing /\ 1 \in Entry BY Zenon, Kinds, CallForms DEF Changing
    <3>2. r.pc = "free" /\ r.name = s.name /\ ~r.bad
      BY Zenon, <1>2, <2>3, <3>1 DEF CallStates
    <3>3. ASSUME mount_mutex, NEW j \in Entry PROVE ~hasname(j, s.name)
      <4>1. j < s.i \/ j = s.i BY <1>2, <1>7, MountTableAssumption DEF Entry
      <4> QED BY Zenon, <1>4, <1>5, <2>3, <3>3, <4>1
    <3>4. ChangesTable(t) BY Zenon, <1>1, <2>3, <3>1 DEF ChangesTable
    <3> QED BY Zenon, SearchKeeps, <1>3, <2>1, <3>1, <3>2, <3>3, <3>4
  <2> QED BY Zenon, <1>1, <2>2, <2>3
<1> QED BY Zenon, <1>6, <1>7

\* The entry i becomes e with the step of t to r: e has the lock r needs.
LockOf(i, e, t, r) ==
    /\ \A x \in Callers : x # t => /\ e.wr = x <=> mount_entry[i].wr = x
                                   /\ x \in e.rd <=> x \in mount_entry[i].rd
    /\ e.wr = t <=> r.pc \in HoldsWrite
    /\ t \in e.rd <=> r.pc \in HoldsRead
    /\ e.wr = Nobody \/ e.rd = {}
    /\ r.pc \in HoldsWrite \cup HoldsRead => r.i = i
    /\ mthr[t].pc \in HoldsWrite \cup HoldsRead => mthr[t].i = i

\* The call of t may go to r: what r relies on holds.
MayGo(t, r) ==
    /\ ~r.bad
    /\ r.pc = "create" => isfree(r.i, "")
    /\ r.pc = "destroy" => hasname(r.i, r.name)
    /\ r.pc \in HoldsRead => ~isfree(r.i, "")
    /\ r.pc = "readdir" => r.i = mdir[t].id
    /\ mount_mutex /\ r.pc \in Changing => ChangesTable(t) \/ \A x \in Callers : ~ChangesTable(x)
    /\ mount_mutex /\ r.pc = "check" => \A j \in Entry : j < r.i => ~hasname(j, r.name)
    /\ mount_mutex /\ r.pc \in {"free", "wrfree", "create"} => \A j \in Entry : ~hasname(j, r.name)

\* The lock of one entry changes with the place of the call of t.
LEMMA LocksMove ==
    ASSUME MtInv, NEW t \in Callers, NEW r \in CallStates, MGo(t, r),
           NEW i \in Entry, NEW e \in EntryStates, mount_entry' = [mount_entry EXCEPT ![i] = e],
           LockOf(i, e, t, r)
    PROVE  /\ LocksHeld' /\ mount_entry' \in [Entry -> EntryStates]
           /\ mount_entry'[i] = e /\ \A j \in Entry : j # i => mount_entry'[j] = mount_entry[j]
<1>1. mthr'[t] = r /\ \A x \in Callers : x # t => mthr'[x] = mthr[x]
  BY Zenon, CallMoves DEF MtInv
<1>2. /\ mount_entry' \in [Entry -> EntryStates]
      /\ mount_entry'[i] = e /\ \A j \in Entry : j # i => mount_entry'[j] = mount_entry[j]
  BY Zenon DEF MtInv, MtTypeOK
<1>3. /\ \A x \in Callers : \A j \in Entry :
           /\ mount_entry[j].wr = x <=> mthr[x].pc \in HoldsWrite /\ mthr[x].i = j
           /\ x \in mount_entry[j].rd <=> mthr[x].pc \in HoldsRead /\ mthr[x].i = j
      /\ \A j \in Entry : mount_entry[j].wr = Nobody \/ mount_entry[j].rd = {}
  BY Zenon DEF MtInv, LocksHeld
<1>4. ASSUME NEW j \in Entry PROVE mount_entry'[j].wr = Nobody \/ mount_entry'[j].rd = {}
  BY <1>2, <1>3 DEF LockOf
<1>5. ASSUME NEW x \in Callers, NEW j \in Entry
      PROVE  /\ mount_entry'[j].wr = x <=> mthr'[x].pc \in HoldsWrite /\ mthr'[x].i = j
             /\ x \in mount_entry'[j].rd <=> mthr'[x].pc \in HoldsRead /\ mthr'[x].i = j
  <2>1. CASE x = t /\ j = i BY Zenon, <1>1, <1>2, <2>1 DEF LockOf
  <2>2. CASE x = t /\ j # i BY <1>1, <1>2, <1>3, <2>2 DEF LockOf
  <2>3. CASE x # t /\ j = i BY <1>1, <1>2, <1>3, <2>3 DEF LockOf
  <2>4. CASE x # t /\ j # i BY <1>1, <1>2, <1>3, <2>4
  <2> QED BY Zenon, <2>1, <2>2, <2>3, <2>4
<1> QED BY Zenon, <1>2, <1>4, <1>5 DEF LocksHeld

\* The entry of t's step: its lock changes, its mount and its epoch do not.
LEMMA LockStepKeeps ==
    ASSUME MtInv, NEW t \in Callers, NEW r \in CallStates, MGo(t, r),
           NEW i \in Entry, NEW e \in EntryStates, mount_entry' = [mount_entry EXCEPT ![i] = e],
           LockOf(i, e, t, r),
           e.mnt = mount_entry[i].mnt, e.epoch = mount_entry[i].epoch,
           UNCHANGED <<mobj, mdir>>, UNCHANGED mount_mutex, MayGo(t, r)
    PROVE  MtInv'
<1>1. /\ LocksHeld' /\ mount_entry' \in [Entry -> EntryStates]
      /\ mount_entry'[i] = e /\ \A j \in Entry : j # i => mount_entry'[j] = mount_entry[j]
  BY Zenon, LocksMove
<1>2. MtTypeOK' BY Zenon, <1>1, CallMoves DEF MtInv, MtTypeOK
<1>3. \A j \in Entry : /\ mount_entry'[j].mnt = mount_entry[j].mnt
                       /\ mount_entry'[j].epoch = mount_entry[j].epoch
  BY Zenon, <1>1
<1>4. FoundHolds' /\ MountsLive' /\ StreamsFresh' /\ OneChange'
  BY Zenon, MountsStay, <1>3 DEF MayGo
<1> QED BY Zenon, <1>1, <1>2, <1>4 DEF MtInv

\* A mount is borrowed under the read lock of its entry.
LEMMA BorrowedKeeps ==
    ASSUME MtInv, NEW t \in Callers, NEW i \in Entry, NEW pc \in HoldsRead,
           mthr[t].pc \in HoldsNone, rdlock(i), ~isfree(i, ""), UNCHANGED mount_mutex,
           Borrowed(t, i, pc), pc = "readdir" => i = mdir[t].id,
           pc \in Changing => ChangesTable(t)
    PROVE  MtInv'
<1>1. PICK s \in CallStates : s = mthr[t] /\ ~s.bad
  BY Zenon DEF MtInv, MtTypeOK, StreamsFresh
<1> DEFINE r == [s EXCEPT !.pc = pc, !.i = i]
<1>2. /\ r \in CallStates /\ r.pc = pc /\ r.i = i /\ r.bad = s.bad
  BY Zenon DEF CallStates
<1>3. MGo(t, r) BY Zenon, <1>1 DEF Borrowed
<1> HIDE DEF r
<1>4. PICK m \in EntryStates : m = mount_entry[i] BY Zenon DEF MtInv, MtTypeOK
<1> DEFINE e == [m EXCEPT !.rd = m.rd \cup {t}]
<1>5. /\ e \in EntryStates /\ e.rd = m.rd \cup {t}
      /\ e.wr = m.wr /\ e.mnt = m.mnt /\ e.epoch = m.epoch
  BY Zenon DEF EntryStates
<1>6. mount_entry' = [mount_entry EXCEPT ![i] = e] BY Zenon, <1>4 DEF Borrowed
<1> HIDE DEF e
<1>7. m.wr = Nobody BY Zenon, <1>4 DEF rdlock
<1>8. e.wr = t <=> r.pc \in HoldsWrite BY Zenon, <1>2, <1>5, <1>7, Kinds, MountTableAssumption
<1>9. mthr[t].pc \notin HoldsWrite \cup HoldsRead BY Zenon, Kinds
<1>10. /\ \A x \in Callers : x # t => /\ e.wr = x <=> mount_entry[i].wr = x
                                      /\ x \in e.rd <=> x \in mount_entry[i].rd
       /\ t \in e.rd <=> r.pc \in HoldsRead
       /\ e.wr = Nobody
  BY Zenon, <1>2, <1>4, <1>5, <1>7
<1>11. /\ r.pc # "create" /\ r.pc # "destroy" /\ r.pc # "check"
       /\ r.pc \notin {"free", "wrfree", "create"}
  BY Zenon, <1>2 DEF HoldsRead
<1>12. UNCHANGED <<mobj, mdir>> BY Zenon DEF Borrowed
<1>13. LockOf(i, e, t, r) BY Zenon, <1>2, <1>8, <1>9, <1>10 DEF LockOf
<1>14. MayGo(t, r) BY Zenon, <1>1, <1>2, <1>11 DEF MayGo
<1> QED BY Zenon, LockStepKeeps, <1>2, <1>3, <1>4, <1>5, <1>6, <1>12, <1>13, <1>14

\* The write lock of an entry that is still as the call found it.
LEMMA WrLockKeeps ==
    ASSUME MtInv, NEW t \in Callers, NEW pc \in HoldsWrite, wrlock(mthr[t].i),
           mthr[t].pc \in HoldsNone, ChangesTable(t), UNCHANGED mount_mutex, UNCHANGED <<mobj, mdir>>,
           mount_entry' = [mount_entry EXCEPT ![mthr[t].i].wr = t],
           MGo(t, [mthr[t] EXCEPT !.pc = pc]),
           pc = "create" => mthr[t].pc = "wrfree" /\ isfree(mthr[t].i, ""),
           pc = "destroy" => hasname(mthr[t].i, mthr[t].name)
    PROVE  MtInv'
<1>1. PICK s \in CallStates : s = mthr[t] /\ ~s.bad
  BY Zenon DEF MtInv, MtTypeOK, StreamsFresh
<1> DEFINE r == [s EXCEPT !.pc = pc]
<1>2. /\ r \in CallStates /\ r.pc = pc /\ r.i = s.i /\ r.name = s.name /\ r.bad = s.bad
  BY Zenon DEF CallStates
<1>3. MGo(t, r) BY Zenon, <1>1
<1> HIDE DEF r
<1>4. PICK i \in Entry : i = s.i BY Zenon DEF CallStates
<1>5. PICK m \in EntryStates : m = mount_entry[i] BY Zenon DEF MtInv, MtTypeOK
<1> DEFINE e == [m EXCEPT !.wr = t]
<1>6. /\ e \in EntryStates /\ e.wr = t
      /\ e.rd = m.rd /\ e.mnt = m.mnt /\ e.epoch = m.epoch
  BY Zenon DEF EntryStates
<1>7. mount_entry' = [mount_entry EXCEPT ![i] = e] BY Zenon, <1>1, <1>4, <1>5
<1> HIDE DEF e
<1>8. m.wr = Nobody /\ m.rd = {} BY Zenon, <1>1, <1>4, <1>5 DEF wrlock
<1>9. /\ e.wr = t <=> r.pc \in HoldsWrite
      /\ t \in e.rd <=> r.pc \in HoldsRead
      /\ r.pc \notin HoldsRead
  BY Zenon, <1>2, <1>6, <1>8, Kinds
<1>10. \A x \in Callers : x # t => /\ e.wr = x <=> mount_entry[i].wr = x
                                   /\ x \in e.rd <=> x \in mount_entry[i].rd
  BY Zenon, <1>5, <1>6, <1>8, MountTableAssumption
<1>11. mthr[t].pc \notin HoldsWrite \cup HoldsRead BY Zenon, Kinds
<1>12. r.pc # "check" /\ r.pc \notin {"free", "wrfree"} /\ r.pc # "readdir" BY Zenon, <1>2 DEF HoldsWrite
<1>13. mount_mutex /\ r.pc = "create" => \A j \in Entry : ~hasname(j, r.name)
  BY Zenon, <1>1, <1>2 DEF MtInv, OneChange
<1>14. /\ r.pc = "create" => isfree(r.i, "")
       /\ r.pc = "destroy" => hasname(r.i, r.name)
  BY Zenon, <1>1, <1>2
<1>15. LockOf(i, e, t, r) BY Zenon, <1>2, <1>4, <1>6, <1>8, <1>9, <1>10, <1>11 DEF LockOf
<1>16. MayGo(t, r) BY Zenon, <1>1, <1>2, <1>9, <1>12, <1>13, <1>14 DEF MayGo
<1> QED BY Zenon, LockStepKeeps, <1>2, <1>3, <1>5, <1>6, <1>7, <1>15, <1>16

\* The locks that t gives up at a step to r, where it holds none.
LEMMA UnlockedEntry ==
    ASSUME MtInv, NEW t \in Callers, NEW r, r.pc \in HoldsNone,
           mthr[t].pc \in HoldsWrite \cup HoldsRead,
           NEW i \in Entry, i = mthr[t].i, NEW e,
           mthr[t].pc \in HoldsWrite => e.wr = Nobody /\ e.rd = mount_entry[i].rd,
           mthr[t].pc \in HoldsRead => e.wr = mount_entry[i].wr /\ e.rd = mount_entry[i].rd \ {t}
    PROVE  LockOf(i, e, t, r)
<1>1. /\ mount_entry[i].wr = t <=> mthr[t].pc \in HoldsWrite
      /\ t \in mount_entry[i].rd <=> mthr[t].pc \in HoldsRead
      /\ mount_entry[i].wr = Nobody \/ mount_entry[i].rd = {}
  BY DEF MtInv, LocksHeld
<1>2. /\ r.pc \notin HoldsWrite /\ r.pc \notin HoldsRead
      /\ t # Nobody /\ \A x \in Callers : x # Nobody
  BY Zenon, Kinds, MountTableAssumption
<1>3. CASE mthr[t].pc \in HoldsWrite
  <2>1. mthr[t].pc \notin HoldsRead BY Zenon, <1>3, Kinds
  <2>2. e.wr = Nobody /\ e.rd = {} /\ mount_entry[i].rd = {} /\ mount_entry[i].wr = t
    BY Zenon, <1>1, <1>2, <1>3
  <2> QED BY Zenon, <1>2, <2>2 DEF LockOf
<1>4. CASE mthr[t].pc \in HoldsRead
  <2>1. mount_entry[i].wr = Nobody BY Zenon, <1>1, <1>4
  <2> QED BY Zenon, <1>2, <1>4, <2>1 DEF LockOf
<1> QED BY Zenon, <1>3, <1>4

\* Caller t gives up the lock of entry i, which becomes e.
Unlocks(t, i, e) ==
    /\ mthr[t].pc \in HoldsWrite \cup HoldsRead /\ i = mthr[t].i
    /\ e = IF mthr[t].pc \in HoldsWrite THEN [mount_entry[i] EXCEPT !.wr = Nobody]
           ELSE [mount_entry[i] EXCEPT !.rd = mount_entry[i].rd \ {t}]
    /\ mount_entry' = [mount_entry EXCEPT ![i] = e]
    /\ UNCHANGED <<mobj, mdir>> /\ UNCHANGED mount_mutex

\* pfs_put_mount and the error path of pfs_mount: the lock is given up.
LEMMA UnlockKeeps ==
    ASSUME MtInv, NEW t \in Callers, NEW r \in CallStates, r.pc \in HoldsNone, MGo(t, r),
           NEW i \in Entry, NEW e, Unlocks(t, i, e), MayGo(t, r)
    PROVE  MtInv'
<1> PICK m \in EntryStates : m = mount_entry[i] BY Zenon DEF MtInv, MtTypeOK
<1>0. /\ mthr[t].pc \in HoldsWrite \cup HoldsRead /\ i = mthr[t].i
      /\ mthr[t].pc \in HoldsWrite => e = [m EXCEPT !.wr = Nobody]
      /\ mthr[t].pc \notin HoldsWrite => e = [m EXCEPT !.rd = m.rd \ {t}]
      /\ mount_entry' = [mount_entry EXCEPT ![i] = e]
      /\ UNCHANGED <<mobj, mdir>> /\ UNCHANGED mount_mutex
  BY Zenon DEF Unlocks
<1>1. /\ e \in EntryStates /\ e.mnt = m.mnt /\ e.epoch = m.epoch
      /\ mthr[t].pc \in HoldsWrite => e.wr = Nobody /\ e.rd = m.rd
      /\ mthr[t].pc \notin HoldsWrite => e.wr = m.wr /\ e.rd = m.rd \ {t}
  <2>1. CASE mthr[t].pc \in HoldsWrite
    <3>1. e = [m EXCEPT !.wr = Nobody] BY Zenon, <1>0, <2>1
    <3> QED BY Zenon, <2>1, <3>1 DEF EntryStates
  <2>2. CASE mthr[t].pc \notin HoldsWrite
    <3>1. e = [m EXCEPT !.rd = m.rd \ {t}] BY Zenon, <1>0, <2>2
    <3> QED BY <2>2, <3>1 DEF EntryStates
  <2> QED BY Zenon, <2>1, <2>2
<1>2. mthr[t].pc \in HoldsRead => mthr[t].pc \notin HoldsWrite BY Zenon, Kinds
<1>3. LockOf(i, e, t, r) BY Zenon, UnlockedEntry, <1>0, <1>1, <1>2
<1> QED BY Zenon, LockStepKeeps, <1>0, <1>1, <1>3

\* A call may always become idle.
LEMMA IdleMayGo ==
    ASSUME NEW t \in Callers
    PROVE  MIdle \in CallStates /\ MIdle.pc \in HoldsNone /\ MayGo(t, MIdle)
<1>1. MIdle \in CallStates /\ MIdle.pc = "idle" /\ MIdle.bad = FALSE
  BY MountTableAssumption DEF MIdle, CallStates, Entry, HoldsNone, AnyName
<1> QED BY Zenon, <1>1, Kinds DEF MayGo, HoldsRead

\* The call of t starts over: another search from the first entry.
LEMMA AnewMayGo ==
    ASSUME NEW t \in Callers, NEW s \in CallStates, NEW p \in {"check", "uget", "ufind", "post"},
           ChangesTable(t), ~s.bad
    PROVE  /\ [s EXCEPT !.pc = p, !.i = 1] \in CallStates
           /\ [s EXCEPT !.pc = p, !.i = 1].pc \in HoldsNone
           /\ MayGo(t, [s EXCEPT !.pc = p, !.i = 1])
<1>1. p \in HoldsNone /\ 1 \in Entry BY MountTableAssumption DEF Entry, HoldsNone
<1> DEFINE r == [s EXCEPT !.pc = p, !.i = 1]
<1>2. r \in CallStates /\ r.pc = p /\ r.i = 1 /\ r.bad = s.bad BY Zenon, <1>1 DEF CallStates
<1> HIDE DEF r
<1>3. \A j \in Entry : ~(j < 1) BY DEF Entry
<1>4. MayGo(t, r) BY Zenon, <1>2, <1>3 DEF MayGo, HoldsRead
<1> QED BY Zenon, <1>1, <1>2, <1>4 DEF r

\* pfs_put_mount, a directory stream of another mount told by its epoch.
LEMMA PutKeeps ==
    ASSUME MtInv, NEW t \in Callers, pfs_put_mount(t), UNCHANGED mount_mutex
    PROVE  MtInv'
<1>1. PICK s \in CallStates : s = mthr[t] /\ ~s.bad /\ s.bad \in BOOLEAN
  BY Zenon DEF MtInv, MtTypeOK, StreamsFresh, CallStates
<1>2. PICK i \in Entry : i = s.i BY Zenon DEF CallStates
<1>3. PICK m \in EntryStates : m = mount_entry[i] BY Zenon DEF MtInv, MtTypeOK
<1>4. s.pc \in HoldsRead BY Zenon, <1>1 DEF pfs_put_mount, HoldsRead
<1>5. s.pc \notin HoldsWrite BY Zenon, <1>4, Kinds
<1>6. mount_entry' = [mount_entry EXCEPT ![i] = [m EXCEPT !.rd = m.rd \ {t}]]
  BY Zenon, <1>1, <1>2, <1>3 DEF pfs_put_mount
<1>7. UNCHANGED <<mobj, mdir>> BY Zenon DEF pfs_put_mount
<1>8. ASSUME NEW r \in CallStates, r.pc \in HoldsNone, MGo(t, r), MayGo(t, r) PROVE MtInv'
  <2> DEFINE e == [m EXCEPT !.rd = m.rd \ {t}]
  <2>1. e = IF mthr[t].pc \in HoldsWrite THEN [m EXCEPT !.wr = Nobody] ELSE [m EXCEPT !.rd = m.rd \ {t}]
    BY Zenon, <1>1, <1>5
  <2>2. mount_entry' = [mount_entry EXCEPT ![i] = e] BY Zenon, <1>6
  <2> HIDE DEF e
  <2>3. Unlocks(t, i, e) BY Zenon, <1>1, <1>2, <1>3, <1>4, <1>7, <2>1, <2>2 DEF Unlocks
  <2> QED BY Zenon, UnlockKeeps, <1>8, <2>3
<1>9. CASE /\ s.pc = "ufini" /\ MGo(t, [s EXCEPT !.pc = "ufind", !.i = 1])
  <2>1. ChangesTable(t) BY Zenon, <1>1, <1>9 DEF ChangesTable, Changing
  <2> DEFINE r == [s EXCEPT !.pc = "ufind", !.i = 1]
  <2>2. r \in CallStates /\ r.pc \in HoldsNone /\ MayGo(t, r) BY Zenon, <1>1, <2>1, AnewMayGo
  <2> QED BY Zenon, <1>8, <1>9, <2>2
<1>10. CASE /\ s.pc = "posting" /\ MGo(t, [s EXCEPT !.pc = "uget", !.i = 1])
  <2>1. ChangesTable(t) BY Zenon, <1>1, <1>10 DEF ChangesTable, Changing
  <2> DEFINE r == [s EXCEPT !.pc = "uget", !.i = 1]
  <2>2. r \in CallStates /\ r.pc \in HoldsNone /\ MayGo(t, r) BY Zenon, <1>1, <2>1, AnewMayGo
  <2> QED BY Zenon, <1>8, <1>10, <2>2
<1> DEFINE wrong == /\ s.pc = "readdir" /\ ~pfs_dir_isstale(mdir[t], i)
                    /\ mobj[m.mnt].birth # mdir[t].birth
<1>11. CASE s.pc # "ufini" /\ MGo(t, [MIdle EXCEPT !.bad = wrong])
  <2>1. ~wrong
    <3> SUFFICES ASSUME s.pc = "readdir", m.mnt = mdir[t].mnt, m.epoch = mdir[t].epoch
                 PROVE  mobj[m.mnt].birth = mdir[t].birth
      BY Zenon, <1>3 DEF pfs_dir_isstale
    <3>1. mdir[t].id = i BY Zenon, <1>1, <1>2 DEF MtInv, StreamsFresh
    <3>2. i # 0 BY DEF Entry
    <3> QED BY Zenon, <1>3, <3>1, <3>2 DEF MtInv, StreamsFresh
  <2>2. wrong = FALSE
    <3>1. wrong \in BOOLEAN BY Zenon
    <3> QED BY Zenon, <2>1, <3>1
  <2>3. [MIdle EXCEPT !.bad = wrong] = [MIdle EXCEPT !.bad = FALSE] BY Zenon, <2>2
  <2>4. \A w \in BOOLEAN : /\ [MIdle EXCEPT !.bad = w] \in CallStates
                           /\ [MIdle EXCEPT !.bad = w].pc = "idle"
                           /\ [MIdle EXCEPT !.bad = w].bad = w
    <3>1. PICK o \in CallStates : o = MIdle /\ o.pc = "idle" BY Zenon, IdleMayGo DEF MIdle
    <3>2. \A w \in BOOLEAN : /\ [o EXCEPT !.bad = w] \in CallStates
                             /\ [o EXCEPT !.bad = w].pc = "idle"
                             /\ [o EXCEPT !.bad = w].bad = w
      BY Zenon, <3>1 DEF CallStates
    <3> QED BY Zenon, <3>1, <3>2
  <2> HIDE DEF wrong
  <2>5. PICK q \in CallStates : MGo(t, q) /\ q.pc = "idle" /\ ~q.bad
    BY Zenon, <1>11, <2>3, <2>4
  <2>6. q.pc \in HoldsNone /\ MayGo(t, q) BY Zenon, <2>5, Kinds DEF MayGo, HoldsRead
  <2> QED BY Zenon, <1>8, <2>5, <2>6
<1> QED BY Zenon, <1>1, <1>2, <1>3, <1>9, <1>10, <1>11 DEF pfs_put_mount

\* A mount that failed gives the entry up; -EAGAIN starts over.
LEMMA CreateFails ==
    ASSUME MtInv, NEW t \in Callers, mthr[t].pc = "create", UNCHANGED mount_mutex,
           mount_entry' = [mount_entry EXCEPT ![mthr[t].i] = mountentry_wrunlock(@)],
           \/ MGo(t, MIdle)
           \/ MGo(t, [mthr[t] EXCEPT !.pc = "check", !.i = 1]),
           UNCHANGED <<mobj, mdir>>
    PROVE  MtInv'
<1>1. PICK s \in CallStates : s = mthr[t] /\ ~s.bad
  BY Zenon DEF MtInv, MtTypeOK, StreamsFresh
<1>2. PICK i \in Entry : i = s.i BY Zenon DEF CallStates
<1>3. PICK m \in EntryStates : m = mount_entry[i] BY Zenon DEF MtInv, MtTypeOK
<1>4. mthr[t].pc \in HoldsWrite BY Zenon, Kinds
<1>5. mount_entry' = [mount_entry EXCEPT ![i] = [m EXCEPT !.wr = Nobody]]
  BY Zenon, <1>1, <1>2, <1>3 DEF mountentry_wrunlock
<1>6. ASSUME NEW r \in CallStates, r.pc \in HoldsNone, MGo(t, r), MayGo(t, r) PROVE MtInv'
  <2> DEFINE e == [m EXCEPT !.wr = Nobody]
  <2>1. e = IF mthr[t].pc \in HoldsWrite THEN [m EXCEPT !.wr = Nobody] ELSE [m EXCEPT !.rd = m.rd \ {t}]
    BY Zenon, <1>4
  <2>2. mount_entry' = [mount_entry EXCEPT ![i] = e] BY Zenon, <1>5
  <2> HIDE DEF e
  <2>3. Unlocks(t, i, e) BY Zenon, <1>1, <1>2, <1>3, <1>4, <2>1, <2>2 DEF Unlocks
  <2> QED BY Zenon, UnlockKeeps, <1>6, <2>3
<1>7. CASE MGo(t, MIdle) BY Zenon, <1>6, <1>7, IdleMayGo
<1>8. CASE MGo(t, [s EXCEPT !.pc = "check", !.i = 1])
  <2>1. ChangesTable(t) BY Zenon DEF ChangesTable, Changing
  <2> DEFINE r == [s EXCEPT !.pc = "check", !.i = 1]
  <2>2. r \in CallStates /\ r.pc \in HoldsNone /\ MayGo(t, r) BY Zenon, <1>1, <2>1, AnewMayGo
  <2> QED BY Zenon, <1>6, <1>8, <2>2
<1> QED BY Zenon, <1>1, <1>7, <1>8

\* Under the write lock of an entry no other call holds its lock.
LEMMA Alone ==
    ASSUME MtInv, NEW t \in Callers, mthr[t].pc \in HoldsWrite, NEW x \in Callers, x # t,
           mthr[x].pc \in HoldsWrite \cup HoldsRead
    PROVE  mthr[x].i \in Entry /\ mthr[x].i # mthr[t].i
<1>1. /\ \A y \in Callers : \A j \in Entry :
           /\ mount_entry[j].wr = y <=> mthr[y].pc \in HoldsWrite /\ mthr[y].i = j
           /\ y \in mount_entry[j].rd <=> mthr[y].pc \in HoldsRead /\ mthr[y].i = j
      /\ \A j \in Entry : mount_entry[j].wr = Nobody \/ mount_entry[j].rd = {}
  BY Zenon DEF MtInv, LocksHeld
<1>2. mthr[x].i \in Entry BY Zenon DEF MtInv, MtTypeOK, CallStates
<1>3. t # Nobody BY Zenon, MountTableAssumption
<1> QED BY <1>1, <1>2, <1>3

\* The entry i becomes e, with another mount and the next epoch, and the object at a
\* becomes o, when the call of t goes to r and gives its write lock up.
TableChange(t, r, i, e, a, o) ==
    /\ r.pc \in {"idle", "post"} /\ ~r.bad /\ MGo(t, r)
    /\ mthr[t].pc \in HoldsWrite /\ i = mthr[t].i
    /\ e.wr = Nobody /\ e.rd = mount_entry[i].rd /\ e.epoch = mount_entry[i].epoch + 1
    /\ mount_entry' = [mount_entry EXCEPT ![i] = e] /\ mdir' = mdir
    /\ mobj' = [mobj EXCEPT ![a] = o]
    /\ \A j \in Entry : j # i => mount_entry[j].mnt # a
    /\ mount_mutex' = mount_mutex

\* An entry whose mount comes or goes, from the write lock to no lock.
LEMMA TableMoves ==
    ASSUME MtInv, NEW t \in Callers, NEW r \in CallStates, NEW i \in Entry, NEW e \in EntryStates,
           NEW a \in Addrs, NEW o \in MountStates, TableChange(t, r, i, e, a, o)
    PROVE  /\ MtTypeOK' /\ LocksHeld' /\ FoundHolds' /\ StreamsFresh'
           /\ mthr'[t] = r /\ \A x \in Callers : x # t => mthr'[x] = mthr[x]
           /\ mount_entry'[i] = e /\ mobj'[a] = o
           /\ \A j \in Entry : j # i => /\ mount_entry'[j] = mount_entry[j]
                                        /\ mobj'[mount_entry[j].mnt] = mobj[mount_entry[j].mnt]
<1>0. /\ r.pc \in {"idle", "post"} /\ ~r.bad /\ MGo(t, r)
      /\ mthr[t].pc \in HoldsWrite /\ i = mthr[t].i
      /\ e.wr = Nobody /\ e.rd = mount_entry[i].rd /\ e.epoch = mount_entry[i].epoch + 1
      /\ mount_entry' = [mount_entry EXCEPT ![i] = e] /\ mdir' = mdir
      /\ mobj' = [mobj EXCEPT ![a] = o]
      /\ \A j \in Entry : j # i => mount_entry[j].mnt # a
      /\ mount_mutex' = mount_mutex
  BY Zenon DEF TableChange
<1>1. /\ mthr' \in [Callers -> CallStates]
      /\ mthr'[t] = r /\ \A x \in Callers : x # t => mthr'[x] = mthr[x]
  BY Zenon, <1>0, CallMoves DEF MtInv
<1>2. r.pc \in HoldsNone /\ r.pc \notin HoldsRead /\ r.pc # "create" /\ r.pc # "destroy" /\ r.pc # "readdir"
  BY Zenon, <1>0 DEF HoldsNone, HoldsRead
<1>3. LockOf(i, e, t, r) BY Zenon, <1>0, UnlockedEntry, <1>2, Kinds
<1>4. /\ LocksHeld' /\ mount_entry' \in [Entry -> EntryStates]
      /\ mount_entry'[i] = e /\ \A j \in Entry : j # i => mount_entry'[j] = mount_entry[j]
  BY Zenon, <1>0, LocksMove, <1>3
<1>5. mobj' \in [Addrs -> MountStates] /\ mobj'[a] = o /\ \A b \in Addrs : b # a => mobj'[b] = mobj[b]
  BY Zenon, <1>0 DEF MtInv, MtTypeOK
<1>6. MtTypeOK' BY Zenon, <1>0, <1>1, <1>4, <1>5 DEF MtInv, MtTypeOK
<1>7. ASSUME NEW j \in Entry, j # i PROVE mobj'[mount_entry[j].mnt] = mobj[mount_entry[j].mnt]
  BY <1>5, <1>7, <1>0 DEF MtInv, MtTypeOK
<1>8. FoundHolds'
  <2> SUFFICES ASSUME NEW x \in Callers
               PROVE  /\ mthr'[x].pc = "create" => isfree(mthr[x].i, "")'
                      /\ mthr'[x].pc = "destroy" => hasname(mthr[x].i, mthr[x].name)'
                      /\ mthr'[x].pc \in HoldsRead => ~(isfree(mthr[x].i, "")')
    BY Zenon DEF FoundHolds
  <2>1. CASE x = t BY Zenon, <1>1, <1>2, <2>1
  <2>2. CASE x # t /\ mthr[x].pc \in HoldsWrite \cup HoldsRead
    <3>1. mthr[x].i \in Entry /\ mthr[x].i # i BY Zenon, <1>0, Alone, <2>2
    <3>2. /\ mthr[x].pc = "create" => isfree(mthr[x].i, "")
          /\ mthr[x].pc = "destroy" => hasname(mthr[x].i, mthr[x].name)
          /\ mthr[x].pc \in HoldsRead => ~isfree(mthr[x].i, "")
      BY Zenon DEF MtInv, FoundHolds
    <3>3. /\ mount_entry'[mthr[x].i] = mount_entry[mthr[x].i]
          /\ mobj'[mount_entry[mthr[x].i].mnt] = mobj[mount_entry[mthr[x].i].mnt]
      BY Zenon, <1>4, <1>7, <3>1
    <3> QED BY <1>1, <2>2, <3>2, <3>3 DEF isfree, hasname
  <2>3. CASE x # t /\ mthr[x].pc \notin HoldsWrite \cup HoldsRead BY Zenon, <1>1, <2>3 DEF HoldsWrite
  <2> QED BY Zenon, <2>1, <2>2, <2>3
<1>9. StreamsFresh'
  <2> SUFFICES ASSUME NEW x \in Callers
               PROVE  /\ ~mthr'[x].bad
                      /\ mthr'[x].pc = "readdir" => mthr'[x].i = mdir'[x].id
                      /\ mdir'[x].id # 0 =>
                           /\ mdir'[x].mnt \in Addrs
                           /\ mdir'[x].epoch <= mount_entry'[mdir'[x].id].epoch
                           /\ mdir'[x].epoch = mount_entry'[mdir'[x].id].epoch =>
                                /\ mount_entry'[mdir'[x].id].mnt = mdir'[x].mnt
                                /\ mobj'[mdir'[x].mnt].birth = mdir'[x].birth
    BY Zenon DEF StreamsFresh
  <2>1. ~mthr'[x].bad /\ (mthr'[x].pc = "readdir" => mthr'[x].i = mdir[x].id)
    BY Zenon, <1>0, <1>1, <1>2 DEF MtInv, StreamsFresh
  <2>2. mdir[x].id # 0 =>
            /\ mdir[x].mnt \in Addrs /\ mdir[x].epoch <= mount_entry[mdir[x].id].epoch
            /\ mdir[x].epoch = mount_entry[mdir[x].id].epoch =>
                  /\ mount_entry[mdir[x].id].mnt = mdir[x].mnt
                  /\ mobj[mdir[x].mnt].birth = mdir[x].birth
    BY Zenon DEF MtInv, StreamsFresh
  <2>3. mdir[x].id # 0 => mdir[x].id \in Entry BY Zenon DEF MtInv, MtTypeOK, StreamStates
  <2>4. CASE mdir[x].id = i
    <3>1. mdir[x].epoch \in Nat /\ mount_entry[i].epoch \in Nat /\ i # 0
      BY DEF MtInv, MtTypeOK, StreamStates, EntryStates, Entry
    <3>2. mdir[x].epoch <= e.epoch /\ mdir[x].epoch # e.epoch BY <1>0, <2>2, <2>4, <3>1
    <3> QED BY Zenon, <1>0, <1>4, <2>1, <2>2, <2>4, <3>1, <3>2
  <2>5. CASE mdir[x].id \in Entry /\ mdir[x].id # i
    <3>1. mount_entry'[mdir[x].id] = mount_entry[mdir[x].id] BY Zenon, <1>4, <2>5
    <3>2. mdir[x].mnt = mount_entry[mdir[x].id].mnt => mobj'[mdir[x].mnt] = mobj[mdir[x].mnt]
      BY Zenon, <1>7, <2>5
    <3> QED BY Zenon, <1>0, <2>1, <2>2, <3>1, <3>2
  <2> QED BY Zenon, <1>0, <2>1, <2>3, <2>4, <2>5
<1> QED BY Zenon, <1>1, <1>4, <1>5, <1>6, <1>7, <1>8, <1>9

\* Under the mutex no other call is looking for an entry.
LEMMA NoOtherChange ==
    ASSUME MtInv, mount_mutex, NEW t \in Callers, mthr[t].pc \in HoldsWrite, NEW x \in Callers, x # t
    PROVE  ~ChangesTable(x)
<1>1. ChangesTable(t) BY Zenon DEF ChangesTable, Changing, HoldsWrite
<1> QED BY Zenon, <1>1 DEF MtInv, OneChange

\* With the write lock given up at the end of a mount or an umount, no call is
\* changing the table but t's, which is past its searches.
LEMMA ChangeEnds ==
    ASSUME MtInv, NEW t \in Callers, mthr[t].pc \in HoldsWrite, NEW r, r.pc \in {"idle", "post"},
           mthr'[t] = r, \A x \in Callers : x # t => mthr'[x] = mthr[x],
           mount_mutex' = mount_mutex,
           mount_mutex => \A i, j \in Entry : \A n \in AnyName :
                             hasname(i, n)' /\ hasname(j, n)' => i = j
    PROVE  OneChange'
<1> SUFFICES ASSUME mount_mutex PROVE OneChange' BY Zenon DEF OneChange
<1>1. \A x \in Callers : x # t => mthr'[x].pc \notin Changing BY Zenon, NoOtherChange DEF ChangesTable
<1>2. \A x, y \in Callers : ChangesTable(x)' /\ ChangesTable(y)' => x = y
  BY Zenon, <1>1 DEF ChangesTable
<1>3. \A x \in Callers : mthr'[x].pc # "check" /\ mthr'[x].pc \notin {"free", "wrfree", "create"}
  BY Zenon, <1>1 DEF Changing
<1> QED BY Zenon, <1>2, <1>3 DEF OneChange

\* What mountentry_init, mountentry_fini and the unlocking make of an entry.
LEMMA EntryForms ==
    ASSUME NEW m \in EntryStates
    PROVE  /\ \A a \in Addrs \cup {NoMnt} :
                /\ mountentry_init(m, a) \in EntryStates /\ mountentry_init(m, a).mnt = a
                /\ mountentry_init(m, a).epoch = m.epoch + 1 /\ mountentry_init(m, a).rd = m.rd
           /\ mountentry_wrunlock(m) \in EntryStates /\ mountentry_wrunlock(m).wr = Nobody
           /\ mountentry_wrunlock(m).rd = m.rd /\ mountentry_wrunlock(m).epoch = m.epoch
           /\ mountentry_wrunlock(m).mnt = m.mnt
<1>1. m.epoch + 1 \in Nat BY DEF EntryStates
<1>2. ASSUME NEW a \in Addrs \cup {NoMnt}
      PROVE  /\ mountentry_init(m, a) \in EntryStates /\ mountentry_init(m, a).mnt = a
             /\ mountentry_init(m, a).epoch = m.epoch + 1 /\ mountentry_init(m, a).rd = m.rd
  <2> PICK k \in Nat : k = m.epoch + 1 BY Zenon, <1>1
  <2>1. mountentry_init(m, a) = [m EXCEPT !.mnt = a, !.epoch = k] BY Zenon DEF mountentry_init
  <2> QED BY Zenon, <2>1 DEF EntryStates
<1>3. /\ mountentry_wrunlock(m) \in EntryStates /\ mountentry_wrunlock(m).wr = Nobody
      /\ mountentry_wrunlock(m).rd = m.rd /\ mountentry_wrunlock(m).epoch = m.epoch
      /\ mountentry_wrunlock(m).mnt = m.mnt
  BY Zenon DEF mountentry_wrunlock, EntryStates
<1> QED BY Zenon, <1>2, <1>3

\* The object that pfs_create_mount makes.
LEMMA CreatedMount ==
    ASSUME MtTypeOK, NEW a \in Addrs, NEW nm \in AnyName, NEW k \in Nat
    PROVE  \E o \in MountStates : /\ o = [pfs_create_mount(a, nm) EXCEPT !.epoch = k]
                                  /\ o.name = nm /\ o.live /\ o.epoch = k
<1>1. PICK q \in MountStates : q = mobj[a] BY Zenon DEF MtTypeOK
<1>2. q.birth \in Nat BY Zenon DEF MountStates
<1>3. PICK b \in Nat : b = q.birth + 1
  <2>1. \A x \in Nat : x + 1 \in Nat OBVIOUS
  <2> QED BY Zenon, <1>2, <2>1
<1> DEFINE c == [name |-> nm, epoch |-> 0, live |-> TRUE, birth |-> b]
<1>4. pfs_create_mount(a, nm) = c BY Zenon, <1>1, <1>3 DEF pfs_create_mount
<1>5. 0 \in Nat /\ TRUE \in BOOLEAN BY Zenon
<1>6. c \in MountStates BY Zenon, <1>5 DEF MountStates
<1>7. c.name = nm BY Zenon
<1>8. c.live = TRUE BY Zenon
<1> HIDE DEF c
<1> DEFINE o == [c EXCEPT !.epoch = k]
<1>9. o \in MountStates /\ o.name = c.name /\ o.live = c.live /\ o.epoch = k BY Zenon, <1>6 DEF MountStates
<1>10. o = [pfs_create_mount(a, nm) EXCEPT !.epoch = k] BY Zenon, <1>4
<1> HIDE DEF o
<1> QED BY Zenon, <1>7, <1>8, <1>9, <1>10

\* pfs_mount of nm by t: the entry i becomes e, with the new mount o at the address a.
Created(t, r, i, nm, ep, a, e, o) ==
    /\ mthr[t].pc = "create" /\ i = mthr[t].i /\ nm = mthr[t].name /\ ep = mount_entry[i].epoch + 1
    /\ r.pc \in {"idle", "post"} /\ ~r.bad /\ MGo(t, r)
    /\ e.wr = Nobody /\ e.rd = mount_entry[i].rd /\ e.epoch = ep /\ e.mnt = a
    /\ ~mobj[a].live /\ o.name = nm /\ o.live /\ o.epoch = ep
    /\ mobj' = [mobj EXCEPT ![a] = o] /\ mount_entry' = [mount_entry EXCEPT ![i] = e]
    /\ mount_mutex' = mount_mutex /\ mdir' = mdir

\* pfs_mount has its entry: a mount at an address that no other mount has.
LEMMA CreateKeeps ==
    ASSUME MtInv, NEW t \in Callers, NEW r \in CallStates, NEW i \in Entry, NEW nm, NEW ep,
           NEW a \in Addrs, NEW e \in EntryStates, NEW o \in MountStates,
           Created(t, r, i, nm, ep, a, e, o)
    PROVE  MtInv'
<1> USE DEF Created
<1>5. a # NoMnt BY Zenon, MountTableAssumption DEF NoMnt
<1>6. \A j \in Entry : mount_entry[j].mnt # a BY Zenon, <1>5 DEF MtInv, MountsLive, isfree
<1>7. mthr[t].pc \in HoldsWrite BY Zenon, Kinds
<1>8. /\ MtTypeOK' /\ LocksHeld' /\ FoundHolds' /\ StreamsFresh'
      /\ mthr'[t] = r /\ \A x \in Callers : x # t => mthr'[x] = mthr[x]
      /\ mount_entry'[i] = e /\ mobj'[a] = o
      /\ \A j \in Entry : j # i => /\ mount_entry'[j] = mount_entry[j]
                                   /\ mobj'[mount_entry[j].mnt] = mobj[mount_entry[j].mnt]
  <2>1. TableChange(t, r, i, e, a, o) BY Zenon, <1>6, <1>7 DEF TableChange
  <2> QED BY TableMoves, <2>1
<1>9. MountsLive'
  <2>1. ASSUME NEW j \in Entry, mount_entry'[j].mnt # NoMnt
        PROVE  /\ mobj'[mount_entry'[j].mnt].live
               /\ mobj'[mount_entry'[j].mnt].epoch = mount_entry'[j].epoch
    <3>1. CASE j = i BY <1>8, <3>1
    <3>2. CASE j # i BY <1>8, <2>1, <3>2 DEF MtInv, MountsLive, isfree
    <3> QED BY Zenon, <3>1, <3>2
  <2>2. ASSUME NEW j \in Entry, NEW k \in Entry, mount_entry'[j].mnt # NoMnt,
               mount_entry'[j].mnt = mount_entry'[k].mnt
        PROVE  j = k
    <3>1. CASE j # i /\ k # i BY <1>8, <2>2, <3>1 DEF MtInv, MountsLive, isfree
    <3>2. CASE j = i \/ k = i BY <1>6, <1>8, <2>2, <3>2
    <3> QED BY Zenon, <3>1, <3>2
  <2> QED BY Zenon, <2>1, <2>2 DEF MountsLive, isfree
<1>10. ASSUME mount_mutex, NEW j \in Entry, NEW k \in Entry, NEW n \in AnyName,
              hasname(j, n)', hasname(k, n)'
       PROVE  j = k
  <2>1. \A l \in Entry : l # i => (hasname(l, n)' <=> hasname(l, n)) BY <1>8 DEF hasname
  <2>2. hasname(i, n)' => n = nm BY <1>8 DEF hasname
  <2>3. \A l \in Entry : ~hasname(l, nm) BY Zenon, <1>10 DEF MtInv, OneChange
  <2>4. CASE j # i /\ k # i BY Zenon, <1>10, <2>1, <2>4 DEF MtInv, OneChange
  <2>5. CASE j = i /\ k # i BY Zenon, <1>10, <2>1, <2>2, <2>3, <2>5
  <2>6. CASE j # i /\ k = i BY Zenon, <1>10, <2>1, <2>2, <2>3, <2>6
  <2> QED BY Zenon, <2>4, <2>5, <2>6
<1>11. OneChange'
  <2>1. mount_mutex => \A j, k \in Entry : \A n \in AnyName :
                          hasname(j, n)' /\ hasname(k, n)' => j = k
    BY Zenon, <1>10
  <2> QED BY ChangeEnds, <1>7, <1>8, <2>1
<1> QED BY Zenon, <1>8, <1>9, <1>11 DEF MtInv

\* pfs_umount destroys the mount and frees its entry.
LEMMA DestroyKeeps ==
    ASSUME MtInv, NEW t \in Callers, UmountDestroy(t), UNCHANGED mount_mutex
    PROVE  MtInv'
<1>1. PICK i \in Entry : i = mthr[t].i BY Zenon DEF MtInv, MtTypeOK, CallStates
<1>2. PICK m \in EntryStates : m = mount_entry[i] BY Zenon DEF MtInv, MtTypeOK
<1>3. m.mnt # NoMnt BY Zenon, <1>1, <1>2 DEF MtInv, FoundHolds, hasname, UmountDestroy
<1>4. PICK a \in Addrs : a = m.mnt BY Zenon, <1>3 DEF EntryStates
<1>5. PICK q \in MountStates : q = mobj[a] BY Zenon DEF MtInv, MtTypeOK
<1>6. PICK e \in EntryStates : /\ e = mountentry_wrunlock(mountentry_fini(m)) /\ e.wr = Nobody
                               /\ e.rd = m.rd /\ e.epoch = m.epoch + 1 /\ e.mnt = NoMnt
  <2>1. NoMnt \in Addrs \cup {NoMnt} BY Zenon
  <2> DEFINE f == mountentry_fini(m)
  <2>2. f \in EntryStates /\ f.mnt = NoMnt /\ f.epoch = m.epoch + 1 /\ f.rd = m.rd
    BY Zenon, <2>1, EntryForms DEF mountentry_fini, mountentry_init
  <2> HIDE DEF f
  <2>3. /\ mountentry_wrunlock(f) \in EntryStates /\ mountentry_wrunlock(f).wr = Nobody
        /\ mountentry_wrunlock(f).rd = f.rd /\ mountentry_wrunlock(f).epoch = f.epoch
        /\ mountentry_wrunlock(f).mnt = f.mnt
    BY Zenon, <2>2, EntryForms
  <2> QED BY Zenon, <2>2, <2>3 DEF f
<1>7. PICK o \in MountStates : o = pfs_destroy_mount(q) /\ o.birth = q.birth
  <2>1. pfs_destroy_mount(q) \in MountStates /\ pfs_destroy_mount(q).birth = q.birth
    BY Zenon DEF MountStates, pfs_destroy_mount
  <2> QED BY Zenon, <2>1
<1>8. mount_entry' = [mount_entry EXCEPT ![i] = e] BY Zenon, <1>1, <1>2, <1>6 DEF UmountDestroy
<1>9. mobj' = [mobj EXCEPT ![a] = o] BY Zenon, <1>1, <1>2, <1>4, <1>5, <1>7 DEF UmountDestroy
<1>10. \A j \in Entry : j # i => mount_entry[j].mnt # a
  BY Zenon, <1>2, <1>3, <1>4 DEF MtInv, MountsLive, isfree
<1>11. mthr[t].pc \in HoldsWrite BY Zenon, Kinds DEF UmountDestroy
<1>12. PICK r \in CallStates : r.pc \in {"idle", "post"} /\ ~r.bad /\ MGo(t, r)
  BY Zenon, IdleMayGo DEF UmountDestroy, MIdle
<1>13. mdir' = mdir BY Zenon DEF UmountDestroy
<1>14. /\ MtTypeOK' /\ LocksHeld' /\ FoundHolds' /\ StreamsFresh'
       /\ mthr'[t] = r /\ \A x \in Callers : x # t => mthr'[x] = mthr[x]
       /\ mount_entry'[i] = e /\ mobj'[a] = o
       /\ \A j \in Entry : j # i => /\ mount_entry'[j] = mount_entry[j]
                                    /\ mobj'[mount_entry[j].mnt] = mobj[mount_entry[j].mnt]
  <2>1. TableChange(t, r, i, e, a, o)
    BY Zenon, <1>1, <1>2, <1>6, <1>8, <1>9, <1>10, <1>11, <1>12, <1>13 DEF TableChange
  <2> QED BY TableMoves, <2>1
<1>15. MountsLive' BY <1>6, <1>14 DEF MtInv, MountsLive, isfree
<1>16. ASSUME mount_mutex, NEW j \in Entry, NEW k \in Entry, NEW n \in AnyName,
              hasname(j, n)', hasname(k, n)'
       PROVE  j = k
  <2>1. \A l \in Entry : l # i => (hasname(l, n)' <=> hasname(l, n)) BY ZenonT(40), <1>14 DEF hasname
  <2>2. ~(hasname(i, n)') BY Zenon, <1>6, <1>14 DEF hasname
  <2>3. j # i /\ k # i BY Zenon, <1>16, <2>2
  <2> QED BY Zenon, <1>16, <2>1, <2>3 DEF MtInv, OneChange
<1>17. OneChange'
  <2>1. mount_mutex => \A j, k \in Entry : \A n \in AnyName :
                          hasname(j, n)' /\ hasname(k, n)' => j = k
    BY Zenon, <1>16
  <2>2. mount_mutex' = mount_mutex BY Zenon
  <2> QED BY ChangeEnds, <1>11, <1>12, <1>14, <2>1, <2>2
<1> QED BY Zenon, <1>14, <1>15, <1>17 DEF MtInv

\* opendir keeps the mount of the entry it has borrowed.
LEMMA DirOpenKeeps ==
    ASSUME MtInv, NEW t \in Callers, pfs_dir_open(t), UNCHANGED mount_mutex
    PROVE  MtInv'
<1>1. PICK i \in Entry : i = mthr[t].i BY DEF MtInv, MtTypeOK, CallStates
<1>2. PICK m \in EntryStates : m = mount_entry[i] BY DEF MtInv, MtTypeOK
<1>3. m.mnt \in Addrs
  <2>1. m.mnt # NoMnt BY Zenon, <1>1, <1>2 DEF MtInv, FoundHolds, isfree, pfs_dir_open, HoldsRead
  <2> QED BY Zenon, <2>1 DEF EntryStates
<1>4. mobj[m.mnt].birth \in Nat BY Zenon, <1>3 DEF MtInv, MtTypeOK, MountStates
<1> DEFINE d == [id |-> i, mnt |-> m.mnt, epoch |-> m.epoch, birth |-> mobj[m.mnt].birth]
<1>5. mdir' = [mdir EXCEPT ![t] = d] BY Zenon, <1>1, <1>2 DEF pfs_dir_open
<1>6. d \in StreamStates /\ d.id = i /\ d.mnt = m.mnt /\ d.epoch = m.epoch /\ d.birth = mobj[m.mnt].birth
  BY Zenon, <1>3, <1>4 DEF StreamStates, EntryStates
<1>7. UNCHANGED <<mount_entry, mobj, mthr>> BY Zenon DEF pfs_dir_open
<1> HIDE DEF d
<1>8. mdir' \in [Callers -> StreamStates] /\ mdir'[t] = d /\ \A x \in Callers : x # t => mdir'[x] = mdir[x]
  BY Zenon, <1>5, <1>6 DEF MtInv, MtTypeOK
<1>9. MtTypeOK' BY Zenon, <1>7, <1>8 DEF MtInv, MtTypeOK
<1>10. LocksHeld' BY <1>7 DEF MtInv, LocksHeld
<1>11. FoundHolds' BY Zenon, <1>7 DEF MtInv, FoundHolds, isfree, hasname
<1>12. MountsLive' BY Zenon, <1>7 DEF MtInv, MountsLive, isfree
<1>13. OneChange' BY Zenon, <1>7 DEF MtInv, OneChange, ChangesTable, hasname
<1>14. StreamsFresh'
  <2> SUFFICES ASSUME NEW x \in Callers
               PROVE  /\ ~mthr'[x].bad
                      /\ mthr'[x].pc = "readdir" => mthr'[x].i = mdir'[x].id
                      /\ mdir'[x].id # 0 =>
                           /\ mdir'[x].mnt \in Addrs
                           /\ mdir'[x].epoch <= mount_entry'[mdir'[x].id].epoch
                           /\ mdir'[x].epoch = mount_entry'[mdir'[x].id].epoch =>
                                /\ mount_entry'[mdir'[x].id].mnt = mdir'[x].mnt
                                /\ mobj'[mdir'[x].mnt].birth = mdir'[x].birth
    BY Zenon DEF StreamsFresh
  <2>1. CASE x = t
    <3>1. mthr[t].pc = "using" /\ ~mthr[t].bad BY Zenon DEF pfs_dir_open, MtInv, StreamsFresh
    <3>2. m.epoch <= m.epoch BY DEF EntryStates
    <3> QED BY Zenon, <1>2, <1>3, <1>6, <1>7, <1>8, <2>1, <3>1, <3>2
  <2>2. CASE x # t BY ZenonT(40), <1>7, <1>8, <2>2 DEF MtInv, StreamsFresh
  <2> QED BY Zenon, <2>1, <2>2
<1> QED BY Zenon, <1>9, <1>10, <1>11, <1>12, <1>13, <1>14 DEF MtInv

\* The steps that start a call.
LEMMA BeginKeeps ==
    ASSUME MtInv, NEW t \in Callers, mthr[t].pc = "idle", UNCHANGED mount_mutex,
           NEW n \in PbdNames, NEW p \in {"check", "uget", "get"},
           p # "get" => Serial(t),
           MGo(t, First(p, n)), UNCHANGED <<mount_entry, mobj, mdir>>
    PROVE  MtInv'
<1>1. p \in HoldsNone /\ "idle" \in HoldsNone /\ "get" \notin Changing BY Zenon, Kinds
<1> PICK r : r = First(p, n) BY Zenon
<1>2. PICK s \in CallStates : s = mthr[t] BY Zenon DEF MtInv, MtTypeOK
<1>3. r \in CallStates /\ r.pc = p /\ r.i = 1 /\ r.bad = FALSE
  BY Zenon, <1>1, FirstForm
<1>4. MGo(t, r) BY Zenon
<1>5. mount_mutex /\ r.pc \in Changing => \A x \in Callers : ~ChangesTable(x)
  BY Zenon, <1>1, <1>3 DEF Serial
<1>6. \A j \in Entry : ~(j < 1) BY DEF Entry
<1>7. ~r.bad /\ r.pc \notin {"free", "wrfree", "create"} BY Zenon, <1>3
<1> QED BY Zenon, SearchKeeps, <1>1, <1>3, <1>4, <1>5, <1>6, <1>7

\* An entry is the one that was looked for, or no longer is: a step to another search.
LEMMA StepKeeps ==
    ASSUME MtInv, NEW t \in Callers, UNCHANGED mount_mutex, NEW p, NEW r,
           \/ mthr[t].pc = "check" /\ p = "idle"
           \/ mthr[t].pc = "free" /\ p = "wrfree"
           \/ mthr[t].pc = "wrfree" /\ p = "free"
           \/ mthr[t].pc = "ufind" /\ p = "uwr"
           \/ mthr[t].pc = "uwr" /\ p = "ufind",
           r = [mthr[t] EXCEPT !.pc = p] \/ r = [mthr[t] EXCEPT !.pc = p, !.i = 1],
           MGo(t, r), UNCHANGED <<mount_entry, mobj, mdir>>
    PROVE  MtInv'
<1>1. PICK s \in CallStates : s = mthr[t] /\ ~s.bad BY Zenon DEF MtInv, MtTypeOK, StreamsFresh
<1>2. p \in HoldsNone /\ s.pc \in HoldsNone /\ (p \in Changing => ChangesTable(t)) /\ p # "check" /\ p # "create"
  BY Zenon, <1>1 DEF HoldsNone, Changing, ChangesTable
<1>3. 1 \in Entry BY Zenon, CallForms, <1>1
<1>4. r \in CallStates /\ r.pc = p /\ r.name = s.name /\ r.bad = s.bad
  BY ZenonT(40), <1>1, <1>2, <1>3 DEF CallStates
<1>5. mount_mutex /\ r.pc \in {"free", "wrfree", "create"} => \A j \in Entry : ~hasname(j, r.name)
  BY Zenon, <1>1, <1>2, <1>4 DEF MtInv, OneChange
<1> QED BY Zenon, SearchKeeps, <1>1, <1>2, <1>4, <1>5

\* The invariant is kept by every step of a call.
LEMMA StepsKeep ==
    ASSUME MtInv, NEW t \in Callers, UNCHANGED mount_mutex
    PROVE  /\ MountBegin(t) => MtInv'
           /\ MountCheck(t) => MtInv'
           /\ MountFree(t) => MtInv'
           /\ MountLock(t) => MtInv'
           /\ MountPost(t) => MtInv'
           /\ UmountBegin(t) => MtInv'
           /\ UmountAdmin(t) => MtInv'
           /\ UmountFind(t) => MtInv'
           /\ UmountLock(t) => MtInv'
           /\ pfs_get_mount(t) => MtInv'
<1>1. PICK s \in CallStates : s = mthr[t] /\ ~s.bad /\ s.i \in Entry
  BY Zenon DEF MtInv, MtTypeOK, StreamsFresh, CallStates
<1>2. MIdle \in CallStates /\ 1 \in Entry BY Zenon, CallForms
<1>3. ASSUME NEW p \in {"posting", "ufini", "using"}, Found(t, "name"), mthr[t].pc \in {"post", "uget", "get"},
             p # "using" => mthr[t].pc # "get", Borrowed(t, mthr[t].i, p)
      PROVE  MtInv'
  <2>1. rdlock(s.i) /\ ~isfree(s.i, "") BY Zenon, <1>1, <1>3 DEF Found, Cond, hasname, isfree
  <2>2. p \in HoldsRead /\ mthr[t].pc \in HoldsNone /\ p # "readdir" BY Zenon, <1>3 DEF HoldsRead, HoldsNone
  <2>3. p \in Changing => ChangesTable(t) BY Zenon, <1>3 DEF Changing, ChangesTable
  <2>4. Borrowed(t, s.i, p) BY Zenon, <1>1, <1>3
  <2> QED BY Zenon, BorrowedKeeps, <1>1, <2>1, <2>2, <2>3, <2>4
<1>4. ASSUME NEW kind, find_iter(t, kind, MIdle), mthr[t].pc \in HoldsNone \ {"check"} PROVE MtInv'
  BY Zenon, FindIterKeeps, <1>2, <1>4
<1>5. ASSUME MountBegin(t) PROVE MtInv'
  <2>1. PICK n \in PbdNames : MGo(t, First("check", n)) BY Zenon, <1>5 DEF MountBegin, First
  <2>2. mthr[t].pc = "idle" /\ Serial(t) /\ UNCHANGED <<mount_entry, mobj, mdir>>
    BY Zenon, <1>5 DEF MountBegin
  <2> QED BY Zenon, BeginKeeps, <2>1, <2>2
<1>6. ASSUME MountCheck(t) PROVE MtInv'
  <2>1. mthr[t].pc = "check" /\ "check" \in HoldsNone BY Zenon, <1>6 DEF MountCheck, HoldsNone
  <2>2. CASE At(t, "idle") BY Zenon, StepKeeps, <2>1, <2>2 DEF At
  <2>3. CASE find_iter(t, "name", [s EXCEPT !.pc = "free", !.i = 1])
    <3>1. [s EXCEPT !.pc = "free", !.i = 1] \in CallStates BY Zenon, <1>2 DEF CallStates, HoldsNone
    <3> DEFINE r == [s EXCEPT !.pc = "free", !.i = 1]
    <3>2. r \in CallStates /\ r = [mthr[t] EXCEPT !.pc = "free", !.i = 1] /\ find_iter(t, "name", r)
      BY Zenon, <1>1, <2>3, <3>1
    <3> HIDE DEF r
    <3> QED BY Zenon, FindIterKeeps, <2>1, <3>2
  <2> QED BY Zenon, <1>1, <1>6, <2>2, <2>3 DEF MountCheck
<1>7. ASSUME MountFree(t) PROVE MtInv'
  <2>1. mthr[t].pc = "free" /\ "free" \in HoldsNone BY Zenon, <1>7 DEF MountFree, HoldsNone
  <2>2. CASE At(t, "wrfree") BY Zenon, StepKeeps, <2>1, <2>2 DEF At
  <2>3. CASE find_iter(t, "free", MIdle) BY Zenon, <1>4, <2>1, <2>3
  <2> QED BY Zenon, <1>7, <2>2, <2>3 DEF MountFree
<1>8. ASSUME MountLock(t) PROVE MtInv'
  <2>1. /\ mthr[t].pc = "wrfree" /\ wrlock(mthr[t].i) /\ "wrfree" \in HoldsNone /\ "create" \in HoldsWrite
        /\ "wrfree" \in Changing
    BY Zenon, <1>8 DEF MountLock, HoldsNone, HoldsWrite, Changing
  <2>2. CASE Upgrade(t, "free")
    <3>1. isfree(mthr[t].i, "") BY Zenon, <2>2 DEF Upgrade, Cond, isfree
    <3> QED BY Zenon, WrLockKeeps, <1>8, <2>1, <2>2, <3>1 DEF MountLock, ChangesTable
  <2>3. CASE MStep(t, "free") BY Zenon, StepKeeps, <2>1, <2>3 DEF MStep
  <2> QED BY Zenon, <1>8, <2>2, <2>3 DEF MountLock
<1>9. ASSUME MountPost(t) PROVE MtInv'
  <2>1. mthr[t].pc = "post" /\ "post" \in HoldsNone BY Zenon, <1>9 DEF MountPost, HoldsNone
  <2> QED BY Zenon, <1>3, <1>4, <1>9, <2>1 DEF MountPost
<1>10. ASSUME UmountBegin(t) PROVE MtInv'
  <2>1. PICK n \in PbdNames : MGo(t, First("uget", n)) BY Zenon, <1>10 DEF UmountBegin, First
  <2>2. mthr[t].pc = "idle" /\ Serial(t) /\ UNCHANGED <<mount_entry, mobj, mdir>>
    BY Zenon, <1>10 DEF UmountBegin
  <2> QED BY Zenon, BeginKeeps, <2>1, <2>2
<1>11. ASSUME UmountAdmin(t) PROVE MtInv'
  <2>1. mthr[t].pc = "uget" /\ "uget" \in HoldsNone BY Zenon, <1>11 DEF UmountAdmin, HoldsNone
  <2> QED BY Zenon, <1>3, <1>4, <1>11, <2>1 DEF UmountAdmin
<1>12. ASSUME UmountFind(t) PROVE MtInv'
  <2>1. mthr[t].pc = "ufind" /\ "ufind" \in HoldsNone BY Zenon, <1>12 DEF UmountFind, HoldsNone
  <2>2. CASE At(t, "uwr") BY Zenon, StepKeeps, <2>1, <2>2 DEF At
  <2>3. CASE find_iter(t, "name", MIdle) BY Zenon, <1>4, <2>1, <2>3
  <2> QED BY Zenon, <1>12, <2>2, <2>3 DEF UmountFind
<1>13. ASSUME UmountLock(t) PROVE MtInv'
  <2>1. /\ mthr[t].pc = "uwr" /\ wrlock(mthr[t].i) /\ "uwr" \in HoldsNone /\ "destroy" \in HoldsWrite
        /\ "uwr" \in Changing
    BY Zenon, <1>13 DEF UmountLock, HoldsNone, HoldsWrite, Changing
  <2>2. CASE Upgrade(t, "name")
    <3>1. hasname(mthr[t].i, mthr[t].name) BY Zenon, <2>2 DEF Upgrade, Cond
    <3> QED BY Zenon, WrLockKeeps, <1>13, <2>1, <2>2, <3>1 DEF UmountLock, ChangesTable
  <2>3. CASE MStep(t, "ufind") BY Zenon, StepKeeps, <2>1, <2>3 DEF MStep
  <2> QED BY Zenon, <1>13, <2>2, <2>3 DEF UmountLock
<1>14. ASSUME pfs_get_mount(t) PROVE MtInv'
  <2>1. CASE mthr[t].pc = "idle"
    <3>1. PICK n \in PbdNames : MGo(t, First("get", n)) BY Zenon, <1>14, <2>1 DEF pfs_get_mount, First
    <3>2. UNCHANGED <<mount_entry, mobj, mdir>> BY Zenon, <1>14, <2>1 DEF pfs_get_mount
    <3> QED BY Zenon, BeginKeeps, <2>1, <3>1, <3>2
  <2>2. CASE mthr[t].pc = "get"
    <3>1. "get" \in HoldsNone BY Zenon DEF HoldsNone
    <3> QED BY Zenon, <1>3, <1>4, <1>14, <2>2, <3>1 DEF pfs_get_mount
  <2> QED BY Zenon, <1>14, <2>1, <2>2 DEF pfs_get_mount
<1> QED BY Zenon, <1>5, <1>6, <1>7, <1>8, <1>9, <1>10, <1>11, <1>12, <1>13, <1>14

\* pfs_mount creates the mount, or fails.
LEMMA MountCreateKeeps ==
    ASSUME MtInv, NEW t \in Callers, MountCreate(t), UNCHANGED mount_mutex
    PROVE  MtInv'
<1>1. PICK s \in CallStates : s = mthr[t] /\ ~s.bad /\ s.i \in Entry /\ s.name \in AnyName
  BY Zenon DEF MtInv, MtTypeOK, StreamsFresh, CallStates
<1>2. PICK m \in EntryStates : m = mount_entry[s.i] /\ m.epoch \in Nat
  BY Zenon, <1>1 DEF MtInv, MtTypeOK, EntryStates
<1>3. mthr[t].pc = "create" /\ mdir' = mdir BY Zenon DEF MountCreate
<1>4. CASE /\ mount_entry' = [mount_entry EXCEPT ![s.i] = mountentry_wrunlock(@)]
           /\ \/ MGo(t, MIdle)
              \/ MGo(t, [s EXCEPT !.pc = "check", !.i = 1])
           /\ UNCHANGED mobj
  BY Zenon, CreateFails, <1>1, <1>3, <1>4
<1>5. ASSUME NEW a \in {x \in Addrs : ~mobj[x].live},
             mobj' = [mobj EXCEPT ![a] = [pfs_create_mount(a, s.name) EXCEPT !.epoch = m.epoch + 1]],
             mount_entry' = [mount_entry EXCEPT ![s.i] = mountentry_wrunlock(mountentry_init(@, a))],
             \/ MGo(t, MIdle)
             \/ MGo(t, [s EXCEPT !.pc = "post", !.i = 1])
      PROVE  MtInv'
  <2>1. PICK r \in CallStates : r.pc \in {"idle", "post"} /\ ~r.bad /\ MGo(t, r)
    <3>1. CASE MGo(t, MIdle) BY Zenon, <3>1, CallForms, <1>1
    <3>2. CASE MGo(t, [s EXCEPT !.pc = "post", !.i = 1])
      <4>1. 1 \in Entry /\ "post" \in HoldsNone BY Zenon, CallForms, <1>1, Kinds
      <4>2. /\ [s EXCEPT !.pc = "post", !.i = 1] \in CallStates
            /\ [s EXCEPT !.pc = "post", !.i = 1].pc = "post"
            /\ [s EXCEPT !.pc = "post", !.i = 1].bad = s.bad
        BY Zenon, <4>1 DEF CallStates
      <4> QED BY Zenon, <1>1, <3>2, <4>2
    <3> QED BY Zenon, <1>5, <3>1, <3>2
  <2>2. m.epoch + 1 \in Nat BY <1>2
  <2>3. PICK ep \in Nat : ep = m.epoch + 1 BY Zenon, <2>2
  <2>4. PICK o \in MountStates : /\ o = [pfs_create_mount(a, s.name) EXCEPT !.epoch = ep]
                                 /\ o.name = s.name /\ o.live /\ o.epoch = ep
    BY CreatedMount, <1>1 DEF MtInv
  <2>5. mobj' = [mobj EXCEPT ![a] = o] BY Zenon, <1>5, <2>3, <2>4
  <2>6. PICK e \in EntryStates : /\ e = mountentry_wrunlock(mountentry_init(m, a)) /\ e.wr = Nobody
                                 /\ e.rd = m.rd /\ e.epoch = ep /\ e.mnt = a
    <3> DEFINE f == mountentry_init(m, a)
    <3>1. a \in Addrs \cup {NoMnt} BY Zenon
    <3>2. f \in EntryStates /\ f.mnt = a /\ f.epoch = m.epoch + 1 /\ f.rd = m.rd
      BY <3>1, EntryForms
    <3> HIDE DEF f
    <3>3. /\ mountentry_wrunlock(f) \in EntryStates /\ mountentry_wrunlock(f).wr = Nobody
          /\ mountentry_wrunlock(f).rd = f.rd /\ mountentry_wrunlock(f).epoch = f.epoch
          /\ mountentry_wrunlock(f).mnt = f.mnt
      BY Zenon, <3>2, EntryForms
    <3> QED BY Zenon, <2>3, <3>2, <3>3 DEF f
  <2>7. mount_entry' = [mount_entry EXCEPT ![s.i] = e] BY Zenon, <1>2, <1>5, <2>6
  <2>8. a \in Addrs /\ ~mobj[a].live BY Zenon
  <2>9. /\ s.i = mthr[t].i /\ s.name = mthr[t].name /\ ep = mount_entry[s.i].epoch + 1
        /\ e.rd = mount_entry[s.i].rd /\ s.i \in Entry
    BY Zenon, <1>1, <1>2, <2>3, <2>6
  <2>10. Created(t, r, s.i, s.name, ep, a, e, o)
    BY Zenon, <1>3, <2>1, <2>4, <2>5, <2>6, <2>7, <2>8, <2>9 DEF Created
  <2> QED BY Zenon, CreateKeeps, <2>1, <2>4, <2>6, <2>8, <2>9, <2>10
<1> QED BY Zenon, <1>1, <1>2, <1>4, <1>5 DEF MountCreate

\* A step that changes nothing.
LEMMA MtStutters ==
    ASSUME MtInv, UNCHANGED <<mount_entry, mobj, mdir, mthr>>, UNCHANGED mount_mutex
    PROVE  MtInv'
<1>1. MtTypeOK' BY Zenon DEF MtInv, MtTypeOK
<1>2. LocksHeld' BY DEF MtInv, LocksHeld
<1>3. FoundHolds' BY Zenon DEF MtInv, FoundHolds, isfree, hasname
<1>4. MountsLive' BY Zenon DEF MtInv, MountsLive, isfree
<1>5. StreamsFresh' BY Zenon DEF MtInv, StreamsFresh
<1>6. OneChange' BY Zenon DEF MtInv, OneChange, ChangesTable, hasname
<1> QED BY Zenon, <1>1, <1>2, <1>3, <1>4, <1>5, <1>6 DEF MtInv

\* readdir and closedir borrow the mount that is in the entry of the stream.
LEMMA ByIdKeeps ==
    ASSUME MtInv, NEW t \in Callers, pfs_get_mount_byid(t), UNCHANGED mount_mutex
    PROVE  MtInv'
<1>1. PICK i \in Entry : i = mdir[t].id
  BY Zenon DEF MtInv, MtTypeOK, StreamStates, pfs_get_mount_byid
<1>2. CASE isfree(i, "")
  <2>1. UNCHANGED <<mount_entry, mobj, mdir, mthr>> BY Zenon, <1>1, <1>2 DEF pfs_get_mount_byid
  <2> QED BY Zenon, <2>1, MtStutters
<1>3. CASE ~isfree(i, "")
  <2>1. mthr[t].pc = "idle" /\ rdlock(i) /\ Borrowed(t, i, "readdir")
    BY Zenon, <1>1, <1>3 DEF pfs_get_mount_byid
  <2>2. "idle" \in HoldsNone /\ "readdir" \in HoldsRead /\ "readdir" \notin Changing
    BY Zenon DEF HoldsNone, HoldsRead, Changing
  <2> QED BY Zenon, BorrowedKeeps, <1>1, <1>3, <2>1, <2>2
<1> QED BY Zenon, <1>2, <1>3

\* The empty table.
LEMMA MtInitInv == MtInit => MtInv
<1> SUFFICES ASSUME MtInit PROVE MtInv BY Zenon
<1>1. MIdle \in CallStates /\ MIdle.pc = "idle" /\ MIdle.bad = FALSE
  BY MountTableAssumption DEF MIdle, CallStates, Entry, HoldsNone, AnyName
<1> DEFINE e == [mnt |-> NoMnt, epoch |-> 1, wr |-> Nobody, rd |-> {}]
<1>2. e \in EntryStates /\ e.mnt = NoMnt /\ e.wr = Nobody /\ e.rd = {}
  BY Zenon DEF EntryStates
<1>3. \A i \in Entry : mount_entry[i] = e BY Zenon DEF MtInit
<1>4. \A t \in Callers : mthr[t] = MIdle /\ mdir[t] = NoDir BY Zenon DEF MtInit
<1>5. MtTypeOK
  <2>1. mount_entry \in [Entry -> EntryStates] BY Zenon, <1>2 DEF MtInit
  <2>2. mobj \in [Addrs -> MountStates]
    <3> DEFINE o == [name |-> "", epoch |-> 0, live |-> FALSE, birth |-> 0]
    <3>1. 0 \in Nat /\ FALSE \in BOOLEAN BY Zenon
    <3>2. "" \in AnyName BY Zenon DEF AnyName
    <3>3. o \in MountStates BY Zenon, <3>1, <3>2 DEF MountStates
    <3>4. mobj = [a \in Addrs |-> o] BY Zenon DEF MtInit
    <3> HIDE DEF o
    <3> QED BY Zenon, <3>3, <3>4
  <2>3. mdir \in [Callers -> StreamStates]
    <3>1. NoDir \in StreamStates BY Zenon DEF NoDir, StreamStates, NoMnt
    <3> QED BY Zenon, <3>1 DEF MtInit
  <2>4. mthr \in [Callers -> CallStates] BY Zenon, <1>1 DEF MtInit
  <2> QED BY Zenon, <2>1, <2>2, <2>3, <2>4 DEF MtTypeOK, MtInit
<1> HIDE DEF e
<1>6. LocksHeld
  <2>1. "idle" \notin HoldsWrite /\ "idle" \notin HoldsRead /\ \A t \in Callers : t # Nobody
    BY Zenon, MountTableAssumption DEF HoldsWrite, HoldsRead
  <2> QED BY Zenon, <1>1, <1>2, <1>3, <1>4, <2>1 DEF LocksHeld
<1>7. FoundHolds BY Zenon, <1>1, <1>4 DEF FoundHolds, HoldsRead
<1>8. MountsLive BY Zenon, <1>2, <1>3 DEF MountsLive, isfree
<1>9. StreamsFresh BY <1>1, <1>4 DEF StreamsFresh, NoDir
<1>10. OneChange BY Zenon, <1>1, <1>2, <1>3, <1>4 DEF OneChange, ChangesTable, Changing, hasname
<1> QED BY Zenon, <1>5, <1>6, <1>7, <1>8, <1>9, <1>10 DEF MtInv

\* What the invariant says of the calls, the borrowed mounts and the streams.
LEMMA MtInvSound == MtInv => TableSound
<1> SUFFICES ASSUME MtInv PROVE TableSound BY Zenon
<1>1. EntryTakenOnce
  <2>1. ASSUME mount_mutex, NEW i \in Entry, NEW j \in Entry, i # j, ~isfree(i, ""), ~isfree(j, "")
        PROVE  mobj[mount_entry[i].mnt].name # mobj[mount_entry[j].mnt].name
    <3>1. mobj[mount_entry[i].mnt].name \in AnyName
      BY Zenon, <2>1 DEF MtInv, MtTypeOK, EntryStates, MountStates, isfree
    <3>2. PICK n \in AnyName : n = mobj[mount_entry[i].mnt].name BY Zenon, <3>1
    <3>3. hasname(i, n) BY Zenon, <2>1, <3>2 DEF hasname, isfree
    <3>4. ~hasname(j, n) BY Zenon, <2>1, <3>3 DEF MtInv, OneChange
    <3> QED BY Zenon, <2>1, <3>2, <3>4 DEF hasname, isfree
  <2> QED BY Zenon, <2>1 DEF EntryTakenOnce, MtInv, FoundHolds
<1>2. BorrowedIsLive
  <2>1. ASSUME NEW i \in Entry, mount_entry[i].rd # {}
        PROVE  ~isfree(i, "")
    <3>1. PICK t \in Callers : t \in mount_entry[i].rd BY Zenon, <2>1 DEF MtInv, MtTypeOK, EntryStates
    <3>2. mthr[t].pc \in HoldsRead /\ mthr[t].i = i BY Zenon, <3>1 DEF MtInv, LocksHeld
    <3>3. ~isfree(mthr[t].i, "") BY Zenon, <3>2 DEF MtInv, FoundHolds
    <3> QED BY Zenon, <3>2, <3>3
  <2> QED BY Zenon, <2>1 DEF BorrowedIsLive, MtInv, MountsLive
<1>3. StreamIsOfMount BY Zenon DEF StreamIsOfMount, MtInv, StreamsFresh
<1> QED BY Zenon, <1>1, <1>2, <1>3 DEF TableSound

\* Every step of the table keeps the invariant.
LEMMA MtNextInv == MtInv /\ [MtNext]_mtvars => MtInv'
<1> SUFFICES ASSUME MtInv, [MtNext]_mtvars PROVE MtInv' BY Zenon
<1>1. CASE UNCHANGED mtvars BY Zenon, <1>1, MtStutters DEF mtvars
<1>2. CASE MtNext
  <2>1. UNCHANGED mount_mutex BY Zenon, <1>2 DEF MtNext
  <2>2. PICK t \in Callers :
          \/ MountBegin(t) \/ MountCheck(t) \/ MountFree(t) \/ MountLock(t) \/ MountCreate(t)
          \/ MountPost(t) \/ UmountBegin(t) \/ UmountAdmin(t) \/ UmountFind(t) \/ UmountLock(t)
          \/ UmountDestroy(t) \/ pfs_get_mount(t) \/ pfs_dir_open(t) \/ pfs_get_mount_byid(t)
          \/ pfs_put_mount(t)
    BY Zenon, <1>2 DEF MtNext
  <2> QED BY Zenon, <2>1, <2>2, StepsKeep, MountCreateKeeps, DestroyKeeps, DirOpenKeeps, ByIdKeeps, PutKeeps
<1> QED BY Zenon, <1>1, <1>2

\* The table of mounts is consistent in every reachable state: the calls hold the locks of
\* the entries they are at, what they found stays so while they hold them, the mounts in
\* the table are live, and an entry with the epoch of a stream has the stream's mount.
THEOREM MountTableInvariant == MtSpec => []MtInv
BY MtInitInv, MtNextInv, PTL DEF MtSpec

\* However many callers mount, umount and use however many devices: two mounts never take one
\* entry, a borrowed mount is never freed, and a directory stream that outlived its
\* mount is never taken for one of another mount, even at the same address.
THEOREM TableSoundAlways == MtSpec => []TableSound
BY MountTableInvariant, MtInvSound, PTL
=============================================================================
