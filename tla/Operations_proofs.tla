-------------------------- MODULE Operations_proofs --------------------------
(***************************************************************************)
(* What the shop sells and ships, for any number of processes, requests,   *)
(* tables, intents, gateway accounts, events, orders, documents, option    *)
(* values and carts: a list served from the cache is fresh enough for its  *)
(* reader, money is credited to the order it was paid for and a refund     *)
(* reaches the gateway that took it, the books are complete and the goods  *)
(* accounted for, a product is sold as what it is, and its stock is        *)
(* neither lost nor invented.                                              *)
(*                                                                         *)
(* Each theorem states it of the component's own specification and of the  *)
(* composition that TLC checks (PartStep).                                 *)
(***************************************************************************)
EXTENDS MCOperations, Sums_proofs

\* A step of the composition is a step of the component that is exercised, or leaves it alone.
LEMMA PartStep ==
    ASSUME [Next]_vars
    PROVE  /\ part' = part
           /\ part = "catalogue" => [CatalogueNext]_catalogueVars
           /\ part = "fulfilment" => [FulfilmentNext]_fulfilmentVars
           /\ part = "cache" => [CacheNext]_cacheVars
           /\ part = "gateways" => [GatewaysNext]_gatewaysVars
  BY DEF Next, vars

-----------------------------------------------------------------------------
(* Cached lists.                                                           *)

Loading == {"miss", "follow", "loaded", "store"}
Replaying == {"replay", "replayed"}
ReadRows == [pc : {"idle", "served"} \cup Replaying \cup Loading, ns : Namespaces \cup {None}, todo : SUBSET Namespaces,
             sent : Namespaces \cup {None}, ver : Nat, data : Nat, due : Nat, own : Nat]
WriteRows == [pc : {"idle", "committed", "next", "executed"}, todo : SUBSET Namespaces, sent : Namespaces \cup {None},
              wrote : [Namespaces -> Nat]]

CacheType ==
    /\ db \in [Namespaces -> Nat] /\ announced \in [Namespaces -> Nat]
    /\ ver \in [Namespaces -> Nat \cup {None}] /\ top \in Nat
    /\ entry \in [Namespaces -> [ver : Nat, data : Nat]]
    /\ DOMAIN proc = Procs /\ DOMAIN rd = Readers /\ wr \in [Writers -> WriteRows]
    /\ \A p \in Procs : proc[p] \in [down : BOOLEAN, missed : SUBSET Namespaces, flight : SUBSET ((Namespaces \cup {None}) \X Nat)]
    /\ noted \in [Procs -> [Namespaces -> Nat]] /\ finished \in [Procs -> [Namespaces -> Nat]]

\* An entry is no newer than the version, and one under the current version shows what was announced.
EntrySound(n) ==
    /\ announced[n] <= db[n]
    /\ entry[n].ver <= top
    /\ ver[n] # None => 0 < ver[n] /\ ver[n] <= top /\ entry[n].ver <= ver[n]
    /\ ver[n] = entry[n].ver => entry[n].data >= announced[n]

\* What a process has begun to announce was announced, unless the process still owes it or it was crossed off.
OwedSound(p, n) ==
    /\ finished[p][n] <= noted[p][n] /\ noted[p][n] <= db[n]
    /\ noted[p][n] <= announced[n] \/ n \in proc[p].missed \/ <<p, n>> \in dropped

WriterSound(w) ==
    /\ wr[w].pc = "committed" => \A n \in Namespaces : wr[w].wrote[n] <= db[n]
    /\ wr[w].pc \in {"next", "executed"} => \A n \in Namespaces : wr[w].wrote[n] <= noted[Home[w]][n]
    /\ wr[w].pc = "executed" => wr[w].sent \in Namespaces

Enough(data, q) == data >= q.due /\ data >= q.own

\* A request that is about to read relies on what was announced, or on what it will announce first; one that reads under the
\* current version finds what was announced.
ReaderSound(q) ==
    /\ q \in ReadRows
    /\ q.pc = "replayed" => q.sent \in Namespaces
    /\ q.pc \in Replaying =>
           /\ q.ns \in Namespaces /\ q.due <= announced[q.ns] /\ q.own <= db[q.ns]
           /\ q.own <= announced[q.ns] \/ q.ns \in q.todo
    /\ q.pc \in Loading =>
           /\ q.ns \in Namespaces /\ q.due <= db[q.ns] /\ q.own <= db[q.ns] /\ q.ver <= top
           /\ ver[q.ns] # None => q.ver <= ver[q.ns]
    /\ q.pc \in {"loaded", "store"} => Enough(q.data, q) /\ (ver[q.ns] = q.ver => q.data >= announced[q.ns])
    /\ q.pc = "served" => Enough(q.data, q)

\* What is loaded under a version is enough for everybody who waits under it.
Shareable(q, r) ==
    q.pc \in {"miss", "follow"} /\ r.pc \in {"loaded", "store"} /\ q.ns = r.ns /\ q.ver = r.ver => Enough(r.data, q)

CacheInv ==
    /\ CacheType
    /\ \A n \in Namespaces : EntrySound(n)
    /\ \A p \in Procs, n \in Namespaces : OwedSound(p, n)
    /\ \A w \in Writers : WriterSound(w)
    /\ \A r \in Readers : ReaderSound(rd[r])
    /\ \A q, r \in Readers : Shareable(rd[q], rd[r])

\* What every step keeps: writes, announcements and the clock only grow, and a namespace keeps its version and what was announced
\* under it, loses the version, or gets one that is newer than any it has had.
CacheGrows ==
    /\ top' >= top
    /\ \A n \in Namespaces :
          /\ db'[n] >= db[n] /\ announced'[n] >= announced[n] /\ announced'[n] <= db'[n]
          /\ ver'[n] # None => 0 < ver'[n] /\ ver'[n] <= top'
          /\ \/ ver'[n] = ver[n] /\ announced'[n] = announced[n]
             \/ ver'[n] = None
             \/ \A v \in Nat : v <= top /\ (ver[n] # None => v <= ver[n]) => v < ver'[n]

\* A request that a step leaves alone stays sound.
LEMMA ReaderKept ==
    ASSUME CacheType, CacheType', CacheGrows, NEW q, ReaderSound(q)
    PROVE  ReaderSound(q)'
<1>1. q \in ReadRows /\ None \notin Nat
  BY HomeAssumption DEF ReaderSound
<1>2. Enough(q.data, q) => Enough(q.data, q)'
  BY DEF Enough
<1>3. ASSUME q.pc \in Replaying
      PROVE  /\ q.ns \in Namespaces /\ q.due <= announced'[q.ns] /\ q.own <= db'[q.ns]
             /\ q.own <= announced'[q.ns] \/ q.ns \in q.todo
  <2>1. /\ q.ns \in Namespaces /\ q.due <= announced[q.ns] /\ q.own <= db[q.ns] /\ q.own \in Nat /\ q.due \in Nat
        /\ q.own <= announced[q.ns] \/ q.ns \in q.todo
    BY <1>1, <1>3 DEF ReaderSound, ReadRows
  <2>2. db[q.ns] \in Nat /\ db'[q.ns] \in Nat /\ announced[q.ns] \in Nat /\ announced'[q.ns] \in Nat
    BY <2>1 DEF CacheType
  <2>3. announced'[q.ns] >= announced[q.ns] /\ db'[q.ns] >= db[q.ns]
    BY <2>1 DEF CacheGrows
  <2> QED BY <2>1, <2>2, <2>3
<1>4. ASSUME q.pc \in Loading
      PROVE  /\ q.ns \in Namespaces /\ q.due <= db'[q.ns] /\ q.own <= db'[q.ns] /\ q.ver <= top'
             /\ ver'[q.ns] # None => q.ver <= ver'[q.ns]
             /\ (ver[q.ns] = q.ver => q.data >= announced[q.ns]) => (ver'[q.ns] = q.ver => q.data >= announced'[q.ns])
  <2>1. /\ q.ns \in Namespaces /\ q.due <= db[q.ns] /\ q.own <= db[q.ns] /\ q.ver <= top
        /\ ver[q.ns] # None => q.ver <= ver[q.ns]
    BY <1>4 DEF ReaderSound
  <2>2. q.due \in Nat /\ q.own \in Nat /\ q.ver \in Nat /\ q.data \in Nat
    BY <1>1 DEF ReadRows
  <2>3. db[q.ns] \in Nat /\ db'[q.ns] \in Nat /\ top \in Nat /\ top' \in Nat /\ ver'[q.ns] \in Nat \cup {None}
    BY <2>1 DEF CacheType
  <2>4. /\ top' >= top /\ db'[q.ns] >= db[q.ns]
        /\ \/ ver'[q.ns] = ver[q.ns] /\ announced'[q.ns] = announced[q.ns]
           \/ ver'[q.ns] = None
           \/ q.ver < ver'[q.ns]
    BY <2>1, <2>2 DEF CacheGrows
  <2> QED BY <1>1, <2>1, <2>2, <2>3, <2>4
<1> QED BY <1>1, <1>2, <1>3, <1>4 DEF ReaderSound, Loading, Replaying

\* Entries that a step leaves alone stay sound.
LEMMA EntryKept ==
    ASSUME CacheType, CacheType', CacheGrows, NEW n \in Namespaces, EntrySound(n), entry'[n] = entry[n]
    PROVE  EntrySound(n)'
<1>1. None \notin Nat /\ top \in Nat /\ top' \in Nat /\ ver'[n] \in Nat \cup {None} /\ ver[n] \in Nat \cup {None}
      /\ entry[n].ver \in Nat /\ entry[n].data \in Nat /\ announced[n] \in Nat /\ announced'[n] \in Nat
  BY HomeAssumption DEF CacheType
<1>2. /\ entry[n].ver <= top
      /\ ver[n] # None => entry[n].ver <= ver[n]
      /\ ver[n] = entry[n].ver => entry[n].data >= announced[n]
  BY DEF EntrySound
<1>3. /\ top' >= top /\ announced'[n] <= db'[n]
      /\ ver'[n] # None => 0 < ver'[n] /\ ver'[n] <= top'
      /\ \/ ver'[n] = ver[n] /\ announced'[n] = announced[n]
         \/ ver'[n] = None
         \/ entry[n].ver < ver'[n]
  BY <1>1, <1>2 DEF CacheGrows
<1>4. /\ entry[n].ver <= top'
      /\ ver'[n] # None => entry[n].ver <= ver'[n]
      /\ ver'[n] = entry[n].ver => entry[n].data >= announced'[n]
  BY <1>1, <1>2, <1>3
<1> QED BY <1>3, <1>4 DEF EntrySound

\* What processes owe stays sound while no process notes or finishes anything.
LEMMA OwedKept ==
    ASSUME CacheType, CacheType', CacheGrows, NEW p \in Procs, NEW n \in Namespaces, OwedSound(p, n),
           noted'[p] = noted[p], finished'[p] = finished[p],
           n \in proc[p].missed \/ <<p, n>> \in dropped => n \in proc'[p].missed \/ noted'[p][n] <= announced'[n] \/ <<p, n>> \in dropped'
    PROVE  OwedSound(p, n)'
<1>1. noted[p][n] \in Nat /\ finished[p][n] \in Nat /\ db[n] \in Nat /\ db'[n] \in Nat /\ announced[n] \in Nat /\ announced'[n] \in Nat
  BY DEF CacheType
<1>2. db'[n] >= db[n] /\ announced'[n] >= announced[n]
  BY DEF CacheGrows
<1>3. finished'[p][n] <= noted'[p][n] /\ noted'[p][n] <= db'[n]
  BY <1>1, <1>2 DEF OwedSound
<1>4. noted'[p][n] <= announced'[n] \/ n \in proc'[p].missed \/ <<p, n>> \in dropped'
  BY <1>1, <1>2 DEF OwedSound
<1> QED BY <1>3, <1>4 DEF OwedSound

\* A writer that a step leaves alone stays sound.
LEMMA WriterKept ==
    ASSUME CacheType, CacheType', CacheGrows, NEW w \in Writers, WriterSound(w), wr'[w] = wr[w],
           \A n \in Namespaces : noted'[Home[w]][n] >= noted[Home[w]][n]
    PROVE  WriterSound(w)'
<1>1. Home[w] \in Procs /\ wr[w] \in WriteRows
  BY HomeAssumption DEF CacheType
<1>2. \A n \in Namespaces : wr[w].wrote[n] \in Nat /\ db[n] \in Nat /\ db'[n] \in Nat /\ noted[Home[w]][n] \in Nat /\ noted'[Home[w]][n] \in Nat
                            /\ announced[n] \in Nat /\ announced'[n] \in Nat
  BY <1>1 DEF CacheType, WriteRows
<1>4. \A n \in Namespaces : db'[n] >= db[n] /\ announced'[n] >= announced[n]
  BY DEF CacheGrows
<1>5. wr[w].pc = "committed" => \A n \in Namespaces : wr[w].wrote[n] <= db'[n]
  <2> SUFFICES ASSUME wr[w].pc = "committed", NEW n \in Namespaces PROVE wr[w].wrote[n] <= db'[n]
    OBVIOUS
  <2>1. wr[w].wrote[n] <= db[n]
    BY DEF WriterSound
  <2> QED BY <1>2, <1>4, <2>1
<1>6. wr[w].pc \in {"next", "executed"} => \A n \in Namespaces : wr[w].wrote[n] <= noted'[Home[w]][n]
  <2> SUFFICES ASSUME wr[w].pc \in {"next", "executed"}, NEW n \in Namespaces PROVE wr[w].wrote[n] <= noted'[Home[w]][n]
    OBVIOUS
  <2>1. wr[w].wrote[n] <= noted[Home[w]][n]
    BY DEF WriterSound
  <2> QED BY <1>2, <2>1
<1>7. wr[w].pc = "executed" => wr[w].sent \in Namespaces
  BY DEF WriterSound
<1> QED BY <1>5, <1>6, <1>7 DEF WriterSound

\* Requests that a step leaves alone stay sound, alone and together.
LEMMA ReadersKept ==
    ASSUME CacheInv, CacheType', CacheGrows, rd' = rd
    PROVE  /\ \A r \in Readers : ReaderSound(rd[r])'
           /\ \A q, r \in Readers : Shareable(rd[q], rd[r])'
<1>1. ASSUME NEW r \in Readers PROVE ReaderSound(rd[r])'
  <2>1. PICK q : q = rd[r]
    OBVIOUS
  <2>2. ReaderSound(q) /\ CacheType
    BY <2>1 DEF CacheInv
  <2>3. ReaderSound(q)'
    BY <2>2, ReaderKept
  <2>4. rd'[r] = q
    BY <2>1
  <2> QED BY <2>3, <2>4
<1>2. ASSUME NEW q \in Readers, NEW r \in Readers PROVE Shareable(rd[q], rd[r])'
  <2>1. Shareable(rd[q], rd[r])
    BY DEF CacheInv
  <2> QED BY <2>1 DEF Shareable, Enough
<1> QED BY <1>1, <1>2

\* A step that changes one request.
LEMMA OneRequest ==
    ASSUME CacheInv, CacheType', CacheGrows, NEW r \in Readers, NEW q, rd' = [rd EXCEPT ![r] = q],
           ReaderSound(q)',
           \A s \in Readers : \A x : s # r /\ x = rd[s] => Shareable(q, x)' /\ Shareable(x, q)'
    PROVE  /\ \A s \in Readers : ReaderSound(rd[s])'
           /\ \A s, t \in Readers : Shareable(rd[s], rd[t])'
<1>0. rd'[r] = q /\ \A s \in Readers : s # r => rd'[s] = rd[s]
  BY DEF CacheInv, CacheType
<1>1. ASSUME NEW s \in Readers PROVE ReaderSound(rd[s])'
  <2>1. CASE s = r
    BY <1>0, <2>1
  <2>2. CASE s # r
    <3>1. PICK x : x = rd[s]
      OBVIOUS
    <3>2. ReaderSound(x) /\ CacheType
      BY <3>1 DEF CacheInv
    <3>3. ReaderSound(x)'
      BY <3>2, ReaderKept
    <3> QED BY <1>0, <2>2, <3>1, <3>3
  <2> QED BY <2>1, <2>2
<1>2. ASSUME NEW s \in Readers, NEW t \in Readers PROVE Shareable(rd[s], rd[t])'
  <2>1. PICK x : x = rd[s]
    OBVIOUS
  <2>2. PICK y : y = rd[t]
    OBVIOUS
  <2>3. CASE s # r /\ t # r
    <3>1. Shareable(x, y)
      BY <2>1, <2>2 DEF CacheInv
    <3>2. Shareable(x, y)'
      BY <3>1 DEF Shareable, Enough
    <3> QED BY <1>0, <2>1, <2>2, <2>3, <3>2
  <2>4. CASE s = r /\ t # r
    <3>1. Shareable(q, y)'
      BY <2>2, <2>4
    <3> QED BY <1>0, <2>2, <2>4, <3>1
  <2>5. CASE s # r /\ t = r
    <3>1. Shareable(x, q)'
      BY <2>1, <2>5
    <3> QED BY <1>0, <2>1, <2>5, <3>1
  <2>6. CASE s = r /\ t = r
    BY <1>0, <2>6 DEF Shareable
  <2> QED BY <2>3, <2>4, <2>5, <2>6
<1> QED BY <1>1, <1>2

\* A step that leaves Redis's versions, the database and the announcements alone.
LEMMA CacheStill == ASSUME CacheInv, UNCHANGED <<db, ver, top, announced>> PROVE CacheGrows
<1>1. ASSUME NEW n \in Namespaces
      PROVE  /\ db'[n] >= db[n] /\ announced'[n] >= announced[n] /\ announced'[n] <= db'[n]
             /\ ver'[n] # None => 0 < ver'[n] /\ ver'[n] <= top'
             /\ ver'[n] = ver[n] /\ announced'[n] = announced[n]
  <2>1. db[n] \in Nat /\ announced[n] \in Nat /\ EntrySound(n)
    BY DEF CacheInv, CacheType
  <2> QED BY <2>1 DEF EntrySound
<1>2. top' >= top
  BY DEF CacheInv, CacheType
<1> QED BY <1>1, <1>2 DEF CacheGrows

\* Redis executes an invalidation: the version is new, and everything committed is announced.
LEMMA BumpGrows ==
    ASSUME CacheInv, NEW n \in Namespaces, Bump(n), UNCHANGED db
    PROVE  /\ CacheGrows
           /\ ver' \in [Namespaces -> Nat \cup {None}] /\ top' \in Nat /\ announced' \in [Namespaces -> Nat]
           /\ announced'[n] = db[n]
<1>0. /\ None \notin Nat /\ top \in Nat /\ ver \in [Namespaces -> Nat \cup {None}] /\ announced \in [Namespaces -> Nat]
      /\ db \in [Namespaces -> Nat] /\ \A m \in Namespaces : EntrySound(m)
  BY HomeAssumption DEF CacheInv, CacheType
<1>1. PICK b : b = Bumped(n)
  OBVIOUS
<1>2. b \in Nat /\ 0 < b /\ \A v \in Nat : v <= top /\ (ver[n] # None => v <= ver[n]) => v < b
  BY <1>0, <1>1 DEF Bumped
<1>3. ver' = [ver EXCEPT ![n] = b] /\ top' = (IF b > top THEN b ELSE top) /\ announced' = [announced EXCEPT ![n] = db[n]]
  BY <1>1 DEF Bump
<1>4. top' \in Nat /\ top' >= top /\ b <= top'
  BY <1>0, <1>2, <1>3
<1>5. ASSUME NEW m \in Namespaces
      PROVE  /\ db'[m] >= db[m] /\ announced'[m] >= announced[m] /\ announced'[m] <= db'[m]
             /\ ver'[m] # None => 0 < ver'[m] /\ ver'[m] <= top'
             /\ \/ ver'[m] = ver[m] /\ announced'[m] = announced[m]
                \/ ver'[m] = None
                \/ \A v \in Nat : v <= top /\ (ver[m] # None => v <= ver[m]) => v < ver'[m]
  <2>1. announced[m] <= db[m] /\ announced[m] \in Nat /\ db[m] \in Nat
    BY <1>0 DEF EntrySound
  <2>2. CASE m = n
    <3>1. ver'[m] = b /\ announced'[m] = db[m]
      BY <1>0, <1>3, <2>2
    <3> QED BY <1>2, <1>4, <2>1, <2>2, <3>1
  <2>3. CASE m # n
    <3>1. ver'[m] = ver[m] /\ announced'[m] = announced[m]
      BY <1>0, <1>3, <2>3
    <3>2. ver[m] # None => 0 < ver[m] /\ ver[m] <= top
      BY <1>0 DEF EntrySound
    <3>3. ver[m] \in Nat \cup {None}
      BY <1>0
    <3> QED BY <1>0, <1>4, <2>1, <3>1, <3>2, <3>3
  <2> QED BY <2>2, <2>3
<1>6. ver' \in [Namespaces -> Nat \cup {None}] /\ announced' \in [Namespaces -> Nat] /\ announced'[n] = db[n]
  BY <1>0, <1>2, <1>3
<1> QED BY <1>4, <1>5, <1>6 DEF CacheGrows

\* A process's row.
ProcRows == [down : BOOLEAN, missed : SUBSET Namespaces, flight : SUBSET ((Namespaces \cup {None}) \X Nat)]

\* Changing one process's row.
LEMMA OneProc ==
    ASSUME CacheType, NEW p \in Procs, NEW x \in ProcRows, proc' = [proc EXCEPT ![p] = x]
    PROVE  DOMAIN proc' = Procs /\ proc'[p] = x /\ (\A y \in Procs : y # p => proc'[y] = proc[y]) /\ \A y \in Procs : proc'[y] \in ProcRows
<1>1. DOMAIN proc = Procs /\ \A y \in Procs : proc[y] \in ProcRows
  BY DEF CacheType, ProcRows
<1> QED BY <1>1

\* What is owed stays owed or is announced when Redis executes an invalidation.
LEMMA BumpOwed ==
    ASSUME CacheInv, NEW n \in Namespaces, Bump(n), UNCHANGED <<db, proc, noted>>, NEW p \in Procs, NEW m \in Namespaces,
           m \in proc[p].missed \/ <<p, m>> \in dropped
    PROVE  m \in proc'[p].missed \/ noted'[p][m] <= announced'[m] \/ <<p, m>> \in dropped'
<1>1. dropped' = {d \in dropped : d[2] # n} /\ announced' = [announced EXCEPT ![n] = db[n]]
  BY DEF Bump
<1>2. CASE m = n
  <2>1. announced'[m] = db[m] /\ noted[p][m] <= db[m]
    BY <1>1, <1>2 DEF CacheInv, CacheType, OwedSound
  <2> QED BY <2>1
<1>3. CASE m # n
  <2>1. <<p, m>>[2] = m
    OBVIOUS
  <2> QED BY <1>1, <1>3, <2>1
<1> QED BY <1>2, <1>3

\* A namespace that is crossed off was announced, or is remembered as crossed off.
LEMMA CrossOffOwed ==
    ASSUME CacheInv, NEW p \in Procs, NEW n \in Namespaces, CrossOff(p, n), UNCHANGED <<announced, noted>>
    PROVE  /\ DOMAIN proc' = Procs /\ \A y \in Procs : proc'[y] \in ProcRows
           /\ \A y \in Procs, m \in Namespaces :
                 m \in proc[y].missed \/ <<y, m>> \in dropped => m \in proc'[y].missed \/ noted'[y][m] <= announced'[m] \/ <<y, m>> \in dropped'
<1>1. /\ proc' = [proc EXCEPT ![p].missed = @ \ {n}]
      /\ dropped' = dropped \cup {d \in {<<p, n>>} : n \in proc[p].missed /\ announced[n] < noted[p][n]}
  BY DEF CrossOff
<1>2. CacheType /\ proc[p] \in ProcRows /\ DOMAIN proc = Procs
  BY DEF CacheInv, CacheType, ProcRows
<1>3. PICK x : x = [proc[p] EXCEPT !.missed = @ \ {n}]
  OBVIOUS
<1>4. x \in ProcRows /\ x.missed = proc[p].missed \ {n} /\ proc' = [proc EXCEPT ![p] = x]
  BY <1>1, <1>2, <1>3 DEF ProcRows
<1>5. DOMAIN proc' = Procs /\ proc'[p] = x /\ (\A y \in Procs : y # p => proc'[y] = proc[y]) /\ \A y \in Procs : proc'[y] \in ProcRows
  BY <1>2, <1>4, OneProc
<1>6. ASSUME NEW y \in Procs, NEW m \in Namespaces, m \in proc[y].missed \/ <<y, m>> \in dropped
      PROVE  m \in proc'[y].missed \/ noted'[y][m] <= announced'[m] \/ <<y, m>> \in dropped'
  <2>1. CASE <<y, m>> \in dropped
    BY <1>1, <2>1
  <2>2. CASE m \in proc[y].missed /\ y = p /\ m = n
    <3>1. announced[n] \in Nat /\ noted[p][n] \in Nat
      BY <1>2 DEF CacheType
    <3>2. CASE announced[n] < noted[p][n]
      BY <1>1, <2>2, <3>2
    <3>3. CASE ~(announced[n] < noted[p][n])
      BY <2>2, <3>1, <3>3
    <3> QED BY <3>2, <3>3
  <2>3. CASE m \in proc[y].missed /\ (y # p \/ m # n)
    BY <1>4, <1>5, <2>3
  <2> QED BY <1>6, <2>1, <2>2, <2>3
<1> QED BY <1>5, <1>6

\* The parts of the invariant, put together.
LEMMA CacheTogether ==
    ASSUME CacheType',
           \A n \in Namespaces : EntrySound(n)',
           \A p \in Procs, n \in Namespaces : OwedSound(p, n)',
           \A w \in Writers : WriterSound(w)',
           \A r \in Readers : ReaderSound(rd[r])',
           \A q, r \in Readers : Shareable(rd[q], rd[r])'
    PROVE  CacheInv'
  BY DEF CacheInv

\* A step that leaves the entries, the requests for lists and what processes have noted alone.
LEMMA WriterOnly ==
    ASSUME CacheInv, CacheType', CacheGrows, UNCHANGED <<entry, rd>>, NEW w \in Writers, WriterSound(w)',
           \A x \in Writers : x # w => wr'[x] = wr[x],
           \A p \in Procs, n \in Namespaces : noted'[p][n] >= noted[p][n],
           \A p \in Procs, n \in Namespaces : OwedSound(p, n)'
    PROVE  CacheInv'
<1>1. ASSUME NEW n \in Namespaces PROVE EntrySound(n)'
  BY EntryKept DEF CacheInv
<1>2. ASSUME NEW x \in Writers PROVE WriterSound(x)'
  <2>1. CASE x = w
    BY <2>1
  <2>2. CASE x # w
    <3>1. WriterSound(x) /\ CacheType /\ Home[x] \in Procs
      BY HomeAssumption DEF CacheInv
    <3>2. \A n \in Namespaces : noted'[Home[x]][n] >= noted[Home[x]][n]
      BY <3>1
    <3> QED BY <2>2, <3>1, <3>2, WriterKept
  <2> QED BY <2>1, <2>2
<1>3. /\ \A r \in Readers : ReaderSound(rd[r])'
      /\ \A q, r \in Readers : Shareable(rd[q], rd[r])'
  BY ReadersKept
<1> QED BY <1>1, <1>2, <1>3, CacheTogether

\* A step that only one request takes, and that no process's books see.
LEMMA ReaderOnly ==
    ASSUME CacheInv, CacheType', CacheGrows, UNCHANGED <<wr, noted, finished>>, NEW r \in Readers, NEW q,
           rd' = [rd EXCEPT ![r] = q], ReaderSound(q)',
           \A s \in Readers : \A x : s # r /\ x = rd[s] => Shareable(q, x)' /\ Shareable(x, q)',
           \A n \in Namespaces : EntrySound(n)',
           \A p \in Procs, n \in Namespaces :
              n \in proc[p].missed \/ <<p, n>> \in dropped => n \in proc'[p].missed \/ noted'[p][n] <= announced'[n] \/ <<p, n>> \in dropped'
    PROVE  CacheInv'
<1>1. ASSUME NEW w \in Writers PROVE WriterSound(w)'
  <2>1. WriterSound(w) /\ CacheType /\ Home[w] \in Procs /\ wr'[w] = wr[w]
    BY HomeAssumption DEF CacheInv
  <2>2. \A n \in Namespaces : noted'[Home[w]][n] >= noted[Home[w]][n]
    BY <2>1 DEF CacheType
  <2> QED BY <2>1, <2>2, WriterKept
<1>2. ASSUME NEW p \in Procs, NEW n \in Namespaces PROVE OwedSound(p, n)'
  BY OwedKept DEF CacheInv
<1>3. /\ \A s \in Readers : ReaderSound(rd[s])'
      /\ \A s, t \in Readers : Shareable(rd[s], rd[t])'
  BY OneRequest
<1> QED BY <1>1, <1>2, <1>3, CacheTogether

\* An empty request and an empty write are rows.
LEMMA CacheRows == NoRead \in ReadRows /\ NoWrite \in WriteRows /\ Never \in [Namespaces -> Nat]
  BY DEF NoRead, ReadRows, NoWrite, WriteRows, Never

\* A commit.
LEMMA CommitInv == ASSUME CacheInv, NEW w \in Writers, NEW table \in Tables, Commit(w, table) PROVE CacheInv'
<1>0. CacheType /\ db \in [Namespaces -> Nat] /\ wr \in [Writers -> WriteRows] /\ \A n \in Namespaces : EntrySound(n)
  BY DEF CacheInv, CacheType
<1>1. PICK f : f = [n \in Namespaces |-> IF n \in TableNamespaces(table) THEN db[n] + 1 ELSE 0]
  OBVIOUS
<1>2. PICK x : x = [NoWrite EXCEPT !.pc = "committed", !.wrote = f]
  OBVIOUS
<1>3. f \in [Namespaces -> Nat] /\ \A n \in Namespaces : f[n] <= db'[n]
  BY <1>0, <1>1 DEF Commit
<1>4. x.pc = "committed" /\ x.wrote = f /\ x \in WriteRows
  BY <1>2, <1>3, CacheRows DEF NoWrite, WriteRows
<1>5. wr' = [wr EXCEPT ![w] = x]
  BY <1>1, <1>2 DEF Commit
<1>6. wr'[w] = x /\ wr' \in [Writers -> WriteRows] /\ \A y \in Writers : y # w => wr'[y] = wr[y]
  BY <1>0, <1>4, <1>5
<1>7. db' \in [Namespaces -> Nat] /\ \A n \in Namespaces : db'[n] >= db[n]
  BY <1>0 DEF Commit
<1>8. UNCHANGED <<ver, top, entry, proc, rd, announced, noted, finished, dropped>>
  BY DEF Commit, history
<1>9. CacheGrows
  <2>1. ASSUME NEW n \in Namespaces
        PROVE  /\ db'[n] >= db[n] /\ announced'[n] >= announced[n] /\ announced'[n] <= db'[n]
               /\ ver'[n] # None => 0 < ver'[n] /\ ver'[n] <= top'
               /\ ver'[n] = ver[n] /\ announced'[n] = announced[n]
    <3>1. db[n] \in Nat /\ announced[n] \in Nat /\ EntrySound(n) /\ db'[n] \in Nat
      BY <1>0, <1>7 DEF CacheType
    <3> QED BY <1>7, <1>8, <3>1 DEF EntrySound
  <2>2. top' >= top
    BY <1>0, <1>8 DEF CacheType
  <2> QED BY <1>8, <2>1, <2>2 DEF CacheGrows
<1>10. CacheType'
  BY <1>0, <1>6, <1>7, <1>8 DEF CacheType
<1>11. WriterSound(w)'
  BY <1>3, <1>4, <1>6 DEF WriterSound
<1>12. ASSUME NEW p \in Procs, NEW n \in Namespaces PROVE OwedSound(p, n)' /\ noted'[p][n] >= noted[p][n]
  <2>1. OwedSound(p, n) /\ noted[p][n] \in Nat
    BY DEF CacheInv, CacheType
  <2>2. noted'[p] = noted[p] /\ finished'[p] = finished[p] /\ proc'[p] = proc[p]
    BY <1>8
  <2>3. n \in proc[p].missed \/ <<p, n>> \in dropped => n \in proc'[p].missed \/ <<p, n>> \in dropped'
    BY <1>8
  <2> QED BY <1>0, <1>9, <1>10, <2>1, <2>2, <2>3, OwedKept
<1> QED BY <1>6, <1>8, <1>9, <1>10, <1>11, <1>12, WriterOnly

\* flush_pending goes on or returns: what it has finished was noted.
LEMMA GoOnSound ==
    ASSUME CacheInv, NEW w \in Writers, NEW todo, todo \subseteq Namespaces, GoOn(w, todo),
           noted' \in [Procs -> [Namespaces -> Nat]],
           \A n \in Namespaces : wr[w].wrote[n] <= noted'[Home[w]][n],
           \A p \in Procs, n \in Namespaces : noted'[p][n] >= noted[p][n]
    PROVE  /\ wr' \in [Writers -> WriteRows] /\ finished' \in [Procs -> [Namespaces -> Nat]]
           /\ WriterSound(w)' /\ \A x \in Writers : x # w => wr'[x] = wr[x]
           /\ \A p \in Procs, n \in Namespaces : finished'[p][n] <= noted'[p][n]
<1>0. /\ wr \in [Writers -> WriteRows] /\ finished \in [Procs -> [Namespaces -> Nat]] /\ noted \in [Procs -> [Namespaces -> Nat]]
      /\ Home[w] \in Procs
      /\ \A p \in Procs, n \in Namespaces : finished[p][n] <= noted[p][n]
  BY HomeAssumption DEF CacheInv, CacheType, OwedSound
<1>1. PICK x : x = IF todo = {} THEN NoWrite ELSE [NoWrite EXCEPT !.pc = "next", !.todo = todo, !.wrote = wr[w].wrote]
  OBVIOUS
<1>2. PICK p : p = Home[w]
  OBVIOUS
<1>3. wr[w] \in WriteRows
  BY <1>0
<1>4. wr[w].wrote \in [Namespaces -> Nat]
  BY <1>3 DEF WriteRows
<1>5. x \in WriteRows /\ x.pc \in {"idle", "next"} /\ (x.pc = "next" => x.wrote = wr[w].wrote)
  BY <1>1, <1>4, CacheRows DEF NoWrite, WriteRows
<1>6. wr' = [wr EXCEPT ![w] = x]
  BY <1>1 DEF GoOn
<1>7. wr' \in [Writers -> WriteRows] /\ wr'[w] = x /\ \A y \in Writers : y # w => wr'[y] = wr[y]
  BY <1>0, <1>5, <1>6
<1>8. WriterSound(w)'
  BY <1>5, <1>7 DEF WriterSound
<1>9. PICK g : g = Later(finished[p], wr[w].wrote)
  OBVIOUS
<1>10. g \in [Namespaces -> Nat] /\ \A n \in Namespaces : g[n] <= noted'[p][n]
  <2>1. finished[p] \in [Namespaces -> Nat] /\ noted[p] \in [Namespaces -> Nat] /\ noted'[p] \in [Namespaces -> Nat] /\ p \in Procs
    BY <1>0, <1>2
  <2>2. g = [n \in Namespaces |-> IF wr[w].wrote[n] > finished[p][n] THEN wr[w].wrote[n] ELSE finished[p][n]]
    BY <1>9 DEF Later
  <2>3. ASSUME NEW n \in Namespaces PROVE g[n] \in Nat /\ g[n] <= noted'[p][n]
    <3>1. finished[p][n] \in Nat /\ noted[p][n] \in Nat /\ noted'[p][n] \in Nat /\ wr[w].wrote[n] \in Nat
      BY <1>4, <2>1
    <3>2. finished[p][n] <= noted[p][n] /\ noted'[p][n] >= noted[p][n] /\ wr[w].wrote[n] <= noted'[p][n]
      BY <1>0, <1>2
    <3> QED BY <2>2, <3>1, <3>2
  <2> QED BY <2>2, <2>3
<1>11. finished' = finished \/ finished' = [finished EXCEPT ![p] = g]
  BY <1>2, <1>9 DEF GoOn
<1>12. finished' \in [Procs -> [Namespaces -> Nat]] /\ \A y \in Procs : finished'[y] = finished[y] \/ (y = p /\ finished'[y] = g)
  BY <1>0, <1>2, <1>10, <1>11
<1>13. ASSUME NEW y \in Procs, NEW n \in Namespaces PROVE finished'[y][n] <= noted'[y][n]
  <2>1. finished[y][n] \in Nat /\ noted[y][n] \in Nat /\ noted'[y][n] \in Nat /\ finished[y][n] <= noted[y][n] /\ noted'[y][n] >= noted[y][n]
    BY <1>0
  <2> QED BY <1>10, <1>12, <2>1
<1> QED BY <1>7, <1>8, <1>12, <1>13

\* invalidate notes what the transaction wrote.
LEMMA InvalidateInv == ASSUME CacheInv, NEW w \in Writers, Invalidate(w) PROVE CacheInv'
<1>1. PICK p : p = Home[w]
  OBVIOUS
<1>2. PICK names : names = {n \in Namespaces : wr[w].wrote[n] > 0}
  OBVIOUS
<1>3. PICK m : m = proc[p].missed \cup names
  OBVIOUS
<1>4. PICK f : f = wr[w].wrote
  OBVIOUS
<1>5. p \in Procs /\ proc[p] \in [down : BOOLEAN, missed : SUBSET Namespaces, flight : SUBSET ((Namespaces \cup {None}) \X Nat)]
      /\ CacheType /\ noted \in [Procs -> [Namespaces -> Nat]] /\ wr[w] \in WriteRows /\ db \in [Namespaces -> Nat]
  BY <1>1, HomeAssumption DEF CacheInv, CacheType
<1>6. f \in [Namespaces -> Nat] /\ m \subseteq Namespaces /\ proc[p].missed \subseteq m /\ \A n \in Namespaces : f[n] > 0 => n \in m
  BY <1>2, <1>3, <1>4, <1>5 DEF WriteRows
<1>7. /\ proc' = [proc EXCEPT ![p].missed = m] /\ noted' = [noted EXCEPT ![p] = Later(noted[p], f)]
      /\ GoOn(w, IF proc[p].down THEN {} ELSE proc'[p].missed)
      /\ UNCHANGED <<db, ver, top, entry, rd, announced, dropped>> /\ wr[w].pc = "committed"
  BY <1>1, <1>2, <1>3, <1>4 DEF Invalidate, Remembered
<1>8. DOMAIN proc' = Procs /\ proc'[p] = [proc[p] EXCEPT !.missed = m] /\ \A y \in Procs : y # p => proc'[y] = proc[y]
  BY <1>5, <1>7 DEF CacheType
<1>9. proc'[p].missed = m /\ proc'[p] \in [down : BOOLEAN, missed : SUBSET Namespaces, flight : SUBSET ((Namespaces \cup {None}) \X Nat)]
  BY <1>5, <1>6, <1>8
<1>10. PICK g : g = Later(noted[p], f)
  OBVIOUS
<1>11. g \in [Namespaces -> Nat] /\ \A n \in Namespaces : g[n] >= noted[p][n] /\ g[n] >= f[n] /\ (g[n] = f[n] \/ g[n] = noted[p][n])
  <2>1. noted[p] \in [Namespaces -> Nat]
    BY <1>5
  <2> QED BY <1>6, <1>10, <2>1 DEF Later
<1>12. noted' \in [Procs -> [Namespaces -> Nat]] /\ noted'[p] = g /\ \A y \in Procs : y # p => noted'[y] = noted[y]
  BY <1>5, <1>7, <1>10, <1>11
<1>13. \A y \in Procs, n \in Namespaces : noted'[y][n] >= noted[y][n]
  <2> SUFFICES ASSUME NEW y \in Procs, NEW n \in Namespaces PROVE noted'[y][n] >= noted[y][n]
    OBVIOUS
  <2>1. noted[y][n] \in Nat
    BY <1>5
  <2> QED BY <1>11, <1>12, <2>1
<1>14. PICK todo : todo = IF proc[p].down THEN {} ELSE proc'[p].missed
  OBVIOUS
<1>15. todo \subseteq Namespaces /\ GoOn(w, todo)
  BY <1>6, <1>7, <1>9, <1>14
<1>16. \A n \in Namespaces : wr[w].wrote[n] <= noted'[Home[w]][n]
  <2> SUFFICES ASSUME NEW n \in Namespaces PROVE f[n] <= g[n]
    BY <1>1, <1>4, <1>12
  <2> QED BY <1>6, <1>11
<1>17. /\ wr' \in [Writers -> WriteRows] /\ finished' \in [Procs -> [Namespaces -> Nat]]
       /\ WriterSound(w)' /\ \A x \in Writers : x # w => wr'[x] = wr[x]
       /\ \A y \in Procs, n \in Namespaces : finished'[y][n] <= noted'[y][n]
  BY <1>12, <1>13, <1>15, <1>16, GoOnSound
<1>18. CacheGrows
  BY <1>7, CacheStill
<1>19. CacheType'
  <2>1. \A y \in Procs : proc'[y] \in [down : BOOLEAN, missed : SUBSET Namespaces, flight : SUBSET ((Namespaces \cup {None}) \X Nat)]
    BY <1>5, <1>8, <1>9 DEF CacheType
  <2> QED BY <1>5, <1>7, <1>8, <1>12, <1>17, <2>1 DEF CacheType
<1>20. ASSUME NEW y \in Procs, NEW n \in Namespaces PROVE OwedSound(y, n)'
  <2>1. OwedSound(y, n) /\ noted[y][n] \in Nat /\ announced[n] \in Nat /\ db[n] \in Nat
    BY <1>5 DEF CacheInv, CacheType
  <2>2. f[n] <= db[n]
    BY <1>4, <1>7 DEF CacheInv, WriterSound
  <2>3. noted'[y][n] <= db'[n]
    BY <1>6, <1>7, <1>11, <1>12, <2>1, <2>2 DEF OwedSound
  <2>4. noted'[y][n] <= announced'[n] \/ n \in proc'[y].missed \/ <<y, n>> \in dropped'
    <3>1. CASE y # p
      BY <1>7, <1>8, <1>12, <2>1, <3>1 DEF OwedSound
    <3>2. CASE y = p
      <4>1. CASE f[n] > 0
        BY <1>6, <1>9, <3>2, <4>1
      <4>2. CASE f[n] = 0
        <5>1. g[n] = noted[p][n]
          BY <1>11, <2>1, <3>2, <4>2
        <5> QED BY <1>6, <1>7, <1>9, <1>12, <2>1, <3>2, <5>1 DEF OwedSound
      <4> QED BY <1>6, <4>1, <4>2
    <3> QED BY <3>1, <3>2
  <2> QED BY <1>17, <2>3, <2>4 DEF OwedSound
<1> QED BY <1>7, <1>13, <1>17, <1>18, <1>19, <1>20, WriterOnly

\* Redis executes an invalidation for a writer.
LEMMA SendBumpInv == ASSUME CacheInv, NEW w \in Writers, NEW n \in Namespaces, SendBump(w, n) PROVE CacheInv'
<1>0. CacheType /\ wr \in [Writers -> WriteRows] /\ wr[w] \in WriteRows /\ db[n] \in Nat /\ WriterSound(w) /\ Home[w] \in Procs
  BY HomeAssumption DEF CacheInv, CacheType
<1>1. Bump(n) /\ UNCHANGED <<db, entry, proc, rd, noted, finished>> /\ wr[w].pc = "next"
  BY DEF SendBump
<1>2. /\ CacheGrows
      /\ ver' \in [Namespaces -> Nat \cup {None}] /\ top' \in Nat /\ announced' \in [Namespaces -> Nat]
      /\ announced'[n] = db[n]
  BY <1>1, BumpGrows
<1>3. PICK x : x = [wr[w] EXCEPT !.pc = "executed", !.sent = n, !.todo = @ \ {n}]
  OBVIOUS
<1>4. wr' = [wr EXCEPT ![w] = x]
  BY <1>0, <1>3 DEF SendBump, WriteRows
<1>5. x \in WriteRows /\ x.pc = "executed" /\ x.sent = n /\ x.wrote = wr[w].wrote
  BY <1>0, <1>3 DEF WriteRows
<1>6. wr' \in [Writers -> WriteRows] /\ wr'[w] = x /\ \A y \in Writers : y # w => wr'[y] = wr[y]
  BY <1>0, <1>4, <1>5
<1>7. CacheType'
  BY <1>0, <1>1, <1>2, <1>6 DEF CacheType
<1>8. WriterSound(w)'
  <2>1. \A m \in Namespaces : x.wrote[m] <= noted'[Home[w]][m]
    BY <1>0, <1>1, <1>5 DEF WriterSound
  <2> QED BY <1>5, <1>6, <2>1 DEF WriterSound
<1>9. ASSUME NEW p \in Procs, NEW m \in Namespaces PROVE OwedSound(p, m)' /\ noted'[p][m] >= noted[p][m]
  <2>1. OwedSound(p, m) /\ noted[p][m] \in Nat
    BY DEF CacheInv, CacheType
  <2>2. noted'[p] = noted[p] /\ finished'[p] = finished[p]
    BY <1>1
  <2>3. m \in proc[p].missed \/ <<p, m>> \in dropped => m \in proc'[p].missed \/ noted'[p][m] <= announced'[m] \/ <<p, m>> \in dropped'
    BY <1>1, BumpOwed
  <2> QED BY <1>0, <1>2, <1>7, <2>1, <2>2, <2>3, OwedKept
<1> QED BY <1>1, <1>2, <1>6, <1>7, <1>8, <1>9, WriterOnly

\* The answer arrives, and the namespace is crossed off.
LEMMA BumpAnsweredInv == ASSUME CacheInv, NEW w \in Writers, BumpAnswered(w) PROVE CacheInv'
<1>1. PICK p : p = Home[w]
  OBVIOUS
<1>2. PICK n : n = wr[w].sent
  OBVIOUS
<1>3. wr[w].pc = "executed" /\ CrossOff(p, n) /\ GoOn(w, wr[w].todo) /\ UNCHANGED <<db, ver, top, entry, rd, announced, noted>>
  BY <1>1, <1>2 DEF BumpAnswered
<1>4. CacheType /\ p \in Procs /\ wr[w] \in WriteRows /\ WriterSound(w) /\ noted \in [Procs -> [Namespaces -> Nat]]
  BY <1>1, HomeAssumption DEF CacheInv, CacheType
<1>5. n \in Namespaces /\ wr[w].todo \subseteq Namespaces
  BY <1>2, <1>3, <1>4 DEF WriterSound, WriteRows
<1>6. /\ DOMAIN proc' = Procs /\ \A y \in Procs : proc'[y] \in ProcRows
      /\ \A y \in Procs, m \in Namespaces :
            m \in proc[y].missed \/ <<y, m>> \in dropped => m \in proc'[y].missed \/ noted'[y][m] <= announced'[m] \/ <<y, m>> \in dropped'
  BY <1>3, <1>4, <1>5, CrossOffOwed
<1>9. \A m \in Namespaces : wr[w].wrote[m] <= noted'[Home[w]][m]
  BY <1>3, <1>4 DEF WriterSound
<1>10. \A y \in Procs, m \in Namespaces : noted'[y][m] >= noted[y][m] /\ noted[y][m] \in Nat
  BY <1>3, <1>4
<1>11. /\ wr' \in [Writers -> WriteRows] /\ finished' \in [Procs -> [Namespaces -> Nat]]
       /\ WriterSound(w)' /\ \A z \in Writers : z # w => wr'[z] = wr[z]
       /\ \A y \in Procs, m \in Namespaces : finished'[y][m] <= noted'[y][m]
  <2>1. noted' \in [Procs -> [Namespaces -> Nat]] /\ GoOn(w, wr[w].todo)
    BY <1>3, <1>4
  <2>2. PICK todo : todo = wr[w].todo
    OBVIOUS
  <2> QED BY <1>5, <1>9, <1>10, <2>1, <2>2, GoOnSound
<1>12. CacheGrows
  BY <1>3, CacheStill
<1>13. CacheType'
  BY <1>3, <1>4, <1>6, <1>11 DEF CacheType, ProcRows
<1>14. ASSUME NEW y \in Procs, NEW m \in Namespaces PROVE OwedSound(y, m)'
  <2>1. OwedSound(y, m) /\ noted[y][m] \in Nat /\ announced[m] \in Nat
    BY <1>4 DEF CacheInv, CacheType
  <2> QED BY <1>3, <1>6, <1>11, <2>1 DEF OwedSound
<1> QED BY <1>3, <1>10, <1>11, <1>12, <1>13, <1>14, WriterOnly

\* A failed command: what is owed stays owed.
LEMMA BumpFailsInv == ASSUME CacheInv, NEW w \in Writers, BumpFails(w) PROVE CacheInv'
<1>1. PICK p : p = Home[w]
  OBVIOUS
<1>3. /\ wr[w].pc \in {"next", "executed"} /\ proc' = [proc EXCEPT ![p].down = TRUE]
      /\ GoOn(w, {}) /\ UNCHANGED <<db, ver, top, entry, rd, announced, noted, dropped>>
  BY <1>1 DEF BumpFails
<1>4. /\ CacheType /\ p \in Procs /\ proc[p] \in ProcRows /\ DOMAIN proc = Procs /\ wr[w] \in WriteRows /\ WriterSound(w)
      /\ noted \in [Procs -> [Namespaces -> Nat]]
  BY <1>1, HomeAssumption DEF CacheInv, CacheType, ProcRows
<1>5. PICK x : x = [proc[p] EXCEPT !.down = TRUE]
  OBVIOUS
<1>6. x \in ProcRows /\ x.missed = proc[p].missed /\ proc' = [proc EXCEPT ![p] = x]
  BY <1>3, <1>4, <1>5 DEF ProcRows
<1>7. DOMAIN proc' = Procs /\ proc'[p] = x /\ (\A y \in Procs : y # p => proc'[y] = proc[y]) /\ \A y \in Procs : proc'[y] \in ProcRows
  BY <1>4, <1>6, OneProc
<1>9. \A m \in Namespaces : wr[w].wrote[m] <= noted'[Home[w]][m]
  BY <1>3, <1>4 DEF WriterSound
<1>10. \A y \in Procs, m \in Namespaces : noted'[y][m] >= noted[y][m] /\ noted[y][m] \in Nat
  BY <1>3, <1>4
<1>11. /\ wr' \in [Writers -> WriteRows] /\ finished' \in [Procs -> [Namespaces -> Nat]]
       /\ WriterSound(w)' /\ \A z \in Writers : z # w => wr'[z] = wr[z]
       /\ \A y \in Procs, m \in Namespaces : finished'[y][m] <= noted'[y][m]
  <2>1. noted' \in [Procs -> [Namespaces -> Nat]]
    BY <1>3, <1>4
  <2>2. PICK todo : todo = {}
    OBVIOUS
  <2>3. GoOn(w, todo) /\ todo \subseteq Namespaces
    BY <1>3, <2>2
  <2> QED BY <1>9, <1>10, <2>1, <2>3, GoOnSound
<1>12. CacheGrows
  BY <1>3, CacheStill
<1>13. CacheType'
  BY <1>3, <1>4, <1>7, <1>11 DEF CacheType, ProcRows
<1>14. ASSUME NEW y \in Procs, NEW m \in Namespaces PROVE OwedSound(y, m)'
  <2>1. OwedSound(y, m) /\ proc'[y].missed = proc[y].missed
    BY <1>6, <1>7 DEF CacheInv
  <2> QED BY <1>3, <1>11, <2>1 DEF OwedSound
<1> QED BY <1>3, <1>10, <1>11, <1>12, <1>13, <1>14, WriterOnly

\* A step of one request that leaves versions, writers and what is owed alone.
LEMMA RequestStep ==
    ASSUME CacheInv, UNCHANGED <<db, ver, top, wr>>, UNCHANGED history, NEW r \in Readers, NEW q,
           DOMAIN proc' = Procs, \A y \in Procs : proc'[y] \in ProcRows /\ proc'[y].missed = proc[y].missed,
           rd' = [rd EXCEPT ![r] = q], ReaderSound(q)',
           \A s \in Readers : \A x : s # r /\ x = rd[s] => Shareable(q, x)' /\ Shareable(x, q)',
           entry' \in [Namespaces -> [ver : Nat, data : Nat]], \A n \in Namespaces : EntrySound(n)'
    PROVE  CacheInv'
<1>1. UNCHANGED <<announced, noted, finished, dropped>>
  BY DEF history
<1>2. CacheGrows
  BY <1>1, CacheStill
<1>3. CacheType'
  BY <1>1 DEF CacheType, CacheInv, ProcRows
<1> QED BY <1>1, <1>2, <1>3, ReaderOnly

\* A request begins with what was announced, and with what its process has finished: that is announced, owed or crossed off.
LEMMA BegunSound ==
    ASSUME CacheInv, NEW r \in Readers, NEW n \in Namespaces
    PROVE  /\ Begun(r, n) \in ReadRows /\ Begun(r, n).ns = n /\ Begun(r, n).due = announced[n] /\ Begun(r, n).own <= db[n]
           /\ Begun(r, n).own <= announced[n] \/ n \in proc[Home[r]].missed
<1>1. PICK p : p = Home[r]
  OBVIOUS
<1>2. /\ announced[n] \in Nat /\ finished[p][n] \in Nat /\ noted[p][n] \in Nat /\ db[n] \in Nat /\ p \in Procs
      /\ OwedSound(p, n) /\ EntrySound(n)
  BY <1>1, HomeAssumption DEF CacheInv, CacheType
<1>3. PICK own : own = IF <<p, n>> \in dropped THEN 0 ELSE finished[p][n]
  OBVIOUS
<1>4. own \in Nat /\ own <= db[n] /\ (own <= announced[n] \/ n \in proc[p].missed)
  BY <1>2, <1>3 DEF OwedSound
<1>5. Begun(r, n) = [NoRead EXCEPT !.ns = n, !.due = announced[n], !.own = own]
  BY <1>1, <1>3 DEF Begun
<1>6. Begun(r, n) \in ReadRows /\ Begun(r, n).ns = n /\ Begun(r, n).due = announced[n] /\ Begun(r, n).own = own
  <2>1. NoRead \in ReadRows
    BY CacheRows
  <2> QED BY <1>2, <1>4, <1>5, <2>1 DEF ReadRows
<1> QED BY <1>1, <1>4, <1>6

\* An answer.
LEMMA ServedSound ==
    ASSUME NEW q \in ReadRows, NEW data \in Nat
    PROVE  /\ Served(q, data) \in ReadRows /\ Served(q, data).pc = "served" /\ Served(q, data).data = data
           /\ Served(q, data).due = q.due /\ Served(q, data).own = q.own
  BY DEF Served, NoRead, ReadRows

\* A request begins: it is answered from the database, or takes along what its process owes.
LEMMA StartInv == ASSUME CacheInv, NEW r \in Readers, NEW n \in Namespaces, Start(r, n) PROVE CacheInv'
<1>1. PICK b : b = Begun(r, n)
  OBVIOUS
<1>2. PICK p : p = Home[r]
  OBVIOUS
<1>3. UNCHANGED <<db, ver, top, entry, proc, wr>> /\ UNCHANGED history
  BY DEF Start
<1>4. /\ b \in ReadRows /\ b.ns = n /\ b.due = announced[n] /\ b.own <= db[n]
      /\ b.own <= announced[n] \/ n \in proc[p].missed
  BY <1>1, <1>2, BegunSound
<1>5. /\ p \in Procs /\ proc[p] \in ProcRows /\ proc[p].missed \subseteq Namespaces
      /\ db[n] \in Nat /\ announced[n] \in Nat /\ announced[n] <= db[n]
  BY <1>2, HomeAssumption DEF CacheInv, CacheType, ProcRows, EntrySound
<1>6. DOMAIN proc' = Procs /\ (\A y \in Procs : proc'[y] \in ProcRows /\ proc'[y].missed = proc[y].missed)
      /\ entry' \in [Namespaces -> [ver : Nat, data : Nat]]
  BY <1>3 DEF CacheInv, CacheType, ProcRows
<1>7. \A m \in Namespaces : EntrySound(m)'
  BY <1>3 DEF CacheInv, EntrySound, history
<1>8. CASE proc[p].down
  <2>1. PICK z : z = Served(b, db[n])
    OBVIOUS
  <2>2. rd' = [rd EXCEPT ![r] = z]
    BY <1>1, <1>2, <1>8, <2>1 DEF Start
  <2>3. z \in ReadRows /\ z.pc = "served" /\ z.data = db[n] /\ z.due = b.due /\ z.own = b.own
    BY <1>4, <1>5, <2>1, ServedSound
  <2>4. ReaderSound(z)'
    BY <1>4, <1>5, <2>3 DEF ReaderSound, Enough, Loading, Replaying
  <2>5. \A s \in Readers : \A x : s # r /\ x = rd[s] => Shareable(z, x)' /\ Shareable(x, z)'
    BY <2>3 DEF Shareable
  <2> QED BY <1>3, <1>6, <1>7, <2>2, <2>4, <2>5, RequestStep
<1>9. CASE ~proc[p].down
  <2>1. PICK z : z = [b EXCEPT !.pc = "replay", !.todo = proc[p].missed]
    OBVIOUS
  <2>2. rd' = [rd EXCEPT ![r] = z]
    BY <1>1, <1>2, <1>9, <2>1 DEF Start
  <2>3. z \in ReadRows /\ z.pc = "replay" /\ z.ns = n /\ z.todo = proc[p].missed /\ z.due = b.due /\ z.own = b.own
    BY <1>4, <1>5, <2>1 DEF ReadRows, Replaying
  <2>4. ReaderSound(z)'
    BY <1>3, <1>4, <1>5, <2>3 DEF ReaderSound, Loading, Replaying, history
  <2>5. \A s \in Readers : \A x : s # r /\ x = rd[s] => Shareable(z, x)' /\ Shareable(x, z)'
    BY <2>3 DEF Shareable
  <2> QED BY <1>3, <1>6, <1>7, <2>2, <2>4, <2>5, RequestStep
<1> QED BY <1>8, <1>9

\* Redis executes an invalidation for a request: what the request takes from it is announced.
LEMMA ReplayInv == ASSUME CacheInv, NEW r \in Readers, NEW n \in Namespaces, Replay(r, n) PROVE CacheInv'
<1>1. PICK q : q = rd[r]
  OBVIOUS
<1>2. Bump(n) /\ UNCHANGED <<db, entry, proc, wr, noted, finished>> /\ q.pc = "replay" /\ DOMAIN rd = Readers /\ CacheType /\ ReaderSound(q)
  BY <1>1 DEF Replay, CacheInv, CacheType
<1>3. /\ CacheGrows
      /\ ver' \in [Namespaces -> Nat \cup {None}] /\ top' \in Nat /\ announced' \in [Namespaces -> Nat]
      /\ announced'[n] = db[n]
  BY <1>2, BumpGrows
<1>4. PICK z : z = [q EXCEPT !.pc = "replayed", !.sent = n, !.todo = @ \ {n}]
  OBVIOUS
<1>5. q \in ReadRows /\ q.ns \in Namespaces /\ q.due <= announced[q.ns] /\ q.own <= db[q.ns] /\ (q.own <= announced[q.ns] \/ q.ns \in q.todo)
  BY <1>2 DEF ReaderSound, Replaying
<1>6. rd' = [rd EXCEPT ![r] = z]
  BY <1>1, <1>2, <1>4, <1>5 DEF Replay, ReadRows
<1>7. z \in ReadRows /\ z.pc = "replayed" /\ z.sent = n /\ z.ns = q.ns /\ z.todo = q.todo \ {n} /\ z.due = q.due /\ z.own = q.own
  BY <1>4, <1>5 DEF ReadRows, Replaying
<1>8. CacheType'
  BY <1>2, <1>3, <1>6 DEF CacheType
<1>9. ASSUME NEW m \in Namespaces PROVE EntrySound(m)'
  BY <1>2, <1>3, <1>8, EntryKept DEF CacheInv
<1>10. ReaderSound(z)'
  <2>1. /\ announced[q.ns] \in Nat /\ announced'[q.ns] \in Nat /\ announced'[q.ns] >= announced[q.ns] /\ db'[q.ns] = db[q.ns]
        /\ q.due \in Nat /\ q.own \in Nat
    BY <1>2, <1>3, <1>5 DEF CacheType, CacheGrows, ReadRows
  <2>2. q.own <= announced'[q.ns] \/ q.ns \in z.todo
    BY <1>3, <1>5, <1>7, <2>1
  <2> QED BY <1>5, <1>7, <2>1, <2>2 DEF ReaderSound, Loading, Replaying
<1>11. \A s \in Readers : \A x : s # r /\ x = rd[s] => Shareable(z, x)' /\ Shareable(x, z)'
  BY <1>7 DEF Shareable
<1>12. \A y \in Procs, m \in Namespaces :
          m \in proc[y].missed \/ <<y, m>> \in dropped => m \in proc'[y].missed \/ noted'[y][m] <= announced'[m] \/ <<y, m>> \in dropped'
  BY <1>2, BumpOwed
<1> QED BY <1>2, <1>3, <1>6, <1>8, <1>9, <1>10, <1>11, <1>12, ReaderOnly

\* The answer arrives: the request goes on, or to the database.
LEMMA ReplayAnsweredInv == ASSUME CacheInv, NEW r \in Readers, ReplayAnswered(r) PROVE CacheInv'
<1>1. PICK q : q = rd[r]
  OBVIOUS
<1>2. PICK p : p = Home[r]
  OBVIOUS
<1>3. /\ CacheType /\ p \in Procs /\ ReaderSound(q) /\ q.pc = "replayed" /\ DOMAIN rd = Readers /\ CrossOff(p, q.sent)
      /\ UNCHANGED <<db, ver, top, entry, wr, announced, noted, finished>>
  BY <1>1, <1>2, HomeAssumption DEF ReplayAnswered, CacheInv, CacheType
<1>4. /\ q \in ReadRows /\ q.sent \in Namespaces /\ q.ns \in Namespaces /\ q.due <= announced[q.ns] /\ q.own <= db[q.ns]
      /\ q.own <= announced[q.ns] \/ q.ns \in q.todo
  BY <1>3 DEF ReaderSound, Replaying
<1>5. /\ DOMAIN proc' = Procs /\ \A y \in Procs : proc'[y] \in ProcRows
      /\ \A y \in Procs, m \in Namespaces :
            m \in proc[y].missed \/ <<y, m>> \in dropped => m \in proc'[y].missed \/ noted'[y][m] <= announced'[m] \/ <<y, m>> \in dropped'
  BY <1>3, <1>4, CrossOffOwed
<1>6. PICK z : z = IF q.todo = {} /\ proc[p].down THEN Served(q, db[q.ns]) ELSE [q EXCEPT !.pc = "replay", !.sent = None]
  OBVIOUS
<1>7. rd' = [rd EXCEPT ![r] = z]
  BY <1>1, <1>2, <1>6 DEF ReplayAnswered
<1>8. CacheType'
  BY <1>3, <1>5, <1>7 DEF CacheType, ProcRows
<1>9. CacheGrows
  BY <1>3, CacheStill
<1>10. \A m \in Namespaces : EntrySound(m)'
  BY <1>3 DEF CacheInv, EntrySound
<1>11. db[q.ns] \in Nat /\ announced[q.ns] \in Nat /\ announced[q.ns] <= db[q.ns] /\ q.due \in Nat /\ q.own \in Nat
  BY <1>3, <1>4 DEF CacheInv, CacheType, EntrySound, ReadRows
<1>12. ReaderSound(z)' /\ z.pc \in {"served", "replay"}
  <2>1. CASE q.todo = {} /\ proc[p].down
    <3>1. z \in ReadRows /\ z.pc = "served" /\ z.data = db[q.ns] /\ z.due = q.due /\ z.own = q.own
      BY <1>4, <1>6, <1>11, <2>1, ServedSound
    <3> QED BY <1>4, <1>11, <3>1 DEF ReaderSound, Enough, Loading, Replaying
  <2>2. CASE ~(q.todo = {} /\ proc[p].down)
    <3>1. z \in ReadRows /\ z.pc = "replay" /\ z.ns = q.ns /\ z.todo = q.todo /\ z.due = q.due /\ z.own = q.own
      BY <1>4, <1>6, <2>2 DEF ReadRows, Replaying
    <3> QED BY <1>3, <1>4, <3>1 DEF ReaderSound, Loading, Replaying
  <2> QED BY <2>1, <2>2
<1>13. \A s \in Readers : \A x : s # r /\ x = rd[s] => Shareable(z, x)' /\ Shareable(x, z)'
  BY <1>12 DEF Shareable
<1> QED BY <1>3, <1>5, <1>7, <1>8, <1>9, <1>10, <1>12, <1>13, ReaderOnly

\* A read sets a version that is missing, serves the entry under the current version, or misses.
LEMMA ReadInv == ASSUME CacheInv, NEW r \in Readers, Read(r) PROVE CacheInv'
<1>1. PICK q : q = rd[r]
  OBVIOUS
<1>2. PICK n : n = q.ns
  OBVIOUS
<1>3. UNCHANGED <<db, entry, proc, wr, announced, noted, finished, dropped>> /\ UNCHANGED history
  BY DEF Read, history
<1>4. q \in ReadRows /\ n \in Namespaces /\ q.ns = n /\ q.due <= announced[n] /\ q.own <= announced[n]
  <2>1. ReaderSound(q) /\ q.pc = "replay" /\ q.todo = {}
    BY <1>1 DEF CacheInv, Read
  <2> QED BY <1>2, <2>1 DEF ReaderSound, Replaying
<1>5. q.due \in Nat /\ q.own \in Nat /\ q.ver \in Nat /\ q.data \in Nat
  BY <1>4 DEF ReadRows
<1>6. /\ CacheType /\ top \in Nat /\ announced[n] \in Nat /\ db[n] \in Nat /\ ver[n] \in Nat \cup {None} /\ EntrySound(n)
      /\ entry[n].ver \in Nat /\ entry[n].data \in Nat /\ None \notin Nat
  BY <1>4, HomeAssumption DEF CacheInv, CacheType
<1>7. announced[n] <= db[n] /\ q.due <= db[n] /\ q.own <= db[n]
  BY <1>4, <1>5, <1>6 DEF EntrySound
<1>8. DOMAIN proc' = Procs /\ (\A y \in Procs : proc'[y] \in ProcRows /\ proc'[y].missed = proc[y].missed)
      /\ entry' \in [Namespaces -> [ver : Nat, data : Nat]]
  BY <1>3 DEF CacheInv, CacheType, ProcRows
<1>9. CASE ver[n] = None
  <2>1. PICK z : z = [q EXCEPT !.pc = "miss", !.ver = top + 1]
    OBVIOUS
  <2>2. ver' = [ver EXCEPT ![n] = top + 1] /\ top' = top + 1 /\ rd' = [rd EXCEPT ![r] = z]
    BY <1>1, <1>2, <1>9, <2>1 DEF Read
  <2>3. z \in ReadRows /\ z.pc = "miss" /\ z.ver = top + 1 /\ z.ns = n /\ z.due = q.due /\ z.own = q.own
    <3>1. top + 1 \in Nat
      BY <1>6
    <3> QED BY <1>4, <2>1, <3>1 DEF ReadRows, Loading, Replaying
  <2>4. ver' \in [Namespaces -> Nat \cup {None}] /\ ver'[n] = top + 1 /\ \A m \in Namespaces : m # n => ver'[m] = ver[m]
    BY <1>4, <1>6, <2>2 DEF CacheType
  <2>5. CacheGrows
    <3>1. ASSUME NEW m \in Namespaces
          PROVE  /\ db'[m] >= db[m] /\ announced'[m] >= announced[m] /\ announced'[m] <= db'[m]
                 /\ ver'[m] # None => 0 < ver'[m] /\ ver'[m] <= top'
                 /\ \/ ver'[m] = ver[m] /\ announced'[m] = announced[m]
                    \/ ver'[m] = None
                    \/ \A v \in Nat : v <= top /\ (ver[m] # None => v <= ver[m]) => v < ver'[m]
      <4>1. db[m] \in Nat /\ announced[m] \in Nat /\ announced[m] <= db[m] /\ (ver[m] # None => 0 < ver[m] /\ ver[m] <= top)
            /\ ver[m] \in Nat \cup {None}
        BY DEF CacheInv, CacheType, EntrySound
      <4>2. CASE m = n
        BY <1>3, <1>6, <2>2, <2>4, <4>1, <4>2
      <4>3. CASE m # n
        BY <1>3, <1>6, <2>2, <2>4, <4>1, <4>3
      <4> QED BY <4>2, <4>3
    <3>2. top' >= top
      BY <1>6, <2>2
    <3> QED BY <3>1, <3>2 DEF CacheGrows
  <2>6. CacheType'
    <3>1. top' \in Nat /\ DOMAIN rd' = Readers
      BY <1>6, <2>2 DEF CacheType
    <3> QED BY <1>3, <1>6, <2>4, <3>1 DEF CacheType
  <2>7. ASSUME NEW m \in Namespaces PROVE EntrySound(m)'
    <3>1. EntrySound(m) /\ entry'[m] = entry[m]
      BY <1>3 DEF CacheInv
    <3> QED BY <1>6, <2>5, <2>6, <3>1, EntryKept
  <2>8. ReaderSound(z)'
    <3>1. z.due <= db'[z.ns] /\ z.own <= db'[z.ns] /\ z.ver <= top' /\ z.ver <= ver'[z.ns]
      BY <1>3, <1>6, <1>7, <2>2, <2>3, <2>4
    <3> QED BY <1>4, <2>3, <3>1 DEF ReaderSound, Loading, Replaying
  <2>9. \A s \in Readers : \A x : s # r /\ x = rd[s] => Shareable(z, x)' /\ Shareable(x, z)'
    <3> SUFFICES ASSUME NEW s \in Readers, NEW x, x = rd[s] PROVE Shareable(z, x)' /\ Shareable(x, z)'
      OBVIOUS
    <3>1. ReaderSound(x)
      BY DEF CacheInv
    <3>2. x.pc \in {"loaded", "store"} => x.ver <= top /\ x.ver \in Nat
      BY <3>1 DEF ReaderSound, Loading, Replaying, ReadRows
    <3>3. ~(x.pc \in {"loaded", "store"} /\ z.ver = x.ver)
      BY <1>6, <2>3, <3>2
    <3> QED BY <2>3, <3>3 DEF Shareable
  <2>10. \A p \in Procs, m \in Namespaces : m \in proc[p].missed \/ <<p, m>> \in dropped => m \in proc'[p].missed \/ <<p, m>> \in dropped'
    BY <1>3
  <2> QED BY <1>3, <2>2, <2>5, <2>6, <2>7, <2>8, <2>9, <2>10, ReaderOnly
<1>10. CASE ver[n] # None
  <2>1. UNCHANGED <<ver, top>>
    BY <1>1, <1>2, <1>10 DEF Read
  <2>2. \A m \in Namespaces : EntrySound(m)'
    BY <1>3, <2>1 DEF CacheInv, EntrySound
  <2>3. CASE entry[n].ver = ver[n]
    <3>1. PICK z : z = Served(q, entry[n].data)
      OBVIOUS
    <3>2. rd' = [rd EXCEPT ![r] = z]
      BY <1>1, <1>2, <1>10, <2>3, <3>1 DEF Read
    <3>3. z \in ReadRows /\ z.pc = "served" /\ z.data = entry[n].data /\ z.due = q.due /\ z.own = q.own
      BY <1>4, <1>6, <3>1, ServedSound
    <3>4. entry[n].data >= announced[n]
      BY <1>6, <2>3 DEF EntrySound
    <3>5. z.data >= z.due /\ z.data >= z.own
      BY <1>3, <1>4, <1>5, <1>6, <3>3, <3>4
    <3>6. ReaderSound(z)'
      BY <3>3, <3>5 DEF ReaderSound, Loading, Replaying, Enough
    <3>7. \A s \in Readers : \A x : s # r /\ x = rd[s] => Shareable(z, x)' /\ Shareable(x, z)'
      BY <3>3 DEF Shareable
    <3> QED BY <1>3, <1>8, <2>1, <2>2, <3>2, <3>6, <3>7, RequestStep
  <2>4. CASE entry[n].ver # ver[n]
    <3>1. PICK z : z = [q EXCEPT !.pc = "miss", !.ver = ver[n]]
      OBVIOUS
    <3>2. rd' = [rd EXCEPT ![r] = z]
      BY <1>1, <1>2, <1>10, <2>4, <3>1 DEF Read
    <3>3. z \in ReadRows /\ z.pc = "miss" /\ z.ver = ver[n] /\ z.ns = n /\ z.due = q.due /\ z.own = q.own
      BY <1>4, <1>6, <1>10, <3>1 DEF ReadRows, Loading, Replaying
    <3>4. z.due <= db'[z.ns] /\ z.own <= db'[z.ns] /\ z.ver <= top' /\ z.ver <= ver'[z.ns]
      BY <1>3, <1>6, <1>7, <1>10, <2>1, <3>3 DEF EntrySound
    <3>5. ReaderSound(z)'
      BY <1>4, <3>3, <3>4 DEF ReaderSound, Loading, Replaying
    <3>6. \A s \in Readers : \A x : s # r /\ x = rd[s] => Shareable(z, x)' /\ Shareable(x, z)'
      <4> SUFFICES ASSUME NEW s \in Readers, NEW x, x = rd[s], x.pc \in {"loaded", "store"}, z.ns = x.ns, z.ver = x.ver
                   PROVE  Enough(x.data, z)'
        BY <3>3 DEF Shareable
      <4>1. ReaderSound(x)
        BY DEF CacheInv
      <4>2. x.data >= announced[n] /\ x.data \in Nat
        BY <3>3, <4>1 DEF ReaderSound, ReadRows
      <4> QED BY <1>3, <1>4, <1>5, <1>6, <3>3, <4>2 DEF Enough
    <3> QED BY <1>3, <1>8, <2>1, <2>2, <3>2, <3>5, <3>6, RequestStep
  <2> QED BY <2>3, <2>4
<1> QED BY <1>9, <1>10

\* A read that fails serves what is committed.
LEMMA ReadFailsInv == ASSUME CacheInv, NEW r \in Readers, ReadFails(r) PROVE CacheInv'
<1>1. PICK q : q = rd[r]
  OBVIOUS
<1>2. PICK p : p = Home[r]
  OBVIOUS
<1>3. q.pc \in Replaying /\ proc' = [proc EXCEPT ![p].down = TRUE] /\ rd' = [rd EXCEPT ![r] = Served(q, db[q.ns])]
      /\ UNCHANGED <<db, ver, top, entry, wr>> /\ UNCHANGED history
  BY <1>1, <1>2 DEF ReadFails, Replaying, CacheInv, CacheType
<1>4. CacheType /\ p \in Procs /\ proc[p] \in ProcRows /\ DOMAIN proc = Procs
  BY <1>2, HomeAssumption DEF CacheInv, CacheType, ProcRows
<1>5. PICK x : x = [proc[p] EXCEPT !.down = TRUE]
  OBVIOUS
<1>6. x \in ProcRows /\ x.missed = proc[p].missed /\ proc' = [proc EXCEPT ![p] = x]
  BY <1>3, <1>4, <1>5 DEF ProcRows
<1>7. DOMAIN proc' = Procs /\ proc'[p] = x /\ (\A y \in Procs : y # p => proc'[y] = proc[y]) /\ \A y \in Procs : proc'[y] \in ProcRows
  BY <1>4, <1>6, OneProc
<1>8. (\A y \in Procs : proc'[y] \in ProcRows /\ proc'[y].missed = proc[y].missed) /\ entry' \in [Namespaces -> [ver : Nat, data : Nat]]
  BY <1>3, <1>4, <1>6, <1>7 DEF CacheType
<1>9. q \in ReadRows /\ q.ns \in Namespaces /\ q.due <= announced[q.ns] /\ q.own <= db[q.ns]
  BY <1>1, <1>3 DEF CacheInv, ReaderSound
<1>10. PICK z : z = Served(q, db[q.ns])
  OBVIOUS
<1>11. db[q.ns] \in Nat /\ announced[q.ns] \in Nat /\ announced[q.ns] <= db[q.ns] /\ q.due \in Nat /\ q.own \in Nat
  BY <1>4, <1>9 DEF CacheInv, CacheType, EntrySound, ReadRows
<1>12. z \in ReadRows /\ z.pc = "served" /\ z.data >= z.due /\ z.data >= z.own
  <2>1. z.pc = "served" /\ z \in ReadRows /\ z.data = db[q.ns] /\ z.due = q.due /\ z.own = q.own
    BY <1>9, <1>10, <1>11, ServedSound
  <2> QED BY <1>9, <1>11, <2>1
<1>13. ReaderSound(z)'
  BY <1>12 DEF ReaderSound, Loading, Replaying, Enough
<1>14. \A s \in Readers : \A y : s # r /\ y = rd[s] => Shareable(z, y)' /\ Shareable(y, z)'
  BY <1>12 DEF Shareable
<1>15. \A m \in Namespaces : EntrySound(m)'
  BY <1>3 DEF CacheInv, EntrySound, history
<1>16. rd' = [rd EXCEPT ![r] = z]
  BY <1>3, <1>10
<1> QED BY <1>3, <1>7, <1>8, <1>13, <1>14, <1>15, <1>16, RequestStep

\* A miss that leads a load sees everything committed.
LEMMA LeadInv == ASSUME CacheInv, NEW r \in Readers, Lead(r) PROVE CacheInv'
<1>1. PICK q : q = rd[r]
  OBVIOUS
<1>2. PICK p : p = Home[r]
  OBVIOUS
<1>3. PICK k : k = <<q.ns, q.ver>>
  OBVIOUS
<1>4. CacheType /\ p \in Procs /\ proc[p] \in ProcRows /\ DOMAIN proc = Procs /\ ReaderSound(q) /\ q.pc = "miss" /\ DOMAIN rd = Readers
  BY <1>1, <1>2, HomeAssumption DEF CacheInv, CacheType, ProcRows, Lead
<1>5. q \in ReadRows /\ q.ns \in Namespaces /\ q.due <= db[q.ns] /\ q.own <= db[q.ns] /\ q.ver <= top /\ (ver[q.ns] # None => q.ver <= ver[q.ns])
  BY <1>4 DEF ReaderSound, Loading, Replaying
<1>6. PICK d : d = db[q.ns]
  OBVIOUS
<1>7. PICK z : z = [q EXCEPT !.pc = "loaded", !.data = d]
  OBVIOUS
<1>8. d \in Nat /\ announced[q.ns] \in Nat /\ announced[q.ns] <= d
  BY <1>5, <1>6 DEF CacheInv, CacheType, EntrySound
<1>9. /\ proc' = [proc EXCEPT ![p].flight = @ \cup {k}] /\ rd' = [rd EXCEPT ![r].pc = "loaded", ![r].data = d]
      /\ UNCHANGED <<db, ver, top, entry, wr>> /\ UNCHANGED history
  BY <1>1, <1>2, <1>3, <1>6 DEF Lead, FlightKey
<1>10. rd' = [rd EXCEPT ![r] = z]
  BY <1>1, <1>4, <1>7, <1>9
<1>11. z \in ReadRows /\ z.pc = "loaded" /\ z.ns = q.ns /\ z.ver = q.ver /\ z.data = d /\ z.due = q.due /\ z.own = q.own
  BY <1>5, <1>7, <1>8 DEF ReadRows, Loading, Replaying
<1>12. k \in (Namespaces \cup {None}) \X Nat
  BY <1>3, <1>5 DEF ReadRows
<1>13. PICK x : x = [proc[p] EXCEPT !.flight = @ \cup {k}]
  OBVIOUS
<1>14. x \in ProcRows /\ x.missed = proc[p].missed /\ proc' = [proc EXCEPT ![p] = x]
  BY <1>4, <1>9, <1>12, <1>13 DEF ProcRows
<1>15. DOMAIN proc' = Procs /\ proc'[p] = x /\ (\A y \in Procs : y # p => proc'[y] = proc[y]) /\ \A y \in Procs : proc'[y] \in ProcRows
  BY <1>4, <1>14, OneProc
<1>16. (\A y \in Procs : proc'[y] \in ProcRows /\ proc'[y].missed = proc[y].missed) /\ entry' \in [Namespaces -> [ver : Nat, data : Nat]]
  BY <1>4, <1>9, <1>14, <1>15 DEF CacheType
<1>17. z.due \in Nat /\ z.own \in Nat
  BY <1>11 DEF ReadRows
<1>18. ReaderSound(z)'
  <2>1. z.due <= db'[z.ns] /\ z.own <= db'[z.ns] /\ z.ver <= top' /\ (ver'[z.ns] # None => z.ver <= ver'[z.ns])
        /\ z.data >= z.due /\ z.data >= z.own /\ z.data >= announced'[z.ns]
    BY <1>5, <1>6, <1>8, <1>9, <1>11, <1>17 DEF history
  <2> QED BY <1>5, <1>11, <2>1 DEF ReaderSound, Loading, Replaying, Enough
<1>19. \A s \in Readers : \A y : s # r /\ y = rd[s] => Shareable(z, y)' /\ Shareable(y, z)'
  <2> SUFFICES ASSUME NEW s \in Readers, NEW y, y = rd[s], y.pc \in {"miss", "follow"}, y.ns = z.ns PROVE Enough(z.data, y)'
    BY <1>11 DEF Shareable
  <2>1. ReaderSound(y)
    BY DEF CacheInv
  <2>2. y.due <= d /\ y.own <= d /\ y.due \in Nat /\ y.own \in Nat
    BY <1>6, <1>11, <2>1 DEF ReaderSound, Loading, Replaying, ReadRows
  <2> QED BY <1>8, <1>11, <2>2 DEF Enough
<1>20. \A m \in Namespaces : EntrySound(m)'
  BY <1>9 DEF CacheInv, EntrySound, history
<1> QED BY <1>9, <1>10, <1>15, <1>16, <1>18, <1>19, <1>20, RequestStep

\* A step that only changes where a request stands leaves the rest of it.
LEMMA FollowInv == ASSUME CacheInv, NEW r \in Readers, Follow(r) PROVE CacheInv'
<1>1. PICK q : q = rd[r]
  OBVIOUS
<1>2. PICK z : z = [q EXCEPT !.pc = "follow"]
  OBVIOUS
<1>3. ReaderSound(q) /\ q.pc = "miss" /\ DOMAIN rd = Readers
  BY <1>1 DEF CacheInv, CacheType, Follow
<1>4. q \in ReadRows /\ q.ns \in Namespaces /\ q.due <= db[q.ns] /\ q.own <= db[q.ns] /\ q.ver <= top /\ (ver[q.ns] # None => q.ver <= ver[q.ns])
  BY <1>3 DEF ReaderSound, Loading, Replaying
<1>5. rd' = [rd EXCEPT ![r] = z] /\ UNCHANGED <<db, ver, top, entry, proc, wr>> /\ UNCHANGED history
  BY <1>1, <1>2, <1>3 DEF Follow
<1>6. z \in ReadRows /\ z.pc = "follow" /\ z.ns = q.ns /\ z.ver = q.ver /\ z.due = q.due /\ z.own = q.own
  BY <1>2, <1>4 DEF ReadRows, Loading, Replaying
<1>7. ReaderSound(z)'
  BY <1>4, <1>5, <1>6 DEF ReaderSound, Loading, Replaying
<1>8. \A s \in Readers : \A y : s # r /\ y = rd[s] => Shareable(z, y)' /\ Shareable(y, z)'
  <2> SUFFICES ASSUME NEW s \in Readers, NEW y, y = rd[s], y.pc \in {"loaded", "store"}, z.ns = y.ns, z.ver = y.ver PROVE Enough(y.data, z)'
    BY <1>6 DEF Shareable
  <2>1. Shareable(q, y)
    BY <1>1 DEF CacheInv
  <2>2. Enough(y.data, q)
    BY <1>3, <1>6, <2>1 DEF Shareable
  <2> QED BY <1>5, <1>6, <2>2 DEF Enough, history
<1>9. DOMAIN proc' = Procs /\ (\A y \in Procs : proc'[y] \in ProcRows /\ proc'[y].missed = proc[y].missed)
      /\ entry' \in [Namespaces -> [ver : Nat, data : Nat]]
  BY <1>5 DEF CacheInv, CacheType, ProcRows
<1>10. \A m \in Namespaces : EntrySound(m)'
  BY <1>5 DEF CacheInv, EntrySound, history
<1> QED BY <1>5, <1>7, <1>8, <1>9, <1>10, RequestStep

\* The answer has gone out.
LEMMA FinishReadInv == ASSUME CacheInv, NEW r \in Readers, FinishRead(r) PROVE CacheInv'
<1>1. rd' = [rd EXCEPT ![r] = NoRead] /\ UNCHANGED <<db, ver, top, entry, proc, wr>> /\ UNCHANGED history
  BY DEF FinishRead
<1>2. PICK z : z = NoRead
  OBVIOUS
<1>3. z.pc = "idle" /\ z \in ReadRows
  BY <1>2, CacheRows DEF NoRead
<1>4. ReaderSound(z)'
  BY <1>3 DEF ReaderSound, Loading, Replaying
<1>5. \A s \in Readers : \A y : s # r /\ y = rd[s] => Shareable(z, y)' /\ Shareable(y, z)'
  BY <1>3 DEF Shareable
<1>6. DOMAIN proc' = Procs /\ (\A y \in Procs : proc'[y] \in ProcRows /\ proc'[y].missed = proc[y].missed)
      /\ entry' \in [Namespaces -> [ver : Nat, data : Nat]]
  BY <1>1 DEF CacheInv, CacheType, ProcRows
<1>7. \A m \in Namespaces : EntrySound(m)'
  BY <1>1 DEF CacheInv, EntrySound, history
<1>8. rd' = [rd EXCEPT ![r] = z]
  BY <1>1, <1>2
<1> QED BY <1>1, <1>4, <1>5, <1>6, <1>7, <1>8, RequestStep

\* A stored entry carries the version read before the query, and shows what was announced under it.
LEMMA StoreInv == ASSUME CacheInv, NEW r \in Readers, NEW stored \in BOOLEAN, NEW ok \in BOOLEAN, Store(r, stored, ok) PROVE CacheInv'
<1>1. PICK q : q = rd[r]
  OBVIOUS
<1>2. PICK p : p = Home[r]
  OBVIOUS
<1>3. /\ CacheType /\ p \in Procs /\ proc[p] \in ProcRows /\ DOMAIN proc = Procs /\ ReaderSound(q) /\ q.pc = "store" /\ DOMAIN rd = Readers
      /\ entry \in [Namespaces -> [ver : Nat, data : Nat]]
  BY <1>1, <1>2, HomeAssumption DEF CacheInv, CacheType, ProcRows, Store
<1>4. /\ q \in ReadRows /\ q.ns \in Namespaces /\ q.ver <= top /\ (ver[q.ns] # None => q.ver <= ver[q.ns])
      /\ Enough(q.data, q) /\ (ver[q.ns] = q.ver => q.data >= announced[q.ns]) /\ q.ver \in Nat /\ q.data \in Nat
  BY <1>3 DEF ReaderSound, Loading, Replaying, ReadRows
<1>5. PICK z : z = Served(q, q.data)
  OBVIOUS
<1>6. z \in ReadRows /\ z.pc = "served" /\ z.data = q.data /\ z.due = q.due /\ z.own = q.own
  BY <1>4, <1>5, ServedSound
<1>7. rd' = [rd EXCEPT ![r] = z] /\ UNCHANGED <<db, ver, top, wr>> /\ UNCHANGED history
  BY <1>1, <1>3, <1>5 DEF Store
<1>8. DOMAIN proc' = Procs /\ \A y \in Procs : proc'[y] \in ProcRows /\ proc'[y].missed = proc[y].missed
  <2>1. CASE ok
    BY <1>3, <2>1 DEF Store, CacheType, ProcRows
  <2>2. CASE ~ok
    <3>1. PICK x : x = [proc[p] EXCEPT !.down = TRUE]
      OBVIOUS
    <3>2. x \in ProcRows /\ x.missed = proc[p].missed /\ proc' = [proc EXCEPT ![p] = x]
      BY <1>2, <1>3, <2>2, <3>1 DEF ProcRows, Store
    <3>3. DOMAIN proc' = Procs /\ proc'[p] = x /\ (\A y \in Procs : y # p => proc'[y] = proc[y]) /\ \A y \in Procs : proc'[y] \in ProcRows
      BY <1>3, <3>2, OneProc
    <3> QED BY <3>2, <3>3
  <2> QED BY <2>1, <2>2
<1>9. PICK e : e = [ver |-> q.ver, data |-> q.data]
  OBVIOUS
<1>10. e \in [ver : Nat, data : Nat] /\ e.ver = q.ver /\ e.data = q.data
  BY <1>4, <1>9
<1>11. entry' = entry \/ entry' = [entry EXCEPT ![q.ns] = e]
  BY <1>1, <1>9 DEF Store, Tag
<1>12. entry' \in [Namespaces -> [ver : Nat, data : Nat]] /\ \A m \in Namespaces : entry'[m] = entry[m] \/ (m = q.ns /\ entry'[m] = e)
  BY <1>3, <1>4, <1>10, <1>11
<1>13. ASSUME NEW m \in Namespaces PROVE EntrySound(m)'
  <2>1. EntrySound(m)
    BY DEF CacheInv
  <2>2. CASE entry'[m] = entry[m]
    BY <1>7, <2>1, <2>2 DEF EntrySound, history
  <2>3. CASE m = q.ns /\ entry'[m] = e
    <3>1. announced'[m] <= db'[m] /\ (ver'[m] # None => 0 < ver'[m] /\ ver'[m] <= top')
      BY <1>7, <2>1 DEF EntrySound, history
    <3>2. e.ver <= top' /\ (ver'[m] # None => e.ver <= ver'[m]) /\ (ver'[m] = e.ver => e.data >= announced'[m])
      BY <1>4, <1>7, <1>10, <2>3 DEF history
    <3> QED BY <2>3, <3>1, <3>2 DEF EntrySound
  <2> QED BY <1>12, <2>2, <2>3
<1>14. ReaderSound(z)'
  <2>1. Enough(z.data, z)'
    BY <1>4, <1>6, <1>7 DEF Enough, history
  <2> QED BY <1>6, <2>1 DEF ReaderSound, Loading, Replaying
<1>15. \A s \in Readers : \A y : s # r /\ y = rd[s] => Shareable(z, y)' /\ Shareable(y, z)'
  BY <1>6 DEF Shareable
<1> QED BY <1>7, <1>8, <1>12, <1>13, <1>14, <1>15, RequestStep

\* A step after which no request waits that did not, and nothing is loaded that was not, keeps loads shareable.
LEMMA StillShareable ==
    ASSUME CacheInv,
           \A s \in Readers : rd'[s].pc \in {"miss", "follow"} => rd'[s] = rd[s],
           \A s \in Readers : rd'[s].pc \in {"loaded", "store"} =>
               rd[s].pc \in {"loaded", "store"} /\ rd[s].ns = rd'[s].ns /\ rd[s].ver = rd'[s].ver /\ rd[s].data = rd'[s].data
    PROVE  \A s, t \in Readers : Shareable(rd[s], rd[t])'
<1> SUFFICES ASSUME NEW s \in Readers, NEW t \in Readers PROVE Shareable(rd[s], rd[t])'
  OBVIOUS
<1>1. Shareable(rd[s], rd[t])
  BY DEF CacheInv
<1> QED BY <1>1 DEF Shareable, Enough

\* Followers get the leader's payload, or load for themselves.
LEMMA PublishInv == ASSUME CacheInv, NEW r \in Readers, NEW ok \in BOOLEAN, Publish(r, ok) PROVE CacheInv'
<1>1. PICK q : q = rd[r]
  OBVIOUS
<1>2. PICK p : p = Home[r]
  OBVIOUS
<1>3. /\ CacheType /\ p \in Procs /\ proc[p] \in ProcRows /\ DOMAIN proc = Procs /\ ReaderSound(q) /\ q.pc = "loaded"
      /\ UNCHANGED <<db, ver, top, entry, wr>> /\ UNCHANGED history
      /\ proc' = [proc EXCEPT ![p].flight = @ \ {FlightKey(r)}]
  BY <1>1, <1>2, HomeAssumption DEF CacheInv, CacheType, ProcRows, Publish
<1>4. UNCHANGED <<announced, noted, finished, dropped>>
  BY <1>3 DEF history
<1>5. PICK x : x = [proc[p] EXCEPT !.flight = @ \ {FlightKey(r)}]
  OBVIOUS
<1>6. x \in ProcRows /\ x.missed = proc[p].missed /\ proc' = [proc EXCEPT ![p] = x]
  BY <1>3, <1>5 DEF ProcRows
<1>7. DOMAIN proc' = Procs /\ proc'[p] = x /\ (\A y \in Procs : y # p => proc'[y] = proc[y]) /\ \A y \in Procs : proc'[y] \in ProcRows
  BY <1>3, <1>6, OneProc
<1>8. /\ DOMAIN rd' = Readers
      /\ rd'[r] = (IF ok THEN [q EXCEPT !.pc = "store"] ELSE NoRead)
      /\ \A s \in Readers : s # r /\ s \in Followers(r) => rd'[s] = Served(rd[s], IF ok THEN q.data ELSE db[rd[s].ns])
      /\ \A s \in Readers : s # r /\ s \notin Followers(r) => rd'[s] = rd[s]
  BY <1>1 DEF Publish
<1>9. CacheGrows
  BY <1>3, <1>4, CacheStill
<1>10. CacheType'
  BY <1>3, <1>4, <1>7, <1>8 DEF CacheType, ProcRows
<1>11. q \in ReadRows /\ Enough(q.data, q) /\ q.ns \in Namespaces
  BY <1>3 DEF ReaderSound, Loading, Replaying
<1>12. ASSUME NEW s \in Readers, s # r, s \in Followers(r)
       PROVE  rd'[s] \in ReadRows /\ rd'[s].pc = "served" /\ Enough(rd[s].data, rd[s])'
  <2>1. PICK y : y = rd[s]
    OBVIOUS
  <2>2. y.pc = "follow" /\ y.ns = q.ns /\ y.ver = q.ver
    BY <1>1, <1>12, <2>1 DEF Followers, FlightKey
  <2>3. ReaderSound(y) /\ Shareable(y, q)
    BY <1>1, <2>1 DEF CacheInv
  <2>4. y \in ReadRows /\ y.due <= db[q.ns] /\ y.own <= db[q.ns] /\ y.due \in Nat /\ y.own \in Nat
    BY <2>2, <2>3 DEF ReaderSound, Loading, Replaying, ReadRows
  <2>5. Enough(q.data, y)
    BY <1>3, <2>2, <2>3 DEF Shareable
  <2>6. PICK d : d = IF ok THEN q.data ELSE db[q.ns]
    OBVIOUS
  <2>7. d \in Nat /\ d >= y.due /\ d >= y.own
    <3>1. CASE ok
      BY <1>11, <2>5, <2>6, <3>1 DEF Enough, ReadRows
    <3>2. CASE ~ok
      <4>1. db[q.ns] \in Nat
        BY <1>3, <1>11 DEF CacheType
      <4> QED BY <2>4, <2>6, <3>2, <4>1
    <3> QED BY <3>1, <3>2
  <2>8. rd'[s] = Served(y, d)
    BY <1>8, <1>12, <2>1, <2>2, <2>6
  <2>9. rd'[s] \in ReadRows /\ rd'[s].pc = "served" /\ rd'[s].data = d /\ rd'[s].due = y.due /\ rd'[s].own = y.own
    BY <2>4, <2>7, <2>8, ServedSound
  <2> QED BY <1>4, <2>7, <2>9 DEF Enough
<1>13. rd'[r] \in ReadRows /\ rd'[r].pc \in {"store", "idle"}
       /\ (rd'[r].pc = "store" => rd'[r].ns = q.ns /\ rd'[r].ver = q.ver /\ rd'[r].data = q.data /\ rd'[r].due = q.due /\ rd'[r].own = q.own)
  BY <1>8, <1>11, CacheRows DEF ReadRows, NoRead, Loading, Replaying
<1>14. ASSUME NEW s \in Readers PROVE ReaderSound(rd[s])'
  <2>1. CASE s = r
    <3>1. CASE rd'[r].pc = "idle"
      BY <1>13, <2>1, <3>1 DEF ReaderSound, Loading, Replaying
    <3>2. CASE rd'[r].pc = "store"
      <4>1. q.ns \in Namespaces /\ q.due <= db[q.ns] /\ q.own <= db[q.ns] /\ q.ver <= top /\ (ver[q.ns] # None => q.ver <= ver[q.ns])
            /\ (ver[q.ns] = q.ver => q.data >= announced[q.ns])
        BY <1>3 DEF ReaderSound, Loading, Replaying
      <4>2. Enough(rd[r].data, rd[r])'
        BY <1>4, <1>11, <1>13, <3>2 DEF Enough
      <4> QED BY <1>3, <1>4, <1>13, <2>1, <3>2, <4>1, <4>2 DEF ReaderSound, Loading, Replaying
    <3> QED BY <1>13, <3>1, <3>2
  <2>2. CASE s # r /\ s \in Followers(r)
    BY <1>12, <2>2 DEF ReaderSound, Loading, Replaying
  <2>3. CASE s # r /\ s \notin Followers(r)
    <3>1. ReaderSound(rd[s]) /\ rd'[s] = rd[s]
      BY <1>8, <2>3 DEF CacheInv
    <3> QED BY <1>3, <1>4, <3>1 DEF ReaderSound, Enough
  <2> QED BY <2>1, <2>2, <2>3
<1>15. ASSUME NEW s \in Readers
       PROVE  /\ rd'[s].pc \in {"miss", "follow"} => rd'[s] = rd[s]
              /\ rd'[s].pc \in {"loaded", "store"} =>
                   rd[s].pc \in {"loaded", "store"} /\ rd[s].ns = rd'[s].ns /\ rd[s].ver = rd'[s].ver /\ rd[s].data = rd'[s].data
  BY <1>1, <1>3, <1>8, <1>12, <1>13
<1>16. \A s, t \in Readers : Shareable(rd[s], rd[t])'
  BY <1>4, <1>15, StillShareable
<1>17. \A m \in Namespaces : EntrySound(m)'
  BY <1>3, <1>4 DEF CacheInv, EntrySound
<1>18. ASSUME NEW w \in Writers PROVE WriterSound(w)'
  BY <1>3, <1>4 DEF CacheInv, WriterSound
<1>19. ASSUME NEW y \in Procs, NEW m \in Namespaces PROVE OwedSound(y, m)'
  <2>1. OwedSound(y, m) /\ proc'[y].missed = proc[y].missed
    BY <1>6, <1>7 DEF CacheInv
  <2> QED BY <1>3, <1>4, <2>1 DEF OwedSound
<1> QED BY <1>10, <1>14, <1>16, <1>17, <1>18, <1>19, CacheTogether

\* A step that leaves requests and writers alone, and what processes have noted.
LEMMA NobodyActs ==
    ASSUME CacheInv, CacheType', CacheGrows, UNCHANGED <<rd, wr, noted, finished, dropped>>,
           \A n \in Namespaces : EntrySound(n)', \A p \in Procs : proc'[p].missed = proc[p].missed
    PROVE  CacheInv'
<1>1. \A p \in Procs, n \in Namespaces : noted'[p][n] >= noted[p][n]
  BY DEF CacheInv, CacheType
<1>2. ASSUME NEW w \in Writers PROVE WriterSound(w)'
  <2>1. WriterSound(w) /\ CacheType /\ Home[w] \in Procs /\ wr'[w] = wr[w]
    BY HomeAssumption DEF CacheInv
  <2>2. \A n \in Namespaces : noted'[Home[w]][n] >= noted[Home[w]][n]
    BY <1>1, <2>1
  <2> QED BY <2>1, <2>2, WriterKept
<1>3. ASSUME NEW p \in Procs, NEW n \in Namespaces PROVE OwedSound(p, n)'
  BY OwedKept DEF CacheInv
<1>4. /\ \A r \in Readers : ReaderSound(rd[r])'
      /\ \A q, r \in Readers : Shareable(rd[q], rd[r])'
  BY <1>1, ReadersKept
<1> QED BY <1>2, <1>3, <1>4, CacheTogether

\* The cooldown of a process ends.
LEMMA CooldownEndsInv == ASSUME CacheInv, NEW p \in Procs, CooldownEnds(p) PROVE CacheInv'
<1>1. CacheType /\ proc[p] \in ProcRows /\ DOMAIN proc = Procs /\ UNCHANGED <<db, ver, top, entry, rd, wr>> /\ UNCHANGED history
      /\ proc' = [proc EXCEPT ![p].down = FALSE]
  BY DEF CacheInv, CacheType, ProcRows, CooldownEnds
<1>2. PICK x : x = [proc[p] EXCEPT !.down = FALSE]
  OBVIOUS
<1>3. x \in ProcRows /\ x.missed = proc[p].missed /\ proc' = [proc EXCEPT ![p] = x]
  BY <1>1, <1>2 DEF ProcRows
<1>4. DOMAIN proc' = Procs /\ proc'[p] = x /\ (\A y \in Procs : y # p => proc'[y] = proc[y]) /\ \A y \in Procs : proc'[y] \in ProcRows
  BY <1>1, <1>3, OneProc
<1>5. UNCHANGED <<announced, noted, finished, dropped>>
  BY <1>1 DEF history
<1>6. CacheGrows
  BY <1>1, <1>5, CacheStill
<1>7. CacheType'
  BY <1>1, <1>4, <1>5 DEF CacheType, ProcRows
<1>8. \A n \in Namespaces : EntrySound(n)'
  BY <1>1, <1>5 DEF CacheInv, EntrySound
<1>9. \A y \in Procs : proc'[y].missed = proc[y].missed
  BY <1>3, <1>4
<1> QED BY <1>1, <1>5, <1>6, <1>7, <1>8, <1>9, NobodyActs

\* An entry expires: version 0 is no namespace's version.
LEMMA ExpireInv == ASSUME CacheInv, NEW n \in Namespaces, Expire(n) PROVE CacheInv'
<1>1. CacheType /\ entry \in [Namespaces -> [ver : Nat, data : Nat]] /\ None \notin Nat
      /\ UNCHANGED <<db, ver, top, proc, rd, wr>> /\ UNCHANGED history /\ entry' = [entry EXCEPT ![n] = NoEntry]
  BY HomeAssumption DEF CacheInv, CacheType, Expire
<1>2. NoEntry \in [ver : Nat, data : Nat] /\ NoEntry.ver = 0
  BY DEF NoEntry
<1>3. entry' \in [Namespaces -> [ver : Nat, data : Nat]] /\ entry'[n] = NoEntry /\ \A m \in Namespaces : m # n => entry'[m] = entry[m]
  BY <1>1, <1>2
<1>4. UNCHANGED <<announced, noted, finished, dropped>>
  BY <1>1 DEF history
<1>5. CacheGrows
  BY <1>1, <1>4, CacheStill
<1>6. CacheType'
  BY <1>1, <1>3, <1>4 DEF CacheType
<1>7. ASSUME NEW m \in Namespaces PROVE EntrySound(m)'
  <2>1. EntrySound(m) /\ top \in Nat /\ ver[m] \in Nat \cup {None}
    BY <1>1 DEF CacheInv, CacheType
  <2>2. CASE m # n
    BY <1>1, <1>3, <1>4, <2>1, <2>2 DEF EntrySound
  <2>3. CASE m = n
    BY <1>1, <1>2, <1>3, <1>4, <2>1, <2>3 DEF EntrySound
  <2> QED BY <2>2, <2>3
<1> QED BY <1>1, <1>4, <1>5, <1>6, <1>7, NobodyActs

\* A version is lost: the next one comes from the clock, which is ahead.
LEMMA LoseVersionInv == ASSUME CacheInv, NEW n \in Namespaces, LoseVersion(n) PROVE CacheInv'
<1>1. CacheType /\ top \in Nat /\ ver \in [Namespaces -> Nat \cup {None}]
      /\ UNCHANGED <<db, entry, proc, rd, wr>> /\ UNCHANGED history /\ ver' = [ver EXCEPT ![n] = None] /\ top' = top + 1
  BY DEF CacheInv, CacheType, LoseVersion
<1>2. UNCHANGED <<announced, noted, finished, dropped>>
  BY <1>1 DEF history
<1>3. ver' \in [Namespaces -> Nat \cup {None}] /\ ver'[n] = None /\ (\A m \in Namespaces : m # n => ver'[m] = ver[m]) /\ top' \in Nat
  BY <1>1
<1>4. CacheGrows
  <2>1. ASSUME NEW m \in Namespaces
        PROVE  /\ db'[m] >= db[m] /\ announced'[m] >= announced[m] /\ announced'[m] <= db'[m]
               /\ ver'[m] # None => 0 < ver'[m] /\ ver'[m] <= top'
               /\ (ver'[m] = ver[m] /\ announced'[m] = announced[m]) \/ ver'[m] = None
    <3>1. EntrySound(m) /\ db[m] \in Nat /\ announced[m] \in Nat /\ ver[m] \in Nat \cup {None}
      BY <1>1 DEF CacheInv, CacheType
    <3> QED BY <1>1, <1>2, <1>3, <3>1 DEF EntrySound
  <2> QED BY <1>1, <1>2, <2>1 DEF CacheGrows
<1>5. CacheType'
  BY <1>1, <1>2, <1>3 DEF CacheType
<1>6. ASSUME NEW m \in Namespaces PROVE EntrySound(m)'
  BY <1>1, <1>4, <1>5, EntryKept DEF CacheInv
<1> QED BY <1>1, <1>2, <1>4, <1>5, <1>6, NobodyActs

\* A process restarts, and its requests end with it.
LEMMA RestartInv == ASSUME CacheInv, NEW p \in Procs, Restart(p) PROVE CacheInv'
<1>1. /\ CacheType /\ UNCHANGED <<db, ver, top, entry, announced>> /\ proc' = [proc EXCEPT ![p] = Fresh] /\ dropped' = {d \in dropped : d[1] # p}
      /\ finished' = [finished EXCEPT ![p] = Never] /\ noted' = [noted EXCEPT ![p] = Never]
      /\ rd' = [r \in Readers |-> IF Home[r] = p THEN NoRead ELSE rd[r]]
      /\ wr' = [w \in Writers |-> IF Home[w] = p THEN NoWrite ELSE wr[w]]
  BY DEF CacheInv, Restart
<1>2. Fresh \in ProcRows
  BY DEF Fresh, ProcRows
<1>3. DOMAIN proc' = Procs /\ (\A y \in Procs : y # p => proc'[y] = proc[y]) /\ \A y \in Procs : proc'[y] \in ProcRows
  BY <1>1, <1>2, OneProc
<1>4. finished' \in [Procs -> [Namespaces -> Nat]] /\ noted' \in [Procs -> [Namespaces -> Nat]] /\ finished'[p] = Never /\ noted'[p] = Never
      /\ \A y \in Procs : y # p => finished'[y] = finished[y] /\ noted'[y] = noted[y]
  BY <1>1, CacheRows DEF CacheType
<1>5. CacheGrows
  BY <1>1, CacheStill
<1>6. CacheType'
  <2>1. wr' \in [Writers -> WriteRows] /\ DOMAIN rd' = Readers
    BY <1>1, CacheRows DEF CacheType
  <2> QED BY <1>1, <1>3, <1>4, <2>1 DEF CacheType, ProcRows
<1>7. ASSUME NEW m \in Namespaces PROVE EntrySound(m)'
  BY <1>1 DEF CacheInv, EntrySound
<1>8. ASSUME NEW y \in Procs, NEW m \in Namespaces PROVE OwedSound(y, m)'
  <2>1. OwedSound(y, m) /\ announced[m] \in Nat /\ db[m] \in Nat
    BY <1>1 DEF CacheInv, CacheType
  <2>2. CASE y = p
    <3>1. finished'[y][m] = 0 /\ noted'[y][m] = 0
      BY <1>4, <2>2 DEF Never
    <3> QED BY <1>1, <2>1, <3>1 DEF OwedSound
  <2>3. CASE y # p
    <3>1. <<y, m>> \in dropped => <<y, m>> \in dropped'
      BY <1>1, <2>3
    <3> QED BY <1>1, <1>3, <1>4, <2>1, <2>3, <3>1 DEF OwedSound
  <2> QED BY <2>2, <2>3
<1>9. ASSUME NEW w \in Writers PROVE WriterSound(w)'
  <2>1. WriterSound(w) /\ Home[w] \in Procs
    BY HomeAssumption DEF CacheInv
  <2>2. CASE Home[w] = p
    <3>1. wr'[w] = NoWrite /\ NoWrite.pc = "idle"
      BY <1>1, <2>2 DEF NoWrite
    <3> QED BY <3>1 DEF WriterSound
  <2>3. CASE Home[w] # p
    <3>1. wr'[w] = wr[w] /\ noted'[Home[w]] = noted[Home[w]]
      BY <1>1, <1>4, <2>1, <2>3
    <3> QED BY <1>1, <2>1, <3>1 DEF WriterSound
  <2> QED BY <2>2, <2>3
<1>10. ASSUME NEW s \in Readers PROVE ReaderSound(rd[s])'
  <2>1. ReaderSound(rd[s]) /\ Home[s] \in Procs
    BY HomeAssumption DEF CacheInv
  <2>2. CASE Home[s] = p
    <3>1. rd'[s] = NoRead /\ NoRead \in ReadRows /\ NoRead.pc = "idle"
      BY <1>1, <2>2, CacheRows DEF NoRead
    <3> QED BY <3>1 DEF ReaderSound, Loading, Replaying
  <2>3. CASE Home[s] # p
    <3>1. rd'[s] = rd[s] /\ noted'[Home[s]] = noted[Home[s]]
      BY <1>1, <1>4, <2>1, <2>3
    <3> QED BY <1>1, <2>1, <3>1 DEF ReaderSound, Enough
  <2> QED BY <2>2, <2>3
<1>11. \A s \in Readers : rd'[s] = rd[s] \/ rd'[s].pc = "idle"
  BY <1>1 DEF NoRead
<1>12. \A s, t \in Readers : Shareable(rd[s], rd[t])'
  BY <1>1, <1>11, StillShareable
<1> QED BY <1>6, <1>7, <1>8, <1>9, <1>10, <1>12, CacheTogether

\* Nothing is cached, read or written at first.
LEMMA CacheInitInv == CacheInit => CacheInv
<1> SUFFICES ASSUME CacheInit PROVE CacheInv
  OBVIOUS
<1>1. CacheType
  BY CacheRows DEF CacheInit, CacheType, NoEntry, Fresh
<1>2. ASSUME NEW n \in Namespaces PROVE EntrySound(n)
  BY HomeAssumption DEF CacheInit, EntrySound, Never, NoEntry
<1>3. ASSUME NEW p \in Procs, NEW n \in Namespaces PROVE OwedSound(p, n)
  BY DEF CacheInit, OwedSound, Never
<1>4. ASSUME NEW w \in Writers PROVE WriterSound(w)
  BY DEF CacheInit, WriterSound, NoWrite
<1>5. ASSUME NEW r \in Readers PROVE ReaderSound(rd[r])
  BY CacheRows DEF CacheInit, ReaderSound, NoRead, Loading, Replaying
<1>6. ASSUME NEW q \in Readers, NEW r \in Readers PROVE Shareable(rd[q], rd[r])
  BY DEF CacheInit, Shareable, NoRead
<1> QED BY <1>1, <1>2, <1>3, <1>4, <1>5, <1>6 DEF CacheInv

\* Every step keeps the invariant.
LEMMA CacheStep == CacheInv /\ [CacheNext]_cacheVars => CacheInv'
<1> SUFFICES ASSUME CacheInv, [CacheNext]_cacheVars PROVE CacheInv'
  OBVIOUS
<1>1. CASE Writing
  BY <1>1, CommitInv, SendBumpInv, InvalidateInv, BumpAnsweredInv, BumpFailsInv DEF Writing
<1>2. CASE Reading
  BY <1>2, StartInv, ReplayInv, ReplayAnsweredInv, ReadInv, ReadFailsInv, LeadInv, FollowInv, FinishReadInv, PublishInv, StoreInv DEF Reading
<1>3. CASE Failures
  BY <1>3, ExpireInv, LoseVersionInv, CooldownEndsInv, RestartInv DEF Failures
<1>4. CASE UNCHANGED cacheVars
  BY <1>4 DEF cacheVars, CacheInv, CacheType, EntrySound, OwedSound, WriterSound, ReaderSound, Shareable, Enough
<1> QED BY <1>1, <1>2, <1>3, <1>4 DEF CacheNext

\* A sound answer is fresh.
LEMMA CacheSafe == CacheInv => ServedIsFresh
  BY DEF CacheInv, ReaderSound, Enough, ServedIsFresh, NothingStaleAfterInvalidation, OwnWritesSeen

\* A list that is served is as new as the writes its reader may rely on, for any number of processes, requests, tables and
\* faults (core/cache.py).
THEOREM ServedFresh ==
    /\ CacheSpec => []ServedIsFresh
    /\ Spec => []Cache_ServedIsFresh
<1> DEFINE I == part = "cache" => CacheInv
<1>1. CacheInv => ServedIsFresh
  BY CacheSafe
<1>2. Init => I
  BY CacheInitInv DEF Init
<1>3. I /\ [Next]_vars => I'
  BY PartStep, CacheStep
<1>4. I => Cache_ServedIsFresh
  BY <1>1 DEF Cache_ServedIsFresh
<1>5. CacheSpec => []ServedIsFresh
  BY <1>1, CacheInitInv, CacheStep, PTL DEF CacheSpec
<1>6. Spec => []Cache_ServedIsFresh
  <2> HIDE DEF I
  <2> QED BY <1>2, <1>3, <1>4, PTL DEF Spec
<1> QED BY <1>5, <1>6

-----------------------------------------------------------------------------
(* The payment gateways.                                                   *)

Captured == {"succeeded", "refunded"}
IntentRows == [state : {"none", "open", "canceled"} \cup Captured, cfg : Configs \cup {None}, key : planned \cup {None},
               received : {"full", "part", None}]
PaymentRows == [status : {"none", "pending", "failed"} \cup Captured, reference : Intents \cup {None}]
EventRows == [kind : {"succeeded", "failed", "refund"}, i : Intents, amount : {"full", "part", None}, reference : Intents \cup {None}, n : Nat]

Demo(i) == Provider[gateway[i].cfg] = "demo"
Claimed(e) == <<Provider[gateway[e.i].cfg], e>> \in claimed

GatewaysType ==
    /\ gateway \in [Intents -> IntentRows] /\ row \in [Intents -> PaymentRows]
    /\ sent \subseteq EventRows /\ IsFiniteSet(sent) /\ deferred \subseteq EventRows
    /\ orderStatus \in {"pending", "paid", "cancelled"} /\ paidBy \in Intents \cup {None}
    /\ vouched \in [Intents -> Configs \cup {None, Recovered}] /\ DOMAIN reads = Payers /\ heard \subseteq Intents

\* An intent that the shop knows of exists at a gateway, and a payment that is credited was captured in full.
IntentSound(i) ==
    /\ IF gateway[i].state = "none" THEN gateway[i] = NoIntent /\ row[i].status = "none" /\ i \notin heard ELSE gateway[i].cfg \in Configs
    /\ row[i].status = "none" => row[i] = NoRow
    /\ row[i].status = "succeeded" =>
          /\ gateway[i].state \in Captured /\ gateway[i].received = "full" /\ vouched[i] \in {gateway[i].cfg, Recovered}
          /\ Refs(i) /\ vouched[i] # Recovered => row[i].reference # None

\* An event is about an intent that exists at another gateway than the demo one, and what it tells has happened.
EventSound(e) ==
    /\ gateway[e.i].state # "none" /\ ~Demo(e.i)
    /\ e.reference = IF Refs(e.i) THEN e.i ELSE None
    /\ e.kind = "succeeded" => gateway[e.i].state \in Captured /\ gateway[e.i].received = e.amount
    /\ e.kind = "refund" => gateway[e.i].state = "refunded"

\* A refund that the shop was told of is on record.
RefundTold(e) == e.kind = "refund" /\ Claimed(e) => <<"external_refund", e.i>> \in flags \/ <<"unknown_refund", e.i>> \in flags

\* A deferred event is what was kept of one that was taken.
DeferredSound(f) == f.kind # "failed" /\ \E e \in sent : f = Kept(e) /\ Claimed(e)

\* A demo payer works on a payment that was made at the demo gateway.
PayerSound(p) == reads[p] # None => reads[p].i \in Intents /\ row[reads[p].i].status # "none" /\ Demo(reads[p].i)

\* The payment that decided the order was told by one event, which cannot come again.
PaidOnce(i) ==
    paidBy = i =>
        /\ gateway[i].state # "none"
        /\ ~Demo(i) => /\ gateway[i].state \in Captured
                       /\ \A e \in sent : e.kind = "succeeded" /\ e.i = i => Claimed(e)
                       /\ \A f \in deferred : f.kind = "succeeded" => f.i # i
                       /\ <<"late", i>> \notin flags

GatewaysInv ==
    /\ GatewaysType
    /\ \A i \in Intents : IntentSound(i)
    /\ \A e \in sent : EventSound(e) /\ RefundTold(e)
    /\ \A e, f \in sent : e.kind = "succeeded" /\ f.kind = "succeeded" /\ e.i = f.i => e = f
    /\ \A c \in claimed : \E e \in sent : c = <<Provider[gateway[e.i].cfg], e>>
    /\ \A f \in deferred : DeferredSound(f)
    /\ \A p \in Payers : PayerSound(p)
    /\ \A i \in Intents : PaidOnce(i)
    /\ \A i \in Intents : <<"late", i>> \in flags => orderStatus # "pending"

\* What every step keeps of an intent: it stays where it was made, and what was captured elsewhere than at the demo gateway
\* stays captured, and refunded what was refunded.
GatewayKept ==
    \A i \in Intents : gateway[i].state # "none" =>
        /\ gateway'[i].state # "none" /\ gateway'[i].cfg = gateway[i].cfg
        /\ ~Demo(i) /\ gateway[i].state \in Captured => gateway'[i].state \in Captured /\ gateway'[i].received = gateway[i].received
        /\ ~Demo(i) /\ gateway[i].state = "refunded" => gateway'[i].state = "refunded"

\* Events stay true.
LEMMA EventsKept ==
    ASSUME GatewaysInv, GatewayKept, NEW e \in sent
    PROVE  EventSound(e)' /\ gateway'[e.i].cfg = gateway[e.i].cfg /\ e.i \in Intents /\ gateway[e.i].state # "none"
<1>1. EventSound(e) /\ e \in EventRows
  BY DEF GatewaysInv, GatewaysType
<1>2. e.i \in Intents
  BY <1>1 DEF EventRows
<1> QED BY <1>1, <1>2 DEF EventSound, GatewayKept, Demo, Refs

\* A step that takes no event, sends none and credits nothing keeps the invariant if the intents stay sound.
LEMMA NoEventStep ==
    ASSUME GatewaysInv, GatewaysType', GatewayKept, UNCHANGED <<sent, claimed, paidBy>>, deferred' \subseteq deferred,
           \A x : x \in flags => x \in flags',
           \A i \in Intents : <<"late", i>> \in flags' => <<"late", i>> \in flags,
           orderStatus # "pending" => orderStatus' # "pending",
           \A p \in Payers : PayerSound(p)',
           \A i \in Intents : IntentSound(i)'
    PROVE  GatewaysInv'
<1>1. ASSUME NEW e \in sent PROVE EventSound(e)' /\ RefundTold(e)' /\ (Claimed(e) <=> Claimed(e)')
             /\ gateway'[e.i].cfg = gateway[e.i].cfg
  <2>1. EventSound(e)' /\ gateway'[e.i].cfg = gateway[e.i].cfg
    BY EventsKept
  <2>2. Claimed(e) <=> Claimed(e)'
    BY <2>1 DEF Claimed
  <2>3. RefundTold(e)'
    BY <2>2 DEF GatewaysInv, RefundTold
  <2> QED BY <2>1, <2>2, <2>3
<1>2. \A c \in claimed' : \E e \in sent' : c = <<Provider[gateway'[e.i].cfg], e>>
  BY <1>1 DEF GatewaysInv
<1>3. ASSUME NEW f \in deferred' PROVE DeferredSound(f)'
  BY <1>1 DEF GatewaysInv, DeferredSound, Kept
<1>4. ASSUME NEW i \in Intents PROVE PaidOnce(i)'
  <2> SUFFICES ASSUME paidBy = i PROVE PaidOnce(i)'
    BY DEF PaidOnce
  <2>1. PaidOnce(i) /\ gateway[i].state # "none"
    BY DEF GatewaysInv, PaidOnce
  <2>2. gateway'[i].cfg = gateway[i].cfg /\ gateway'[i].state # "none"
    BY <2>1 DEF GatewayKept
  <2>3. ~Demo(i)' => ~Demo(i) /\ gateway[i].state \in Captured /\ gateway'[i].state \in Captured
    BY <2>1, <2>2 DEF PaidOnce, GatewayKept, Demo
  <2> QED BY <1>1, <2>1, <2>2, <2>3 DEF PaidOnce
<1>5. \A i \in Intents : <<"late", i>> \in flags' => orderStatus' # "pending"
  BY DEF GatewaysInv
<1>6. \A e, f \in sent' : e.kind = "succeeded" /\ f.kind = "succeeded" /\ e.i = f.i => e = f
  BY DEF GatewaysInv
<1> QED BY <1>1, <1>2, <1>3, <1>4, <1>5, <1>6 DEF GatewaysInv

\* Payments of a demo payer stay.
LEMMA PayersKept ==
    ASSUME GatewaysInv, GatewayKept, \A p \in Payers : reads'[p] \in {None, reads[p]},
           \A i \in Intents : row[i].status # "none" => row'[i].status # "none"
    PROVE  \A p \in Payers : PayerSound(p)'
<1> SUFFICES ASSUME NEW p \in Payers, reads[p] # None, reads'[p] = reads[p] PROVE PayerSound(p)'
  BY DEF PayerSound
<1>1. PayerSound(p)
  BY DEF GatewaysInv
<1>2. PICK i : i = reads[p].i
  OBVIOUS
<1>3. i \in Intents /\ row[i].status # "none" /\ Demo(i) /\ IntentSound(i)
  BY <1>1, <1>2 DEF PayerSound, GatewaysInv
<1>4. gateway[i].state # "none"
  BY <1>3 DEF IntentSound
<1>5. gateway'[i].cfg = gateway[i].cfg /\ row'[i].status # "none"
  BY <1>3, <1>4 DEF GatewayKept
<1>6. Demo(i)'
  BY <1>3, <1>5 DEF Demo
<1> QED BY <1>2, <1>3, <1>5, <1>6 DEF PayerSound, Demo

\* An intent that a step leaves alone stays sound.
LEMMA IntentKept ==
    ASSUME NEW i \in Intents, IntentSound(i), gateway'[i] = gateway[i], row'[i] = row[i], vouched'[i] = vouched[i],
           i \in heard' => i \in heard \/ gateway[i].state # "none"
    PROVE  IntentSound(i)'
  BY DEF IntentSound, Refs

\* Intents that nobody touches are kept.
LEMMA GatewayStill == ASSUME UNCHANGED gateway PROVE GatewayKept
  BY DEF GatewayKept

\* A request plans a payment.
LEMMA PlanPaymentInv == ASSUME GatewaysInv, PlanPayment PROVE GatewaysInv'
<1>1. /\ UNCHANGED <<gateway, heard, row, orderStatus, paidBy, sent, claimed, deferred, flags, reads, vouched>>
      /\ planned \subseteq planned'
  BY DEF PlanPayment
<1>2. GatewayKept
  BY <1>1, GatewayStill
<1>3. \A p \in Payers : PayerSound(p)'
  BY <1>1, <1>2, PayersKept
<1>4. \A i \in Intents : IntentSound(i)'
  BY <1>1, IntentKept DEF GatewaysInv
<1>5. IntentRows \subseteq IntentRows'
  BY <1>1 DEF IntentRows
<1>6. GatewaysType'
  BY <1>1, <1>5 DEF GatewaysInv, GatewaysType, PaymentRows, EventRows
<1> QED BY <1>1, <1>2, <1>3, <1>4, <1>6, NoEventStep

\* A payment is continued: it is never credited here.
LEMMA ReusePaymentInv == ASSUME GatewaysInv, NEW i \in Intents, ReusePayment(i) PROVE GatewaysInv'
<1>1. UNCHANGED <<gateway, planned, heard, orderStatus, paidBy, sent, claimed, deferred, flags, reads, vouched>>
      /\ row' = [row EXCEPT ![i].status = Retrieved(i)] /\ row[i].status \in {"pending", "failed"}
  BY DEF ReusePayment, Reusable
<1>2. row \in [Intents -> PaymentRows] /\ GatewaysType /\ IntentSound(i)
  BY DEF GatewaysInv, GatewaysType
<1>3. PICK s : s = Retrieved(i)
  OBVIOUS
<1>4. s \in {"pending", "failed"}
  BY <1>1, <1>3 DEF Retrieved
<1>5. row[i] \in PaymentRows
  BY <1>2
<1>6. row' \in [Intents -> PaymentRows] /\ row'[i].status = s /\ \A j \in Intents : j # i => row'[j] = row[j]
  BY <1>1, <1>2, <1>3, <1>4, <1>5 DEF PaymentRows
<1>7. GatewayKept
  BY <1>1, GatewayStill
<1>8. \A p \in Payers : PayerSound(p)'
  BY <1>1, <1>4, <1>6, <1>7, PayersKept
<1>9. ASSUME NEW j \in Intents PROVE IntentSound(j)'
  <2>1. CASE j = i
    BY <1>1, <1>2, <1>4, <1>6, <2>1 DEF IntentSound
  <2>2. CASE j # i
    BY <1>1, <1>6, <2>2, IntentKept DEF GatewaysInv
  <2> QED BY <2>1, <2>2
<1>10. GatewaysType'
  BY <1>1, <1>2, <1>6 DEF GatewaysType, PaymentRows, EventRows, IntentRows
<1> QED BY <1>1, <1>7, <1>8, <1>9, <1>10, NoEventStep

\* A gateway makes an intent, or answers with one it has.
LEMMA CreateInv == ASSUME GatewaysInv, NEW i \in Intents, NEW c \in Configs, NEW k \in planned, CreatePaymentIntent(i, c, k) PROVE GatewaysInv'
<1>1. UNCHANGED <<planned, row, orderStatus, paidBy, sent, claimed, deferred, flags, reads, vouched>>
  BY DEF CreatePaymentIntent
<1>2. GatewaysType /\ gateway \in [Intents -> IntentRows] /\ IntentSound(i) /\ None \notin Configs
  BY IntentsAssumption DEF GatewaysInv, GatewaysType
<1>3. heard' \in {heard, heard \cup {i}}
  BY DEF CreatePaymentIntent, StripeCreate, RazorpayCreate, DemoCreate
<1>4. (gateway' = gateway /\ i \in Known(c, k)) \/ NewIntent(i, c, k)
  BY DEF CreatePaymentIntent, StripeCreate, RazorpayCreate, DemoCreate
<1>5. CASE gateway' = gateway /\ i \in Known(c, k)
  <2>1. gateway[i].state # "none"
    BY <1>2, <1>5 DEF Known, IntentSound, NoIntent
  <2>2. GatewayKept
    BY <1>5, GatewayStill
  <2>3. \A p \in Payers : PayerSound(p)'
    BY <1>1, <2>2, PayersKept
  <2>4. \A j \in Intents : IntentSound(j)'
    BY <1>1, <1>3, <1>5, <2>1, IntentKept DEF GatewaysInv
  <2>5. GatewaysType'
    BY <1>1, <1>2, <1>3, <1>5 DEF GatewaysType, PaymentRows, EventRows, IntentRows
  <2> QED BY <1>1, <2>2, <2>3, <2>4, <2>5, NoEventStep
<1>6. CASE NewIntent(i, c, k)
  <2>1. PICK x : x = [NoIntent EXCEPT !.state = "open", !.cfg = c, !.key = k]
    OBVIOUS
  <2>2. gateway[i] = NoIntent /\ gateway' = [gateway EXCEPT ![i] = x]
    BY <1>6, <2>1 DEF NewIntent
  <2>3. x \in IntentRows /\ x.state = "open" /\ x.cfg = c
    BY <2>1 DEF NoIntent, IntentRows
  <2>4. gateway' \in [Intents -> IntentRows] /\ gateway'[i] = x /\ \A j \in Intents : j # i => gateway'[j] = gateway[j]
    BY <1>2, <2>2, <2>3
  <2>5. gateway[i].state = "none" /\ row[i].status = "none"
    BY <1>2, <2>2 DEF NoIntent, IntentSound
  <2>6. GatewayKept
    BY <2>4, <2>5 DEF GatewayKept
  <2>7. \A p \in Payers : PayerSound(p)'
    BY <1>1, <2>6, PayersKept
  <2>8. ASSUME NEW j \in Intents PROVE IntentSound(j)'
    <3>1. CASE j = i
      BY <1>1, <1>2, <2>3, <2>4, <2>5, <3>1 DEF IntentSound
    <3>2. CASE j # i
      BY <1>1, <1>3, <2>4, <3>2, IntentKept DEF GatewaysInv
    <3> QED BY <3>1, <3>2
  <2>9. GatewaysType'
    BY <1>1, <1>2, <1>3, <2>4 DEF GatewaysType, PaymentRows, EventRows, IntentRows
  <2> QED BY <1>1, <2>6, <2>7, <2>8, <2>9, NoEventStep
<1> QED BY <1>4, <1>5, <1>6

\* Intents that were open are cancelled, and nothing else happens to intents.
LEMMA CancelOnly ==
    ASSUME GatewaysInv, gateway' = [j \in Intents |-> gateway'[j]], planned' = planned,
           \A j \in Intents : gateway'[j] = gateway[j] \/ (gateway[j].state = "open" /\ gateway'[j] = [gateway[j] EXCEPT !.state = "canceled"])
    PROVE  /\ GatewayKept /\ gateway' \in [Intents -> IntentRows']
           /\ \A j \in Intents : gateway'[j].cfg = gateway[j].cfg /\ gateway'[j].received = gateway[j].received
                /\ (gateway'[j] = gateway[j] \/ (gateway[j].state = "open" /\ gateway'[j].state = "canceled"))
<1>1. gateway \in [Intents -> IntentRows]
  BY DEF GatewaysInv, GatewaysType
<1>2. ASSUME NEW j \in Intents
      PROVE  gateway'[j] \in IntentRows /\ gateway'[j].cfg = gateway[j].cfg /\ gateway'[j].received = gateway[j].received
             /\ (gateway'[j] = gateway[j] \/ (gateway[j].state = "open" /\ gateway'[j].state = "canceled"))
  <2>1. gateway[j] \in IntentRows
    BY <1>1
  <2> QED BY <2>1 DEF IntentRows
<1>3. gateway' \in [Intents -> IntentRows]
  BY <1>2
<1>4. GatewayKept
  BY <1>2 DEF GatewayKept, Captured
<1> QED BY <1>2, <1>3, <1>4 DEF IntentRows

\* Intents whose payment is left alone stay sound when some are cancelled.
LEMMA CancelledSound ==
    ASSUME NEW i \in Intents, IntentSound(i), row'[i] = row[i] \/ (row'[i].status \notin {"none", "succeeded"} /\ gateway[i].state # "none"),
           vouched'[i] = vouched[i], i \in heard' => i \in heard,
           gateway'[i].cfg = gateway[i].cfg, gateway'[i].received = gateway[i].received,
           gateway'[i] = gateway[i] \/ (gateway[i].state = "open" /\ gateway'[i].state = "canceled")
    PROVE  IntentSound(i)'
  BY DEF IntentSound, Refs, Captured

\* An answered intent is recorded, or made unpayable or reported.
LEMMA RecordPaymentInv == ASSUME GatewaysInv, NEW i \in Intents, RecordPayment(i) PROVE GatewaysInv'
<1>1. /\ UNCHANGED <<planned, orderStatus, paidBy, sent, claimed, deferred, reads, vouched>> /\ i \in heard /\ row[i] = NoRow
      /\ heard' = heard \ {i}
  BY DEF RecordPayment
<1>2. GatewaysType /\ gateway \in [Intents -> IntentRows] /\ IntentSound(i) /\ row \in [Intents -> PaymentRows]
  BY DEF GatewaysInv, GatewaysType
<1>3. gateway[i].state # "none" /\ gateway[i].cfg \in Configs /\ row[i].status = "none" /\ row[i].reference = None
  BY <1>1, <1>2 DEF IntentSound, NoRow
<1>4. /\ (flags' = flags \/ flags' = flags \cup {<<"orphan", i>>})
      /\ (gateway' = gateway \/ gateway' = Canceled(i))
      /\ (row' = row \/ row' = [row EXCEPT ![i].status = "pending"])
  BY DEF RecordPayment
<1>5. gateway' = [j \in Intents |-> gateway'[j]]
      /\ \A j \in Intents : gateway'[j] = gateway[j] \/ (gateway[j].state = "open" /\ gateway'[j] = [gateway[j] EXCEPT !.state = "canceled"])
  BY <1>2, <1>4 DEF Canceled, StripeCancels, DemoCancels
<1>6. /\ GatewayKept /\ gateway' \in [Intents -> IntentRows']
      /\ \A j \in Intents : gateway'[j].cfg = gateway[j].cfg /\ gateway'[j].received = gateway[j].received
           /\ (gateway'[j] = gateway[j] \/ (gateway[j].state = "open" /\ gateway'[j].state = "canceled"))
  BY <1>1, <1>5, CancelOnly
<1>7. row' \in [Intents -> PaymentRows] /\ (\A j \in Intents : j # i => row'[j] = row[j]) /\ (row'[i] = row[i] \/ row'[i].status = "pending")
  <2>1. row[i] \in PaymentRows
    BY <1>2
  <2> QED BY <1>2, <1>4, <2>1 DEF PaymentRows
<1>8. ASSUME NEW j \in Intents PROVE IntentSound(j)'
  <2>1. IntentSound(j)
    BY DEF GatewaysInv
  <2>2. row'[j] = row[j] \/ (row'[j].status \notin {"none", "succeeded"} /\ gateway[j].state # "none")
    BY <1>3, <1>7
  <2> QED BY <1>1, <1>6, <2>1, <2>2, CancelledSound
<1>9. \A p \in Payers : PayerSound(p)'
  BY <1>1, <1>3, <1>6, <1>7, PayersKept
<1>10. GatewaysType'
  BY <1>1, <1>2, <1>6, <1>7 DEF GatewaysType, PaymentRows, EventRows
<1>11. \A j \in Intents : <<"late", j>> \in flags' => <<"late", j>> \in flags
  BY <1>4
<1> QED BY <1>1, <1>4, <1>6, <1>8, <1>9, <1>10, <1>11, NoEventStep

\* An order is cancelled, or kept because a payment may have been made.
LEMMA CancelOrderInv == ASSUME GatewaysInv, CancelOrder PROVE GatewaysInv'
<1>1. /\ UNCHANGED <<planned, heard, paidBy, sent, claimed, deferred, reads, vouched>> /\ orderStatus = "pending"
      /\ gateway' = [i \in Intents |-> IF i \in Asked THEN Canceled(i)[i] ELSE gateway[i]]
      /\ orderStatus' \in {"pending", "cancelled"}
      /\ (row' = row \/ row' = [i \in Intents |-> IF row[i].status = "pending" THEN [row[i] EXCEPT !.status = "failed"] ELSE row[i]])
      /\ (flags' = flags \/ flags' = flags \cup {<<"cancel_payment_succeeded", None>>} \/ flags' = flags \cup {<<"cancel_uncertain", None>>})
  BY DEF CancelOrder
<1>2. GatewaysType /\ gateway \in [Intents -> IntentRows] /\ row \in [Intents -> PaymentRows]
  BY DEF GatewaysInv, GatewaysType
<1>3. gateway' = [j \in Intents |-> gateway'[j]]
      /\ \A j \in Intents : gateway'[j] = gateway[j] \/ (gateway[j].state = "open" /\ gateway'[j] = [gateway[j] EXCEPT !.state = "canceled"])
  BY <1>1, <1>2 DEF Canceled, StripeCancels, DemoCancels
<1>4. /\ GatewayKept /\ gateway' \in [Intents -> IntentRows']
      /\ \A j \in Intents : gateway'[j].cfg = gateway[j].cfg /\ gateway'[j].received = gateway[j].received
           /\ (gateway'[j] = gateway[j] \/ (gateway[j].state = "open" /\ gateway'[j].state = "canceled"))
  BY <1>1, <1>3, CancelOnly
<1>5. ASSUME NEW j \in Intents
      PROVE  row'[j] \in PaymentRows /\ (row'[j] = row[j] \/ (row[j].status = "pending" /\ row'[j].status = "failed"))
  <2>1. row[j] \in PaymentRows
    BY <1>2
  <2> QED BY <1>1, <2>1 DEF PaymentRows
<1>6. row' \in [Intents -> PaymentRows]
  BY <1>1, <1>2, <1>5
<1>7. ASSUME NEW j \in Intents PROVE IntentSound(j)'
  <2>1. IntentSound(j)
    BY DEF GatewaysInv
  <2>2. row'[j] = row[j] \/ (row'[j].status \notin {"none", "succeeded"} /\ gateway[j].state # "none")
    BY <1>5, <2>1 DEF IntentSound
  <2> QED BY <1>1, <1>4, <2>1, <2>2, CancelledSound
<1>8. \A p \in Payers : PayerSound(p)'
  BY <1>1, <1>4, <1>5, PayersKept
<1>9. GatewaysType'
  BY <1>1, <1>2, <1>4, <1>6 DEF GatewaysType, PaymentRows, EventRows
<1>10. \A j \in Intents : <<"late", j>> \in flags' => <<"late", j>> \in flags
  BY <1>1
<1> QED BY <1>1, <1>4, <1>7, <1>8, <1>9, <1>10, NoEventStep

\* A demo payer reads a payment.
LEMMA DemoReadInv == ASSUME GatewaysInv, NEW p \in Payers, NEW i \in Intents, DemoRead(p, i) PROVE GatewaysInv'
<1>1. UNCHANGED <<gateway, planned, heard, row, orderStatus, paidBy, sent, claimed, deferred, flags, vouched>>
      /\ reads' = [reads EXCEPT ![p] = [i |-> i, status |-> row[i].status]] /\ row[i].status # "none" /\ Demo(i)
  BY DEF DemoRead, Reusable, Rows, Demo
<1>2. GatewaysType /\ DOMAIN reads = Payers
  BY DEF GatewaysInv, GatewaysType
<1>3. GatewayKept
  BY <1>1, GatewayStill
<1>4. ASSUME NEW x \in Payers PROVE PayerSound(x)'
  <2>1. CASE x = p
    <3>1. reads'[x].i = i
      BY <1>1, <1>2, <2>1
    <3> QED BY <1>1, <3>1 DEF PayerSound, Demo
  <2>2. CASE x # p
    <3>1. PayerSound(x) /\ reads'[x] = reads[x]
      BY <1>1, <1>2, <2>2 DEF GatewaysInv
    <3> QED BY <1>1, <3>1 DEF PayerSound, Demo
  <2> QED BY <2>1, <2>2
<1>5. \A j \in Intents : IntentSound(j)'
  BY <1>1, IntentKept DEF GatewaysInv
<1>6. GatewaysType'
  BY <1>1, <1>2 DEF GatewaysType, PaymentRows, EventRows, IntentRows
<1> QED BY <1>1, <1>3, <1>4, <1>5, <1>6, NoEventStep

\* A deferred event is given up.
LEMMA ExpireDeferredInv == ASSUME GatewaysInv, NEW e \in deferred, ExpireDeferredEvent(e) PROVE GatewaysInv'
<1>1. UNCHANGED <<gateway, planned, heard, row, orderStatus, paidBy, sent, claimed, flags, reads, vouched>> /\ deferred' \subseteq deferred
  BY DEF ExpireDeferredEvent
<1>2. GatewayKept
  BY <1>1, GatewayStill
<1>3. \A p \in Payers : PayerSound(p)'
  BY <1>1, <1>2, PayersKept
<1>4. \A j \in Intents : IntentSound(j)'
  BY <1>1, IntentKept DEF GatewaysInv
<1>5. GatewaysType'
  BY <1>1 DEF GatewaysInv, GatewaysType, PaymentRows, EventRows, IntentRows
<1> QED BY <1>1, <1>2, <1>3, <1>4, <1>5, NoEventStep

\* A whole payment is given back, or its refund left uncertain.
LEMMA ExecuteRefundInv == ASSUME GatewaysInv, NEW i \in Intents, ExecuteRefund(i) PROVE GatewaysInv'
<1>1. UNCHANGED <<planned, heard, orderStatus, paidBy, sent, claimed, deferred, reads, vouched>> /\ row[i].status = "succeeded"
  BY DEF ExecuteRefund
<1>2. GatewaysType /\ gateway \in [Intents -> IntentRows] /\ row \in [Intents -> PaymentRows] /\ IntentSound(i)
  BY DEF GatewaysInv, GatewaysType
<1>3. gateway[i].state \in Captured /\ gateway[i].state # "none" /\ gateway[i].cfg \in Configs
  BY <1>1, <1>2 DEF IntentSound, Captured
<1>4. CASE StripeRefund(i) \/ RazorpayRefund(i) \/ DemoRefund(i)
  <2>1. gateway' = [gateway EXCEPT ![i].state = "refunded"] /\ row' = [row EXCEPT ![i].status = "refunded"] /\ flags' = flags
    BY <1>4 DEF ExecuteRefund
  <2>2. gateway[i] \in IntentRows /\ row[i] \in PaymentRows
    BY <1>2
  <2>3. gateway' \in [Intents -> IntentRows] /\ gateway'[i].state = "refunded" /\ gateway'[i].cfg = gateway[i].cfg
        /\ gateway'[i].received = gateway[i].received /\ \A j \in Intents : j # i => gateway'[j] = gateway[j]
    BY <1>2, <2>1, <2>2 DEF IntentRows, Captured
  <2>4. row' \in [Intents -> PaymentRows] /\ row'[i].status = "refunded" /\ \A j \in Intents : j # i => row'[j] = row[j]
    BY <1>2, <2>1, <2>2 DEF PaymentRows, Captured
  <2>5. GatewayKept
    BY <1>3, <2>3 DEF GatewayKept, Captured
  <2>6. \A p \in Payers : PayerSound(p)'
    BY <1>1, <2>4, <2>5, PayersKept
  <2>7. ASSUME NEW j \in Intents PROVE IntentSound(j)'
    <3>1. CASE j = i
      BY <1>3, <2>3, <2>4, <3>1 DEF IntentSound
    <3>2. CASE j # i
      BY <1>1, <2>3, <2>4, <3>2, IntentKept DEF GatewaysInv
    <3> QED BY <3>1, <3>2
  <2>8. GatewaysType'
    BY <1>1, <1>2, <2>3, <2>4 DEF GatewaysType, PaymentRows, EventRows, IntentRows
  <2> QED BY <1>1, <2>1, <2>5, <2>6, <2>7, <2>8, NoEventStep
<1>5. CASE ~(StripeRefund(i) \/ RazorpayRefund(i) \/ DemoRefund(i))
  <2>1. gateway' = gateway /\ row' = row /\ flags' = flags \cup {<<"refund_uncertain", i>>}
    BY <1>5 DEF ExecuteRefund
  <2>2. GatewayKept
    BY <2>1, GatewayStill
  <2>3. \A p \in Payers : PayerSound(p)'
    BY <1>1, <2>1, <2>2, PayersKept
  <2>4. \A j \in Intents : IntentSound(j)'
    BY <1>1, <2>1, IntentKept DEF GatewaysInv
  <2>5. GatewaysType'
    BY <1>1, <1>2, <2>1 DEF GatewaysType, PaymentRows, EventRows, IntentRows
  <2>6. (\A x : x \in flags => x \in flags') /\ \A j \in Intents : <<"late", j>> \in flags' => <<"late", j>> \in flags
    BY <2>1
  <2> QED BY <1>1, <2>2, <2>3, <2>4, <2>5, <2>6, NoEventStep
<1> QED BY <1>4, <1>5

\* A gateway tells of something that it has not told before.
LEMMA SendStep ==
    ASSUME GatewaysInv, NEW i \in Intents, NEW kind \in {"succeeded", "failed", "refund"}, NEW amount \in {"full", "part", None},
           UNCHANGED <<planned, heard, row, orderStatus, paidBy, claimed, deferred, flags, reads, vouched>>,
           sent' = Told(kind, i, amount), GatewayKept, gateway' \in [Intents -> IntentRows],
           gateway[i].state # "none", ~Demo(i), \A j \in Intents : IntentSound(j)',
           kind = "succeeded" => gateway'[i].state \in Captured /\ gateway'[i].received = amount /\ paidBy # i,
           kind = "refund" => gateway'[i].state = "refunded",
           kind # "failed" => \A f \in sent : f.kind = kind => f.i # i
    PROVE  GatewaysInv'
<1>1. PICK e : e = IF Refs(i) THEN RazorpayEvent(kind, i, amount) ELSE StripeEvent(kind, i, amount)
  OBVIOUS
<1>2. sent' = sent \cup {e}
  BY <1>1 DEF Told
<1>3. IsFiniteSet(sent) /\ Cardinality(sent) \in Nat /\ IsFiniteSet(sent')
  BY <1>2, FS_CardinalityType, FS_AddElement DEF GatewaysInv, GatewaysType
<1>4. e \in EventRows /\ e.kind = kind /\ e.i = i /\ e.amount = amount /\ e.reference = IF Refs(i) THEN i ELSE None
  BY <1>1, <1>3 DEF RazorpayEvent, StripeEvent, Event, EventRows
<1>5. gateway'[i].cfg = gateway[i].cfg /\ gateway'[i].state # "none"
  BY DEF GatewayKept
<1>6. EventSound(e)'
  BY <1>4, <1>5 DEF EventSound, Demo, Refs
<1>7. ASSUME NEW f \in sent PROVE EventSound(f)' /\ gateway'[f.i].cfg = gateway[f.i].cfg /\ (Claimed(f) <=> Claimed(f)') /\ RefundTold(f)'
  <2>1. EventSound(f)' /\ gateway'[f.i].cfg = gateway[f.i].cfg
    BY EventsKept
  <2>2. Claimed(f) <=> Claimed(f)'
    BY <2>1 DEF Claimed
  <2> QED BY <2>1, <2>2 DEF GatewaysInv, RefundTold
<1>8. kind # "failed" => ~Claimed(e)'
  <2> SUFFICES ASSUME kind # "failed", Claimed(e)' PROVE FALSE
    OBVIOUS
  <2>1. PICK f \in sent : <<Provider[gateway'[e.i].cfg], e>> = <<Provider[gateway[f.i].cfg], f>>
    BY DEF Claimed, GatewaysInv
  <2>2. e = f
    BY <2>1
  <2> QED BY <1>4, <2>2
<1>9. ASSUME NEW f \in sent' PROVE EventSound(f)' /\ RefundTold(f)'
  BY <1>2, <1>4, <1>6, <1>7, <1>8 DEF RefundTold
<1>10. \A f, g \in sent' : f.kind = "succeeded" /\ g.kind = "succeeded" /\ f.i = g.i => f = g
  BY <1>2, <1>4 DEF GatewaysInv
<1>11. \A c \in claimed' : \E f \in sent' : c = <<Provider[gateway'[f.i].cfg], f>>
  BY <1>2, <1>7 DEF GatewaysInv
<1>12. ASSUME NEW f \in deferred' PROVE DeferredSound(f)'
  BY <1>2, <1>7 DEF GatewaysInv, DeferredSound, Kept
<1>13. \A p \in Payers : PayerSound(p)'
  BY PayersKept
<1>14. ASSUME NEW j \in Intents PROVE PaidOnce(j)'
  <2> SUFFICES ASSUME paidBy = j PROVE PaidOnce(j)'
    BY DEF PaidOnce
  <2>1. PaidOnce(j) /\ gateway[j].state # "none"
    BY DEF GatewaysInv, PaidOnce
  <2>2. gateway'[j].cfg = gateway[j].cfg /\ gateway'[j].state # "none"
    BY <2>1 DEF GatewayKept
  <2>3. ~Demo(j)' => ~Demo(j) /\ gateway[j].state \in Captured /\ gateway'[j].state \in Captured
    BY <2>1, <2>2 DEF PaidOnce, GatewayKept, Demo
  <2>4. ASSUME ~Demo(j), NEW f \in sent', f.kind = "succeeded", f.i = j PROVE Claimed(f)'
    BY <1>2, <1>4, <1>7, <2>1, <2>4 DEF PaidOnce
  <2> QED BY <2>1, <2>2, <2>3, <2>4 DEF PaidOnce
<1>15. \A j \in Intents : <<"late", j>> \in flags' => orderStatus' # "pending"
  BY DEF GatewaysInv
<1>16. GatewaysType'
  BY <1>2, <1>3, <1>4 DEF GatewaysInv, GatewaysType, PaymentRows, EventRows, IntentRows
<1> QED BY <1>9, <1>10, <1>11, <1>12, <1>13, <1>14, <1>15, <1>16 DEF GatewaysInv

\* The customer pays, all or part.
LEMMA CaptureInv == ASSUME GatewaysInv, NEW i \in Intents, NEW amount \in {"full", "part"}, Capture(i, amount) PROVE GatewaysInv'
<1>1. /\ UNCHANGED <<planned, heard, row, orderStatus, paidBy, claimed, deferred, flags, reads, vouched>>
      /\ gateway[i].state = "open" /\ ~Demo(i) /\ sent' = Told("succeeded", i, amount)
      /\ gateway' = [gateway EXCEPT ![i].state = "succeeded", ![i].received = amount]
  BY DEF Capture, PaysAtGateway, Demo
<1>2. gateway \in [Intents -> IntentRows] /\ gateway[i] \in IntentRows /\ IntentSound(i) /\ PaidOnce(i)
  BY DEF GatewaysInv, GatewaysType
<1>3. /\ gateway' \in [Intents -> IntentRows] /\ gateway'[i].state = "succeeded" /\ gateway'[i].cfg = gateway[i].cfg
      /\ gateway'[i].received = amount /\ \A j \in Intents : j # i => gateway'[j] = gateway[j]
  BY <1>1, <1>2 DEF IntentRows, Captured
<1>4. GatewayKept
  BY <1>1, <1>3 DEF GatewayKept, Captured
<1>5. ASSUME NEW j \in Intents PROVE IntentSound(j)'
  <2>1. CASE j = i
    BY <1>1, <1>2, <1>3, <2>1 DEF IntentSound, Captured
  <2>2. CASE j # i
    BY <1>1, <1>3, <2>2, IntentKept DEF GatewaysInv
  <2> QED BY <2>1, <2>2
<1>6. paidBy # i
  BY <1>1, <1>2 DEF PaidOnce, Captured
<1>7. \A f \in sent : f.kind = "succeeded" => f.i # i
  BY <1>1 DEF GatewaysInv, EventSound, Captured
<1>8. gateway'[i].state \in Captured /\ gateway[i].state # "none"
  BY <1>1, <1>3 DEF Captured
<1> QED BY <1>1, <1>3, <1>4, <1>5, <1>6, <1>7, <1>8, SendStep

\* The customer is declined.
LEMMA DeclineInv == ASSUME GatewaysInv, NEW i \in Intents, Decline(i) PROVE GatewaysInv'
<1>1. /\ UNCHANGED <<gateway, planned, heard, row, orderStatus, paidBy, claimed, deferred, flags, reads, vouched>>
      /\ gateway[i].state = "open" /\ ~Demo(i) /\ sent' = Told("failed", i, None)
  BY DEF Decline, PaysAtGateway, Demo
<1>2. GatewayKept
  BY <1>1, GatewayStill
<1>3. \A j \in Intents : IntentSound(j)'
  BY <1>1, IntentKept DEF GatewaysInv
<1>4. gateway' \in [Intents -> IntentRows] /\ gateway[i].state # "none"
  BY <1>1 DEF GatewaysInv, GatewaysType
<1> QED BY <1>1, <1>2, <1>3, <1>4, SendStep

\* Money is given back in the gateway's own dashboard.
LEMMA RefundAtGatewayInv == ASSUME GatewaysInv, NEW i \in Intents, RefundAtGateway(i) PROVE GatewaysInv'
<1>1. /\ UNCHANGED <<planned, heard, row, orderStatus, paidBy, claimed, deferred, flags, reads, vouched>>
      /\ gateway[i].state = "succeeded" /\ ~Demo(i) /\ sent' = Told("refund", i, gateway[i].received)
      /\ gateway' = [gateway EXCEPT ![i].state = "refunded"]
  BY DEF RefundAtGateway, Demo
<1>2. gateway \in [Intents -> IntentRows] /\ gateway[i] \in IntentRows /\ IntentSound(i)
  BY DEF GatewaysInv, GatewaysType
<1>3. /\ gateway' \in [Intents -> IntentRows] /\ gateway'[i].state = "refunded" /\ gateway'[i].cfg = gateway[i].cfg
      /\ gateway'[i].received = gateway[i].received /\ \A j \in Intents : j # i => gateway'[j] = gateway[j]
  BY <1>1, <1>2 DEF IntentRows, Captured
<1>4. GatewayKept
  BY <1>1, <1>3 DEF GatewayKept, Captured
<1>5. ASSUME NEW j \in Intents PROVE IntentSound(j)'
  <2>1. CASE j = i
    BY <1>1, <1>2, <1>3, <2>1 DEF IntentSound, Captured, Refs
  <2>2. CASE j # i
    BY <1>1, <1>3, <2>2, IntentKept DEF GatewaysInv
  <2> QED BY <2>1, <2>2
<1>6. \A f \in sent : f.kind = "refund" => f.i # i
  BY <1>1 DEF GatewaysInv, EventSound
<1>7. PICK amount : amount = gateway[i].received
  OBVIOUS
<1>8. amount \in {"full", "part", None} /\ gateway[i].state # "none" /\ sent' = Told("refund", i, amount)
  BY <1>1, <1>2, <1>7 DEF IntentRows
<1> QED BY <1>1, <1>3, <1>4, <1>5, <1>6, <1>8, SendStep

RefundFlag(i) == <<"external_refund", i>> \in flags \/ <<"unknown_refund", i>> \in flags

\* What handling an event leaves of the records and the order: refunds stay on record, and only a credited payment decides the order
\* or comes late.
ApplyLeaves(e) ==
    /\ \A i \in Intents : RefundFlag(i) => RefundFlag(i)'
    /\ e.kind = "refund" => RefundFlag(e.i)'
    /\ \A i \in Intents : <<"late", i>> \in flags' =>
          <<"late", i>> \in flags \/ (i = e.i /\ e.kind = "succeeded" /\ row[i] # NoRow /\ orderStatus # "pending")
    /\ orderStatus' \in {orderStatus, "paid"}
    /\ \/ paidBy' = paidBy
       \/ paidBy' = e.i /\ e.kind = "succeeded" /\ row[e.i] # NoRow /\ orderStatus = "pending" /\ orderStatus' = "paid" /\ flags' \subseteq flags

\* The handlers do so, whichever records a reprocessed event closes first.
LEMMA ApplyLeavesRecords ==
    ASSUME NEW e \in EventRows, NEW c, NEW seen, NEW open, Apply(e, c, seen, open), open \subseteq flags,
           \A x \in flags : x \in open \/ x \in Closes(e)
    PROVE  ApplyLeaves(e)
<1>1. e.i \in Intents
  BY DEF EventRows
<1>2. CASE e.kind = "succeeded"
  <2>1. HandlePaymentSucceeded(e, c, open) /\ Closes(e) = {<<"unmatched", e.i>>}
    BY <1>2 DEF Apply, Closes
  <2>2. \A i \in Intents : RefundFlag(i) => RefundFlag(i)'
    BY <2>1 DEF HandlePaymentSucceeded, RefundFlag
  <2>3. \A i \in Intents : <<"late", i>> \in flags' =>
          <<"late", i>> \in flags \/ (i = e.i /\ e.kind = "succeeded" /\ row[i] # NoRow /\ orderStatus # "pending")
    BY <1>2, <2>1 DEF HandlePaymentSucceeded
  <2>4. /\ orderStatus' \in {orderStatus, "paid"}
        /\ \/ paidBy' = paidBy
           \/ paidBy' = e.i /\ e.kind = "succeeded" /\ row[e.i] # NoRow /\ orderStatus = "pending" /\ orderStatus' = "paid" /\ flags' \subseteq flags
    BY <1>2, <2>1 DEF HandlePaymentSucceeded
  <2> QED BY <1>2, <2>2, <2>3, <2>4 DEF ApplyLeaves
<1>3. CASE e.kind = "failed"
  <2>1. HandlePaymentFailed(e, seen, open) /\ Closes(e) = {<<"unmatched", e.i>>}
    BY <1>3 DEF Apply, Closes
  <2> QED BY <1>3, <2>1 DEF HandlePaymentFailed, RefundFlag, ApplyLeaves
<1>4. CASE e.kind = "refund"
  <2>1. HandleRefundEvent(e, open) /\ Closes(e) = {<<"unmatched", e.i>>, <<"unknown_refund", e.i>>}
    BY <1>4 DEF Apply, Closes
  <2>2. RefundFlag(e.i)'
    BY <2>1 DEF HandleRefundEvent, RefundFlag
  <2>3. \A i \in Intents : RefundFlag(i) => RefundFlag(i)'
    <3> SUFFICES ASSUME NEW i \in Intents, RefundFlag(i), i # e.i PROVE RefundFlag(i)'
      BY <2>2
    <3> QED BY <2>1 DEF HandleRefundEvent, RefundFlag
  <2>4. \A i \in Intents : <<"late", i>> \in flags' => <<"late", i>> \in flags
    BY <2>1 DEF HandleRefundEvent
  <2>5. orderStatus' = orderStatus /\ paidBy' = paidBy
    BY <2>1 DEF HandleRefundEvent
  <2> QED BY <2>2, <2>3, <2>4, <2>5 DEF ApplyLeaves
<1> QED BY <1>2, <1>3, <1>4 DEF EventRows

\* What handling an event leaves of the payments: they stay, and one that is credited was captured in full.
LEMMA ApplyRows ==
    ASSUME GatewaysInv, NEW e \in EventRows, NEW c, NEW seen, NEW open, Apply(e, c, seen, open), UNCHANGED heard,
           gateway[e.i].state # "none", gateway'[e.i].state # "none", gateway'[e.i].cfg = gateway[e.i].cfg,
           \A i \in Intents : i # e.i => gateway'[i] = gateway[i],
           gateway[e.i].state \in Captured /\ gateway[e.i].received = "full" => gateway'[e.i].state \in Captured /\ gateway'[e.i].received = "full",
           e.kind = "succeeded" /\ e.amount = "full" => gateway'[e.i].state \in Captured /\ gateway'[e.i].received = "full",
           Refs(e.i) /\ c # None => e.reference # None
    PROVE  /\ row' \in [Intents -> PaymentRows] /\ vouched' \in [Intents -> Configs \cup {None, Recovered}]
           /\ \A i \in Intents : row[i].status # "none" => row'[i].status # "none"
           /\ \A i \in Intents : IntentSound(i)'
<1>0. e.i \in Intents /\ e.reference \in Intents \cup {None} /\ row \in [Intents -> PaymentRows] /\ vouched \in [Intents -> Configs \cup {None, Recovered}]
      /\ row[e.i] \in PaymentRows /\ IntentSound(e.i)
  BY DEF EventRows, GatewaysInv, GatewaysType
<1>1. PICK i : i = e.i
  OBVIOUS
<1>2. ASSUME NEW x \in PaymentRows, NEW v \in Configs \cup {None, Recovered}, row' = [row EXCEPT ![i] = x], vouched' = [vouched EXCEPT ![i] = v],
             row[i].status # "none" => x.status # "none", x.status = "none" => x = NoRow, x.status # "none" => row[i].status # "none",
             x.status = "succeeded" =>
                 /\ gateway'[i].state \in Captured /\ gateway'[i].received = "full" /\ v \in {gateway[i].cfg, Recovered}
                 /\ Refs(i) /\ v # Recovered => x.reference # None
      PROVE  /\ row' \in [Intents -> PaymentRows] /\ vouched' \in [Intents -> Configs \cup {None, Recovered}]
             /\ \A j \in Intents : row[j].status # "none" => row'[j].status # "none"
             /\ \A j \in Intents : IntentSound(j)'
  <2>1. row' \in [Intents -> PaymentRows] /\ vouched' \in [Intents -> Configs \cup {None, Recovered}] /\ row'[i] = x /\ vouched'[i] = v
        /\ \A j \in Intents : j # i => row'[j] = row[j] /\ vouched'[j] = vouched[j]
    BY <1>0, <1>1, <1>2
  <2>2. ASSUME NEW j \in Intents PROVE IntentSound(j)'
    <3>1. CASE j = i
      <4>1. gateway'[i].cfg \in Configs
        BY <1>0, <1>1 DEF IntentSound
      <4>2. Refs(i)' <=> Refs(i)
        BY <1>1 DEF Refs
      <4> QED BY <1>1, <1>2, <2>1, <3>1, <4>1, <4>2 DEF IntentSound
    <3>2. CASE j # i
      BY <1>1, <2>1, <3>2, IntentKept DEF GatewaysInv
    <3> QED BY <3>1, <3>2
  <2> QED BY <1>1, <1>2, <2>1, <2>2
<1>3. CASE row' = row /\ vouched' = vouched
  <2>1. row' = [row EXCEPT ![i] = row[i]] /\ vouched' = [vouched EXCEPT ![i] = vouched[i]]
    BY <1>0, <1>1, <1>3
  <2>2. row[i].status = "succeeded" =>
                 /\ gateway'[i].state \in Captured /\ gateway'[i].received = "full" /\ vouched[i] \in {gateway[i].cfg, Recovered}
                 /\ Refs(i) /\ vouched[i] # Recovered => row[i].reference # None
    BY <1>0, <1>1 DEF IntentSound
  <2>3. row[i].status = "none" => row[i] = NoRow
    BY <1>0, <1>1 DEF IntentSound
  <2>4. PICK x \in PaymentRows : x = row[i]
    BY <1>0, <1>1
  <2>5. PICK v \in Configs \cup {None, Recovered} : v = vouched[i]
    BY <1>0, <1>1
  <2> QED BY <1>2, <2>1, <2>2, <2>3, <2>4, <2>5
<1>4. CASE e.kind = "succeeded"
  <2>1. HandlePaymentSucceeded(e, c, open)
    BY <1>4 DEF Apply
  <2>2. CASE row[e.i] = NoRow \/ ~Matches(e, c)
    <3>1. row' = row /\ vouched' = vouched
      BY <2>1, <2>2 DEF HandlePaymentSucceeded
    <3> QED BY <1>3, <3>1
  <2>3. CASE row[e.i] # NoRow /\ Matches(e, c)
    <3>1. PICK x : x = [status |-> "succeeded", reference |-> LearnedReference(e)]
      OBVIOUS
    <3>2. PICK v : v = IF c = None THEN Recovered ELSE c
      OBVIOUS
    <3>3. row' = [row EXCEPT ![i] = x] /\ vouched' = [vouched EXCEPT ![i] = v]
      BY <1>1, <2>1, <2>3, <3>1, <3>2 DEF HandlePaymentSucceeded
    <3>4. row[i].reference \in Intents \cup {None}
      BY <1>0, <1>1 DEF PaymentRows
    <3>5. x \in PaymentRows /\ x.status = "succeeded" /\ x.reference = IF row[i].reference = None THEN e.reference ELSE row[i].reference
      BY <1>0, <1>1, <3>1, <3>4 DEF PaymentRows, LearnedReference, Captured
    <3>6. v \in {gateway[i].cfg, Recovered} /\ e.amount = "full" /\ (v # Recovered => c # None)
      BY <1>1, <2>3, <3>2 DEF Matches
    <3>7. row[i].status # "none"
      BY <1>0, <1>1, <2>3 DEF IntentSound
    <3>8. Refs(i) /\ v # Recovered => x.reference # None
      BY <1>1, <3>5, <3>6
    <3>9. v \in Configs \cup {None, Recovered}
      BY <1>0, <1>1, <3>6 DEF IntentSound
    <3> QED BY <1>1, <1>2, <1>4, <3>3, <3>5, <3>6, <3>7, <3>8, <3>9
  <2> QED BY <2>2, <2>3
<1>5. CASE e.kind = "failed"
  <2>1. HandlePaymentFailed(e, seen, open)
    BY <1>5 DEF Apply
  <2>2. CASE row[i] = NoRow \/ seen = "succeeded"
    <3>1. row' = [row EXCEPT ![i].status = @] /\ vouched' = vouched
      BY <1>1, <2>1, <2>2 DEF HandlePaymentFailed
    <3>2. row' = row
      BY <1>0, <1>1, <3>1 DEF PaymentRows
    <3> QED BY <1>3, <3>1, <3>2
  <2>3. CASE ~(row[i] = NoRow \/ seen = "succeeded")
    <3>1. row' = [row EXCEPT ![i].status = "failed"] /\ vouched' = vouched
      BY <1>1, <2>1, <2>3 DEF HandlePaymentFailed
    <3>2. PICK x : x = [row[i] EXCEPT !.status = "failed"]
      OBVIOUS
    <3>3. PICK v \in Configs \cup {None, Recovered} : v = vouched[i]
      BY <1>0, <1>1
    <3>4. row' = [row EXCEPT ![i] = x] /\ vouched' = [vouched EXCEPT ![i] = v]
      BY <1>0, <1>1, <3>1, <3>2, <3>3
    <3>5. x \in PaymentRows /\ x.status = "failed"
      BY <1>0, <1>1, <3>2 DEF PaymentRows
    <3>6. row[i].status # "none"
      BY <1>0, <1>1, <2>3 DEF IntentSound
    <3> QED BY <1>2, <3>4, <3>5, <3>6
  <2> QED BY <2>2, <2>3
<1>6. CASE e.kind = "refund"
  <2>1. HandleRefundEvent(e, open)
    BY <1>6 DEF Apply
  <2>2. CASE ~FoundForRefund(e)
    <3>1. row' = row /\ vouched' = vouched
      BY <2>1, <2>2 DEF HandleRefundEvent
    <3> QED BY <1>3, <3>1
  <2>3. CASE FoundForRefund(e)
    <3>1. row' = [row EXCEPT ![i].status = IF e.amount = "full" THEN "refunded" ELSE @] /\ vouched' = vouched
      BY <1>1, <2>1, <2>3 DEF HandleRefundEvent
    <3>2. row[i].status # "none"
      BY <1>0, <1>1, <2>3 DEF IntentSound, FoundForRefund, NoRow
    <3>3. CASE e.amount # "full"
      <4>1. row' = row
        BY <1>0, <1>1, <3>1, <3>3 DEF PaymentRows
      <4> QED BY <1>3, <3>1, <4>1
    <3>4. CASE e.amount = "full"
      <4>1. PICK x : x = [row[i] EXCEPT !.status = "refunded"]
        OBVIOUS
      <4>2. PICK v \in Configs \cup {None, Recovered} : v = vouched[i]
        BY <1>0, <1>1
      <4>3. row' = [row EXCEPT ![i] = x] /\ vouched' = [vouched EXCEPT ![i] = v]
        BY <1>0, <1>1, <3>1, <3>4, <4>1, <4>2
      <4>4. x \in PaymentRows /\ x.status = "refunded"
        BY <1>0, <1>1, <4>1 DEF PaymentRows, Captured
      <4> QED BY <1>2, <3>2, <4>3, <4>4
    <3> QED BY <3>3, <3>4
  <2> QED BY <2>2, <2>3
<1> QED BY <1>4, <1>5, <1>6 DEF EventRows

\* An event that is handled keeps the invariant, if it is handled once and what it credits cannot be told again.
LEMMA TakenStep ==
    ASSUME GatewaysInv, GatewaysType', GatewayKept, UNCHANGED sent, NEW e, e.i \in Intents, ApplyLeaves(e),
           \A p \in Payers : PayerSound(p)', \A i \in Intents : IntentSound(i)',
           claimed' = claimed \/ (e \in sent /\ claimed' = claimed \cup {<<Provider[gateway[e.i].cfg], e>>}),
           \A f \in deferred' : f \in deferred \/ (e \in sent /\ f = Kept(e) /\ f.i = e.i /\ f.kind = e.kind /\ e.kind # "failed" /\ ~Claimed(e) /\ Claimed(e)'),
           e.kind = "succeeded" /\ row[e.i] # NoRow => gateway[e.i].state # "none",
           e.kind = "succeeded" /\ row[e.i] # NoRow /\ ~Demo(e.i) =>
               /\ paidBy # e.i /\ gateway'[e.i].state \in Captured
               /\ \A f \in sent : f.kind = "succeeded" /\ f.i = e.i => Claimed(f)'
               /\ \A f \in deferred' : f.kind = "succeeded" => f.i # e.i
    PROVE  GatewaysInv'
<1>1. ASSUME NEW f \in sent PROVE EventSound(f)' /\ f.i \in Intents /\ gateway'[f.i].cfg = gateway[f.i].cfg /\ (Claimed(f) => Claimed(f)')
  <2>1. EventSound(f)' /\ gateway'[f.i].cfg = gateway[f.i].cfg /\ f.i \in Intents
    BY EventsKept
  <2>2. Claimed(f) => Claimed(f)'
    BY <2>1 DEF Claimed
  <2> QED BY <2>1, <2>2
<1>2. ASSUME NEW f \in sent PROVE RefundTold(f)'
  <2> SUFFICES ASSUME f.kind = "refund", Claimed(f)' PROVE RefundFlag(f.i)'
    BY DEF RefundTold, RefundFlag
  <2>1. Claimed(f) \/ f = e
    BY <1>1 DEF Claimed
  <2>2. CASE f = e
    BY <2>2 DEF ApplyLeaves
  <2>3. CASE Claimed(f)
    <3>1. RefundFlag(f.i)
      BY <2>3 DEF GatewaysInv, RefundTold, RefundFlag
    <3> QED BY <1>1, <3>1 DEF ApplyLeaves
  <2> QED BY <2>1, <2>2, <2>3
<1>3. ASSUME NEW c \in claimed' PROVE \E f \in sent' : c = <<Provider[gateway'[f.i].cfg], f>>
  <2>1. \E f \in sent : c = <<Provider[gateway[f.i].cfg], f>>
    BY <1>3 DEF GatewaysInv
  <2> QED BY <1>1, <2>1
<1>4. ASSUME NEW f \in deferred' PROVE DeferredSound(f)'
  <2>1. CASE f \in deferred
    <3>1. PICK g \in sent : f = Kept(g) /\ Claimed(g) /\ f.kind # "failed"
      BY <2>1 DEF GatewaysInv, DeferredSound
    <3>2. Claimed(g)'
      BY <1>1, <3>1
    <3> QED BY <3>1, <3>2 DEF DeferredSound, Kept
  <2>2. CASE f \notin deferred
    <3>1. e \in sent' /\ f = Kept(e) /\ f.kind # "failed" /\ Claimed(e)'
      BY <1>4, <2>2
    <3> QED BY <3>1 DEF DeferredSound, Kept
  <2> QED BY <2>1, <2>2
<1>5. ASSUME NEW i \in Intents, paidBy' = i, paidBy = i PROVE PaidOnce(i)'
  <2>1. PaidOnce(i) /\ gateway[i].state # "none"
    BY <1>5 DEF GatewaysInv, PaidOnce
  <2>2. gateway'[i].cfg = gateway[i].cfg /\ gateway'[i].state # "none"
    BY <2>1 DEF GatewayKept
  <2>3. ASSUME ~Demo(i)'
        PROVE  /\ gateway'[i].state \in Captured
               /\ \A f \in sent' : f.kind = "succeeded" /\ f.i = i => Claimed(f)'
               /\ \A f \in deferred' : f.kind = "succeeded" => f.i # i
               /\ <<"late", i>> \notin flags'
    <3>1. ~Demo(i)
      BY <2>2, <2>3 DEF Demo
    <3>2. /\ gateway[i].state \in Captured /\ <<"late", i>> \notin flags
          /\ \A f \in sent : f.kind = "succeeded" /\ f.i = i => Claimed(f)
          /\ \A f \in deferred : f.kind = "succeeded" => f.i # i
      BY <1>5, <2>1, <3>1 DEF PaidOnce
    <3>3. gateway'[i].state \in Captured
      BY <2>1, <3>1, <3>2 DEF GatewayKept
    <3>4. <<"late", i>> \notin flags'
      BY <1>5, <3>1, <3>2 DEF ApplyLeaves
    <3>5. ASSUME NEW f \in deferred', f.kind = "succeeded" PROVE f.i # i
      BY <3>2, <3>5
    <3> QED BY <1>1, <3>2, <3>3, <3>4, <3>5
  <2> QED BY <2>2, <2>3 DEF PaidOnce
<1>6. ASSUME NEW i \in Intents, paidBy' = i, paidBy # i PROVE PaidOnce(i)'
  <2>1. i = e.i /\ e.kind = "succeeded" /\ row[e.i] # NoRow /\ orderStatus = "pending" /\ flags' \subseteq flags
    BY <1>6 DEF ApplyLeaves
  <2>2. gateway'[i].cfg = gateway[i].cfg /\ gateway'[i].state # "none"
    BY <2>1 DEF GatewayKept
  <2>3. <<"late", i>> \notin flags'
    BY <2>1 DEF GatewaysInv
  <2>4. Demo(i)' <=> Demo(i)
    BY <2>2 DEF Demo
  <2> QED BY <2>1, <2>2, <2>3, <2>4 DEF PaidOnce
<1>7. \A i \in Intents : PaidOnce(i)'
  BY <1>5, <1>6 DEF PaidOnce
<1>8. \A i \in Intents : <<"late", i>> \in flags' => orderStatus' # "pending"
  BY DEF ApplyLeaves, GatewaysInv
<1>9. \A f, g \in sent' : f.kind = "succeeded" /\ g.kind = "succeeded" /\ f.i = g.i => f = g
  BY DEF GatewaysInv
<1> QED BY <1>1, <1>2, <1>3, <1>4, <1>7, <1>8, <1>9 DEF GatewaysInv

\* What is kept of an event.
LEMMA KeptRow == ASSUME NEW e \in EventRows PROVE Kept(e) \in EventRows /\ Kept(e).i = e.i /\ Kept(e).kind = e.kind /\ Kept(e).amount = e.amount
  BY DEF Kept, EventRows

\* Handling an event decides the order, or not.
LEMMA ApplyType ==
    ASSUME GatewaysInv, NEW e, e.i \in Intents, ApplyLeaves(e)
    PROVE  orderStatus' \in {"pending", "paid", "cancelled"} /\ paidBy' \in Intents \cup {None}
  BY DEF GatewaysInv, GatewaysType, ApplyLeaves

\* A webhook is verified, claimed and handled.
LEMMA HandleWebhookInv ==
    ASSUME GatewaysInv, NEW e \in sent, NEW c \in Configs, NEW header, HandleWebhook(e, c, header) PROVE GatewaysInv'
<1>1. /\ UNCHANGED <<gateway, planned, heard, sent, reads>> /\ ~Claimed(e)
      /\ claimed' = claimed \cup {<<Provider[gateway[e.i].cfg], e>>}
      /\ Apply(e, c, row[e.i].status, flags) /\ deferred' = IF Defers(e) THEN deferred \cup {Kept(e)} ELSE deferred
  BY DEF HandleWebhook, EventId, Claimed
<1>2. e \in EventRows /\ e.i \in Intents /\ EventSound(e) /\ gateway[e.i].state # "none" /\ IntentSound(e.i)
  BY DEF GatewaysInv, GatewaysType, EventRows, EventSound
<1>3. ApplyLeaves(e)
  BY <1>1, <1>2, ApplyLeavesRecords
<1>4. GatewayKept
  BY <1>1, GatewayStill
<1>5. /\ row' \in [Intents -> PaymentRows] /\ vouched' \in [Intents -> Configs \cup {None, Recovered}]
      /\ \A i \in Intents : row[i].status # "none" => row'[i].status # "none"
      /\ \A i \in Intents : IntentSound(i)'
  <2>1. e.kind = "succeeded" /\ e.amount = "full" => gateway'[e.i].state \in Captured /\ gateway'[e.i].received = "full"
    BY <1>1, <1>2 DEF EventSound
  <2>2. Refs(e.i) /\ c # None => e.reference # None
    BY <1>2, IntentsAssumption DEF EventSound
  <2> QED BY <1>1, <1>2, <2>1, <2>2, ApplyRows
<1>6. \A p \in Payers : PayerSound(p)'
  BY <1>1, <1>4, <1>5, PayersKept
<1>7. GatewaysType'
  <2>1. deferred' \subseteq EventRows
    BY <1>1, <1>2, KeptRow DEF GatewaysInv, GatewaysType
  <2>2. orderStatus' \in {"pending", "paid", "cancelled"} /\ paidBy' \in Intents \cup {None}
    BY <1>2, <1>3, ApplyType
  <2> QED BY <1>1, <1>5, <2>1, <2>2 DEF GatewaysInv, GatewaysType, PaymentRows, EventRows, IntentRows
<1>8. Claimed(e)'
  BY <1>1 DEF Claimed
<1>9. \A f \in deferred' : f \in deferred \/ (e \in sent /\ f = Kept(e) /\ f.i = e.i /\ f.kind = e.kind /\ e.kind # "failed" /\ ~Claimed(e) /\ Claimed(e)')
  BY <1>1, <1>2, <1>8, KeptRow DEF Defers
<1>10. ASSUME e.kind = "succeeded", row[e.i] # NoRow, ~Demo(e.i)
       PROVE  /\ paidBy # e.i /\ gateway'[e.i].state \in Captured
              /\ \A f \in sent : f.kind = "succeeded" /\ f.i = e.i => Claimed(f)'
              /\ \A f \in deferred' : f.kind = "succeeded" => f.i # e.i
  <2>1. paidBy # e.i
    BY <1>1, <1>2, <1>10 DEF GatewaysInv, PaidOnce
  <2>2. gateway'[e.i].state \in Captured
    BY <1>1, <1>2, <1>10 DEF EventSound
  <2>3. \A f \in sent : f.kind = "succeeded" /\ f.i = e.i => f = e
    BY <1>10 DEF GatewaysInv
  <2>4. deferred' = deferred
    BY <1>1, <1>10 DEF Defers
  <2>5. ASSUME NEW f \in deferred, f.kind = "succeeded", f.i = e.i PROVE FALSE
    <3>1. PICK g \in sent : f = Kept(g) /\ Claimed(g)
      BY <2>5 DEF GatewaysInv, DeferredSound
    <3>2. g \in EventRows
      BY DEF GatewaysInv, GatewaysType
    <3>3. g.i = e.i /\ g.kind = "succeeded"
      BY <2>5, <3>1, <3>2, KeptRow
    <3>4. g = e
      BY <2>3, <3>3
    <3> QED BY <1>1, <3>1, <3>4
  <2> QED BY <1>8, <2>1, <2>2, <2>3, <2>4, <2>5
<1> QED BY <1>1, <1>2, <1>3, <1>4, <1>5, <1>6, <1>7, <1>9, <1>10, TakenStep

\* A deferred event is handled once its payment is known.
LEMMA ReprocessInv == ASSUME GatewaysInv, NEW e \in deferred, ReprocessDeferredEvent(e) PROVE GatewaysInv'
<1>1. /\ UNCHANGED <<gateway, planned, heard, sent, claimed, reads>> /\ row[e.i] # NoRow
      /\ Apply(e, None, row[e.i].status, flags \ Closes(e)) /\ deferred' = deferred \ {e}
  BY DEF ReprocessDeferredEvent
<1>2. e \in EventRows /\ e.i \in Intents
  BY DEF GatewaysInv, GatewaysType, EventRows
<1>3. PICK g \in sent : e = Kept(g) /\ Claimed(g)
  BY DEF GatewaysInv, DeferredSound
<1>4. g \in EventRows /\ EventSound(g)
  BY DEF GatewaysInv, GatewaysType
<1>5. e.i = g.i /\ e.kind = g.kind /\ e.amount = g.amount
  BY <1>3, <1>4, KeptRow
<1>6. gateway[e.i].state # "none" /\ (e.kind = "succeeded" => gateway[e.i].state \in Captured /\ gateway[e.i].received = e.amount)
  BY <1>4, <1>5 DEF EventSound
<1>7. PICK open : open = flags \ Closes(e)
  OBVIOUS
<1>8. ApplyLeaves(e)
  <2>1. open \subseteq flags /\ \A x \in flags : x \in open \/ x \in Closes(e)
    BY <1>7
  <2>2. Apply(e, None, row[e.i].status, open)
    BY <1>1, <1>7
  <2> QED BY <1>2, <2>1, <2>2, ApplyLeavesRecords
<1>9. GatewayKept
  BY <1>1, GatewayStill
<1>10. /\ row' \in [Intents -> PaymentRows] /\ vouched' \in [Intents -> Configs \cup {None, Recovered}]
       /\ \A i \in Intents : row[i].status # "none" => row'[i].status # "none"
       /\ \A i \in Intents : IntentSound(i)'
  <2>1. e.kind = "succeeded" /\ e.amount = "full" => gateway'[e.i].state \in Captured /\ gateway'[e.i].received = "full"
    BY <1>1, <1>6
  <2>2. PICK c : c = None
    OBVIOUS
  <2>3. Apply(e, c, row[e.i].status, open) /\ (Refs(e.i) /\ c # None => e.reference # None)
    BY <1>1, <1>7, <2>2
  <2> QED BY <1>1, <1>2, <1>6, <2>1, <2>3, ApplyRows
<1>11. \A p \in Payers : PayerSound(p)'
  BY <1>1, <1>9, <1>10, PayersKept
<1>12. GatewaysType'
  <2>1. deferred' \subseteq EventRows
    BY <1>1 DEF GatewaysInv, GatewaysType
  <2>2. orderStatus' \in {"pending", "paid", "cancelled"} /\ paidBy' \in Intents \cup {None}
    BY <1>2, <1>8, ApplyType
  <2> QED BY <1>1, <1>10, <2>1, <2>2 DEF GatewaysInv, GatewaysType, PaymentRows, EventRows, IntentRows
<1>13. \A f \in deferred' : f \in deferred
  BY <1>1
<1>14. ASSUME e.kind = "succeeded", row[e.i] # NoRow, ~Demo(e.i)
       PROVE  /\ paidBy # e.i /\ gateway'[e.i].state \in Captured
              /\ \A f \in sent : f.kind = "succeeded" /\ f.i = e.i => Claimed(f)'
              /\ \A f \in deferred' : f.kind = "succeeded" => f.i # e.i
  <2>1. paidBy # e.i
    BY <1>2, <1>14 DEF GatewaysInv, PaidOnce
  <2>2. gateway'[e.i].state \in Captured
    BY <1>1, <1>6, <1>14
  <2>3. \A f \in sent : f.kind = "succeeded" /\ f.i = e.i => f = g
    BY <1>5, <1>14 DEF GatewaysInv
  <2>4. Claimed(g)'
    BY <1>1, <1>3 DEF Claimed
  <2>5. ASSUME NEW f \in deferred', f.kind = "succeeded", f.i = e.i PROVE FALSE
    <3>1. PICK h \in sent : f = Kept(h)
      BY <1>13, <2>5 DEF GatewaysInv, DeferredSound
    <3>2. h \in EventRows
      BY DEF GatewaysInv, GatewaysType
    <3>3. h.i = e.i /\ h.kind = "succeeded"
      BY <2>5, <3>1, <3>2, KeptRow
    <3>4. f = e
      BY <1>3, <2>3, <3>1, <3>3
    <3> QED BY <1>1, <2>5, <3>4
  <2> QED BY <2>1, <2>2, <2>3, <2>4, <2>5
<1> QED BY <1>1, <1>2, <1>6, <1>8, <1>9, <1>10, <1>11, <1>12, <1>13, <1>14, TakenStep

\* A demo payer's click pays, or does not, inside the shop's own request.
LEMMA DemoPayInv == ASSUME GatewaysInv, NEW p \in Payers, NEW succeeds \in BOOLEAN, DemoPay(p, succeeds) PROVE GatewaysInv'
<1>1. PICK i : i = reads[p].i
  OBVIOUS
<1>2. UNCHANGED <<planned, heard, sent, claimed>> /\ deferred' = deferred /\ reads' = [reads EXCEPT ![p] = None] /\ reads[p] # None
  BY DEF DemoPay
<1>3. /\ GatewaysType /\ i \in Intents /\ row[i].status # "none" /\ Demo(i) /\ IntentSound(i) /\ gateway[i].state # "none"
      /\ gateway[i] \in IntentRows /\ gateway[i].cfg \in Configs
  <2>1. PayerSound(p) /\ GatewaysType /\ \A j \in Intents : IntentSound(j)
    BY DEF GatewaysInv
  <2>2. i \in Intents /\ row[i].status # "none" /\ Demo(i)
    BY <1>1, <1>2, <2>1 DEF PayerSound
  <2> QED BY <2>1, <2>2 DEF IntentSound, GatewaysType
<1>4. \A q \in Payers : reads'[q] \in {None, reads[q]}
  BY <1>2, <1>3 DEF GatewaysType
<1>5. DOMAIN reads' = Payers
  BY <1>2, <1>3 DEF GatewaysType
<1>6. CASE gateway[i].state = "canceled"
  <2>1. UNCHANGED <<gateway, row, orderStatus, paidBy, flags, vouched>>
    BY <1>1, <1>6 DEF DemoPay
  <2>2. GatewayKept
    BY <2>1, GatewayStill
  <2>3. \A q \in Payers : PayerSound(q)'
    BY <1>4, <2>1, <2>2, PayersKept
  <2>4. \A j \in Intents : IntentSound(j)'
    BY <1>2, <2>1, IntentKept DEF GatewaysInv
  <2>5. GatewaysType'
    BY <1>2, <1>3, <1>5, <2>1 DEF GatewaysType, PaymentRows, EventRows, IntentRows
  <2> QED BY <1>2, <2>1, <2>2, <2>3, <2>4, <2>5, NoEventStep
<1>7. CASE gateway[i].state # "canceled"
  <2>1. PICK e : e = DemoEvent(succeeds, i)
    OBVIOUS
  <2>2. gateway' = RecordOutcome(i, succeeds) /\ Apply(e, gateway[i].cfg, reads[p].status, flags)
    BY <1>1, <1>7, <2>1 DEF DemoPay
  <2>3. Cardinality(sent) \in Nat
    BY <1>3, FS_CardinalityType DEF GatewaysType
  <2>4. e \in EventRows /\ e.i = i /\ e.amount = "full" /\ e.reference = None /\ (e.kind = "succeeded" <=> succeeds)
    BY <1>3, <2>1, <2>3 DEF DemoEvent, Event, EventRows
  <2>5. PICK x : x = IF succeeds \/ gateway[i].state = "succeeded" THEN [gateway[i] EXCEPT !.state = "succeeded", !.received = "full"] ELSE gateway[i]
    OBVIOUS
  <2>6. gateway' = [gateway EXCEPT ![i] = x] /\ gateway \in [Intents -> IntentRows]
    BY <1>3, <2>2, <2>5 DEF RecordOutcome, GatewaysType
  <2>7. /\ x \in IntentRows /\ x.cfg = gateway[i].cfg /\ x.state # "none"
        /\ succeeds => x.state \in Captured /\ x.received = "full"
        /\ gateway[i].state \in Captured /\ gateway[i].received = "full" => x.state \in Captured /\ x.received = "full"
    BY <1>3, <2>5 DEF IntentRows, Captured
  <2>8. gateway' \in [Intents -> IntentRows] /\ gateway'[i] = x /\ \A j \in Intents : j # i => gateway'[j] = gateway[j]
    BY <1>3, <2>6, <2>7
  <2>9. GatewayKept
    BY <1>3, <2>7, <2>8 DEF GatewayKept
  <2>10. ApplyLeaves(e)
    BY <2>2, <2>4, ApplyLeavesRecords
  <2>11. ~Refs(i)
    BY <1>3 DEF Demo, Refs
  <2>12. /\ row' \in [Intents -> PaymentRows] /\ vouched' \in [Intents -> Configs \cup {None, Recovered}]
         /\ \A j \in Intents : row[j].status # "none" => row'[j].status # "none"
         /\ \A j \in Intents : IntentSound(j)'
    <3>1. gateway[e.i].state # "none" /\ gateway'[e.i].state # "none" /\ gateway'[e.i].cfg = gateway[e.i].cfg
      BY <1>3, <2>4, <2>7, <2>8
    <3>2. \A j \in Intents : j # e.i => gateway'[j] = gateway[j]
      BY <2>4, <2>8
    <3>3. gateway[e.i].state \in Captured /\ gateway[e.i].received = "full" => gateway'[e.i].state \in Captured /\ gateway'[e.i].received = "full"
      BY <2>4, <2>7, <2>8
    <3>4. e.kind = "succeeded" /\ e.amount = "full" => gateway'[e.i].state \in Captured /\ gateway'[e.i].received = "full"
      BY <2>4, <2>7, <2>8
    <3>5. PICK c : c = gateway[i].cfg
      OBVIOUS
    <3>6. PICK seen : seen = reads[p].status
      OBVIOUS
    <3>7. Apply(e, c, seen, flags) /\ (Refs(e.i) /\ c # None => e.reference # None)
      BY <2>2, <2>4, <2>11, <3>5, <3>6
    <3> QED BY <1>2, <2>4, <3>1, <3>2, <3>3, <3>4, <3>7, ApplyRows
  <2>13. \A q \in Payers : PayerSound(q)'
    BY <1>4, <2>9, <2>12, PayersKept
  <2>14. GatewaysType'
    <3>1. orderStatus' \in {"pending", "paid", "cancelled"} /\ paidBy' \in Intents \cup {None}
      BY <1>3, <2>4, <2>10, ApplyType
    <3> QED BY <1>2, <1>3, <1>5, <2>8, <2>12, <3>1 DEF GatewaysType, PaymentRows, EventRows, IntentRows
  <2>15. e.i \in Intents /\ Demo(e.i) /\ gateway[e.i].state # "none"
    BY <1>3, <2>4
  <2> QED BY <1>2, <2>9, <2>10, <2>12, <2>13, <2>14, <2>15, TakenStep
<1> QED BY <1>6, <1>7

\* At first no gateway knows anything.
LEMMA GatewaysInitInv == GatewaysInit => GatewaysInv
<1> SUFFICES ASSUME GatewaysInit PROVE GatewaysInv
  OBVIOUS
<1>1. GatewaysType
  <2>1. NoIntent \in IntentRows /\ NoRow \in PaymentRows /\ IsFiniteSet({})
    BY FS_EmptySet DEF NoIntent, NoRow, IntentRows, PaymentRows
  <2> QED BY <2>1 DEF GatewaysInit, GatewaysType
<1>2. ASSUME NEW i \in Intents PROVE IntentSound(i)
  BY DEF GatewaysInit, IntentSound, NoIntent, NoRow
<1>3. ASSUME NEW i \in Intents PROVE PaidOnce(i)
  BY IntentsAssumption DEF GatewaysInit, PaidOnce
<1>4. ASSUME NEW p \in Payers PROVE PayerSound(p)
  BY DEF GatewaysInit, PayerSound
<1> QED BY <1>1, <1>2, <1>3, <1>4 DEF GatewaysInit, GatewaysInv

\* Every step keeps the invariant.
LEMMA GatewaysStep == GatewaysInv /\ [GatewaysNext]_gatewaysVars => GatewaysInv'
<1> SUFFICES ASSUME GatewaysInv, [GatewaysNext]_gatewaysVars PROVE GatewaysInv'
  OBVIOUS
<1>1. CASE GatewaysNext
  BY <1>1, PlanPaymentInv, ReusePaymentInv, CreateInv, RecordPaymentInv, CancelOrderInv, CaptureInv, DeclineInv, RefundAtGatewayInv,
     HandleWebhookInv, ReprocessInv, ExpireDeferredInv, DemoReadInv, DemoPayInv, ExecuteRefundInv DEF GatewaysNext
<1>2. CASE UNCHANGED gatewaysVars
  BY <1>2 DEF gatewaysVars, GatewaysInv, GatewaysType, IntentRows, PaymentRows, EventRows, IntentSound, EventSound, RefundTold,
     DeferredSound, PayerSound, PaidOnce, Claimed, Demo, Refs, Kept
<1> QED BY <1>1, <1>2

\* What the invariant says of credits and of refunds.
LEMMA GatewaysSafe == GatewaysInv => MoneyIsRight
<1> SUFFICES ASSUME GatewaysInv PROVE MoneyIsRight
  OBVIOUS
<1>1. CreditIsBacked
  BY DEF GatewaysInv, IntentSound, CreditIsBacked, Captured
<1>2. LateIsLate
  BY DEF GatewaysInv, PaidOnce, LateIsLate, Demo
<1>3. RefundableUnlessRecovered
  BY IntentsAssumption DEF GatewaysInv, IntentSound, RefundableUnlessRecovered, RefundTarget
<1>4. RefundSeen
  BY DEF GatewaysInv, RefundTold, Claimed, RefundSeen
<1> QED BY <1>1, <1>2, <1>3, <1>4 DEF MoneyIsRight, CreditIsRight, RefundsReach

\* Only money that came is credited, a second event of one payment is not taken for a second payment, a credited payment can
\* be given back, and a refund made at the gateway that the shop was told of stays on record, for any number of intents,
\* configurations, payers and events (payment_service.py, core/payments).
THEOREM GatewayMoney ==
    /\ GatewaysSpec => []MoneyIsRight
    /\ Spec => []Gateways_MoneyIsRight
<1> DEFINE I == part = "gateways" => GatewaysInv
<1>1. GatewaysInv => MoneyIsRight
  BY GatewaysSafe
<1>2. Init => I
  BY GatewaysInitInv DEF Init
<1>3. I /\ [Next]_vars => I'
  BY PartStep, GatewaysStep
<1>4. I => Gateways_MoneyIsRight
  BY <1>1 DEF Gateways_MoneyIsRight
<1>5. GatewaysSpec => []MoneyIsRight
  BY <1>1, GatewaysInitInv, GatewaysStep, PTL DEF GatewaysSpec
<1>6. Spec => []Gateways_MoneyIsRight
  <2> HIDE DEF I
  <2> QED BY <1>2, <1>3, <1>4, PTL DEF Spec
<1> QED BY <1>5, <1>6

-----------------------------------------------------------------------------
(* Invoices and credit notes.                                              *)

\* The rows of orders and the documents that are stored.
SoldRows == [status : OrderStatus, buyer : {"guest", "registered", "cancelled"}, kind : {"gst", "plain", "demo"}, released : BOOLEAN,
             refund : {"none", "requested", "succeeded", "failed"}, cancels : BOOLEAN, refunds : Nat]
Documents == (Prefixes \cup {CREDIT_NOTE_PREFIX}) \X (1 .. MaxYears) \X Nat

BooksType ==
    /\ order \in [Orders -> SoldRows] /\ issuer \in [Issuers -> Orders \cup {None}]
    /\ profile \in Prefixes \cup {None} /\ year \in 1 .. MaxYears
    /\ last \in [Series -> Nat] /\ doc \in [Orders -> [DocTypes -> Documents \cup {None}]]

\* Orders that have a document of type t of year y.
Issued(t, y) == {o \in Orders : doc[o][t] # None /\ doc[o][t][2] = y}

\* What NumbersConsecutive says of one series.
SeriesSound(t, y) ==
    /\ Cardinality(Issued(t, y)) = last[<<t, y>>]
    /\ {doc[o][t][3] : o \in Issued(t, y)} = 1 .. last[<<t, y>>]

BooksInv ==
    /\ BooksType
    /\ \A t \in DocTypes, y \in 1 .. MaxYears : SeriesSound(t, y)
    /\ CreditNoteFollows

\* A document that is issued takes the next number of its series, and no other series is touched.
LEMMA IssueSound ==
    ASSUME BooksInv, NEW o \in Orders, NEW t \in DocTypes, Issue(o, t)
    PROVE  /\ last' \in [Series -> Nat] /\ doc' \in [Orders -> [DocTypes -> Documents \cup {None}]]
           /\ doc'[o][t] # None
           /\ \A p \in Orders, u \in DocTypes : p # o \/ u # t => doc'[p][u] = doc[p][u]
           /\ \A u \in DocTypes, y \in 1 .. MaxYears : SeriesSound(u, y)'
<1>1. PICK z : z = year
  OBVIOUS
<1>2. PICK n : n = last[<<t, z>>] + 1
  OBVIOUS
<1>3. PICK d : d = Number(t, n)
  OBVIOUS
<1>4. /\ BooksType /\ z \in 1 .. MaxYears /\ last \in [Series -> Nat] /\ doc \in [Orders -> [DocTypes -> Documents \cup {None}]]
      /\ SeriesSound(t, z) /\ profile \in Prefixes /\ doc[o][t] = None
      /\ last' = [last EXCEPT ![<<t, z>>] = n] /\ doc' = [doc EXCEPT ![o][t] = d]
  BY <1>1, <1>2, <1>3 DEF Issue, Storable, BooksInv, BooksType
<1>5. <<t, z>> \in Series /\ n \in Nat /\ last[<<t, z>>] = n - 1
  <2>1. <<t, z>> \in Series
    BY <1>4 DEF Series
  <2>2. last[<<t, z>>] \in Nat
    BY <1>4, <2>1
  <2> QED BY <1>2, <2>1, <2>2
<1>6. PICK S : S = Issued(t, z)
  OBVIOUS
<1>7. S \subseteq Orders /\ o \notin S /\ Cardinality(S) = n - 1 /\ IsFiniteSet(S) /\ IsFiniteSet(S \cup {o}) /\ Cardinality(S \cup {o}) = n
  <2>1. S \subseteq Orders /\ o \notin S
    BY <1>4, <1>6 DEF Issued
  <2>2. IsFiniteSet(S)
    BY <2>1, OrdersAssumption, FS_Subset
  <2>3. Cardinality(S) = n - 1
    BY <1>4, <1>5, <1>6 DEF SeriesSound
  <2>4. IsFiniteSet(S \cup {o}) /\ Cardinality(S \cup {o}) = Cardinality(S) + 1
    BY <2>1, <2>2, FS_AddElement
  <2> QED BY <1>5, <2>1, <2>2, <2>3, <2>4
<1>8. n \in 1 .. Cardinality(Orders)
  <2>1. S \cup {o} \in SUBSET Orders
    BY <1>7
  <2>2. Cardinality(S \cup {o}) <= Cardinality(Orders) /\ Cardinality(Orders) \in Nat
    BY <2>1, OrdersAssumption, FS_Subset, FS_CardinalityType
  <2>3. n >= 1
    <3>1. last[<<t, z>>] \in Nat
      BY <1>4, <1>5
    <3> QED BY <1>2, <3>1
  <2> QED BY <1>5, <1>7, <2>2, <2>3
<1>9. d # None /\ d \in Documents /\ d[2] = z /\ d[3] = n
  <2>1. PICK x \in Prefixes \cup {CREDIT_NOTE_PREFIX} : d = <<x, z, n>>
    BY <1>1, <1>3, <1>4 DEF Number
  <2>2. d \in (Prefixes \cup {CREDIT_NOTE_PREFIX}) \X (1 .. MaxYears) \X (1 .. Cardinality(Orders))
    BY <1>4, <1>8, <2>1
  <2> QED BY <1>4, <1>5, <2>1, <2>2, DocumentsAssumption DEF Documents
<1>10. last' \in [Series -> Nat] /\ last'[<<t, z>>] = n /\ \A s \in Series : s # <<t, z>> => last'[s] = last[s]
  BY <1>4, <1>5
<1>11. PICK f : f = [doc[o] EXCEPT ![t] = d]
  OBVIOUS
<1>12. f \in [DocTypes -> Documents \cup {None}] /\ f[t] = d /\ \A u \in DocTypes : u # t => f[u] = doc[o][u]
  BY <1>4, <1>9, <1>11
<1>13. doc' = [doc EXCEPT ![o] = f]
  BY <1>4, <1>11
<1>14. doc' \in [Orders -> [DocTypes -> Documents \cup {None}]] /\ doc'[o] = f /\ \A p \in Orders : p # o => doc'[p] = doc[p]
  BY <1>4, <1>12, <1>13
<1>15. doc'[o][t] = d /\ \A p \in Orders, u \in DocTypes : p # o \/ u # t => doc'[p][u] = doc[p][u]
  BY <1>12, <1>14
<1>16. ASSUME NEW u \in DocTypes, NEW y \in 1 .. MaxYears, u # t \/ y # z PROVE SeriesSound(u, y)'
  <2>1. SeriesSound(u, y)
    BY DEF BooksInv
  <2>2. <<u, y>> \in Series /\ <<u, y>> # <<t, z>>
    BY <1>16 DEF Series
  <2>3. last'[<<u, y>>] = last[<<u, y>>]
    BY <1>10, <2>2
  <2>4. Issued(u, y)' = Issued(u, y)
    BY <1>4, <1>9, <1>15, <1>16 DEF Issued
  <2>5. \A p \in Issued(u, y) : doc'[p][u] = doc[p][u]
    BY <1>4, <1>9, <1>15, <1>16 DEF Issued
  <2> QED BY <2>1, <2>3, <2>4, <2>5 DEF SeriesSound
<1>17. SeriesSound(t, z)'
  <2>1. Issued(t, z)' = S \cup {o}
    BY <1>4, <1>6, <1>9, <1>15 DEF Issued
  <2>2. \A p \in S : doc'[p][t] = doc[p][t]
    BY <1>7, <1>15
  <2>3. {doc[p][t][3] : p \in S} = 1 .. (n - 1)
    BY <1>4, <1>5, <1>6 DEF SeriesSound
  <2>4. {doc'[p][t][3] : p \in S \cup {o}} = {doc[p][t][3] : p \in S} \cup {n}
    BY <1>7, <1>9, <1>15, <2>2
  <2>5. (1 .. (n - 1)) \cup {n} = 1 .. n
    BY <1>5, <1>8
  <2> QED BY <1>7, <1>10, <2>1, <2>3, <2>4, <2>5 DEF SeriesSound
<1> QED BY <1>9, <1>10, <1>14, <1>15, <1>16, <1>17

\* A step that issues nothing keeps the books, if no order becomes refunded.
LEMMA BooksKept ==
    ASSUME BooksInv, BooksType', UNCHANGED <<last, doc>>, late \subseteq late',
           \A o \in Orders : order'[o].status = "refunded" => order[o].status = "refunded"
    PROVE  BooksInv'
<1>1. ASSUME NEW t \in DocTypes, NEW y \in 1 .. MaxYears PROVE SeriesSound(t, y)'
  <2>1. SeriesSound(t, y) /\ Issued(t, y)' = Issued(t, y)
    BY DEF BooksInv, Issued
  <2> QED BY <2>1 DEF SeriesSound
<1>2. CreditNoteFollows'
  BY DEF BooksInv, CreditNoteFollows
<1> QED BY <1>1, <1>2 DEF BooksInv

\* A step that leaves orders, documents and requests for them alone keeps the books.
LEMMA BooksStill ==
    ASSUME BooksInv, UNCHANGED <<order, last, doc, issuer, late>>, profile' \in Prefixes \cup {None}, year' \in 1 .. MaxYears
    PROVE  BooksInv'
<1>1. BooksType'
  BY DEF BooksInv, BooksType, SoldRows, Documents, Series
<1> QED BY <1>1, BooksKept

\* An order's row changes.
LEMMA SoldRow ==
    ASSUME BooksType, NEW o \in Orders, NEW x \in SoldRows, order' = [order EXCEPT ![o] = x]
    PROVE  order' \in [Orders -> SoldRows] /\ order'[o] = x /\ \A p \in Orders : p # o => order'[p] = order[p]
  BY DEF BooksType

\* Dispatch: the order is fulfilled, with its invoice.
LEMMA DispatchInv ==
    ASSUME BooksInv, NEW o \in Orders, Dispatched(o), UNCHANGED <<profile, year, issuer, late>> PROVE BooksInv'
<1>1. PICK x : x = [order[o] EXCEPT !.status = "fulfilled"]
  OBVIOUS
<1>2. BooksType /\ order[o] \in SoldRows /\ order \in [Orders -> SoldRows] /\ order' = [order EXCEPT ![o].status = "fulfilled"]
  BY DEF BooksInv, BooksType, Dispatched
<1>3. x \in SoldRows /\ x.status = "fulfilled"
  BY <1>1, <1>2 DEF SoldRows, OrderStatus
<1>4. order' = [order EXCEPT ![o] = x]
  BY <1>1, <1>2
<1>5. order' \in [Orders -> SoldRows] /\ order'[o] = x /\ \A p \in Orders : p # o => order'[p] = order[p]
  BY <1>2, <1>3, <1>4, SoldRow
<1>6. CASE UNCHANGED docVars
  <2>1. UNCHANGED <<last, doc>>
    BY <1>6 DEF docVars
  <2>2. BooksType'
    BY <1>2, <1>5, <2>1 DEF BooksType, SoldRows, Documents, Series
  <2>3. \A p \in Orders : order'[p].status = "refunded" => order[p].status = "refunded"
    BY <1>3, <1>5
  <2> QED BY <2>1, <2>2, <2>3, BooksKept
<1>7. CASE Issue(o, "invoice")
  <2>1. "invoice" \in DocTypes
    BY DEF DocTypes
  <2>2. /\ last' \in [Series -> Nat] /\ doc' \in [Orders -> [DocTypes -> Documents \cup {None}]]
        /\ \A p \in Orders, u \in DocTypes : p # o \/ u # "invoice" => doc'[p][u] = doc[p][u]
        /\ \A u \in DocTypes, y \in 1 .. MaxYears : SeriesSound(u, y)'
    BY <1>7, <2>1, IssueSound
  <2>3. BooksType'
    BY <1>2, <1>5, <2>2 DEF BooksType, SoldRows, Documents, Series
  <2>4. CreditNoteFollows'
    BY <1>3, <1>5, <2>2 DEF BooksInv, CreditNoteFollows, DocTypes
  <2> QED BY <2>2, <2>3, <2>4 DEF BooksInv
<1> QED BY <1>6, <1>7 DEF Dispatched, InvoiceOnDispatch

\* An administrator's request issues an invoice, or fails and gives its number back.
LEMMA AskedInv == ASSUME BooksInv, NEW i \in Issuers, IssueAsked(i) \/ IssueFails(i) \/ \E o \in Orders : AskInvoice(i, o) PROVE BooksInv'
<1>1. BooksType /\ issuer \in [Issuers -> Orders \cup {None}]
  BY DEF BooksInv, BooksType
<1>2. CASE \E o \in Orders : AskInvoice(i, o)
  <2>1. UNCHANGED <<order, last, doc, late, profile, year>> /\ issuer' \in [Issuers -> Orders \cup {None}]
    BY <1>1, <1>2 DEF AskInvoice
  <2>2. BooksType'
    BY <1>1, <2>1 DEF BooksType, SoldRows, Documents, Series
  <2> QED BY <2>1, <2>2, BooksKept
<1>3. CASE IssueFails(i)
  <2>1. UNCHANGED <<order, last, doc, late, profile, year>> /\ issuer' \in [Issuers -> Orders \cup {None}]
    BY <1>1, <1>3 DEF IssueFails, NumberAfterRollback
  <2>2. BooksType'
    BY <1>1, <2>1 DEF BooksType, SoldRows, Documents, Series
  <2> QED BY <2>1, <2>2, BooksKept
<1>4. CASE IssueAsked(i)
  <2>1. PICK o : o = issuer[i]
    OBVIOUS
  <2>2. /\ o \in Orders /\ Issue(o, "invoice") /\ late' = (IF order[o].status = "refunded" THEN late \cup {o} ELSE late)
        /\ issuer' \in [Issuers -> Orders \cup {None}] /\ UNCHANGED <<order, profile, year>>
    BY <1>1, <1>4, <2>1 DEF IssueAsked
  <2>3. "invoice" \in DocTypes
    BY DEF DocTypes
  <2>4. /\ last' \in [Series -> Nat] /\ doc' \in [Orders -> [DocTypes -> Documents \cup {None}]]
        /\ \A p \in Orders, u \in DocTypes : p # o \/ u # "invoice" => doc'[p][u] = doc[p][u]
        /\ \A u \in DocTypes, y \in 1 .. MaxYears : SeriesSound(u, y)'
    BY <2>2, <2>3, IssueSound
  <2>5. BooksType'
    BY <1>1, <2>2, <2>4 DEF BooksType, SoldRows, Documents, Series
  <2>6. CreditNoteFollows'
    <3> SUFFICES ASSUME NEW p \in Orders, order'[p].status = "refunded", doc'[p]["invoice"] # None
                 PROVE  doc'[p]["credit_note"] # None \/ p \in late'
      BY DEF CreditNoteFollows
    <3>1. CASE p = o
      BY <2>2, <3>1
    <3>2. CASE p # o
      BY <2>2, <2>4, <3>2 DEF BooksInv, CreditNoteFollows, DocTypes
    <3> QED BY <3>1, <3>2
  <2> QED BY <2>4, <2>5, <2>6 DEF BooksInv
<1> QED BY <1>2, <1>3, <1>4

\* A refund that is confirmed gives the order its credit note.
LEMMA ConfirmInv == ASSUME BooksInv, NEW o \in Orders, ConfirmRefund(o) PROVE BooksInv'
<1>1. PICK b : b = (order[o].released \/ Releases(o))
  OBVIOUS
<1>2. b \in BOOLEAN
  BY <1>1
<1>3. PICK x : x = [order[o] EXCEPT !.refund = "succeeded", !.status = "refunded", !.released = b]
  OBVIOUS
<1>4. /\ BooksType /\ order[o] \in SoldRows /\ order \in [Orders -> SoldRows] /\ CreditNote(o) /\ UNCHANGED <<profile, year, issuer, late>>
      /\ order' = [order EXCEPT ![o].refund = "succeeded", ![o].status = "refunded", ![o].released = b]
  BY <1>1 DEF BooksInv, BooksType, ConfirmRefund
<1>5. x \in SoldRows
  BY <1>2, <1>3, <1>4 DEF SoldRows, OrderStatus
<1>6. order' = [order EXCEPT ![o] = x]
  BY <1>3, <1>4
<1>7. order' \in [Orders -> SoldRows] /\ order'[o] = x /\ \A p \in Orders : p # o => order'[p] = order[p]
  BY <1>4, <1>5, <1>6, SoldRow
<1>8. CASE doc[o]["invoice"] # None /\ doc[o]["credit_note"] = None
  <2>1. "credit_note" \in DocTypes /\ Issue(o, "credit_note")
    BY <1>4, <1>8 DEF DocTypes, CreditNote
  <2>2. /\ last' \in [Series -> Nat] /\ doc' \in [Orders -> [DocTypes -> Documents \cup {None}]] /\ doc'[o]["credit_note"] # None
        /\ \A p \in Orders, u \in DocTypes : p # o \/ u # "credit_note" => doc'[p][u] = doc[p][u]
        /\ \A u \in DocTypes, y \in 1 .. MaxYears : SeriesSound(u, y)'
    BY <2>1, IssueSound
  <2>3. BooksType'
    BY <1>4, <1>7, <2>2 DEF BooksType, SoldRows, Documents, Series
  <2>4. CreditNoteFollows'
    BY <1>4, <1>7, <2>2 DEF BooksInv, CreditNoteFollows, DocTypes
  <2> QED BY <2>2, <2>3, <2>4 DEF BooksInv
<1>9. CASE ~(doc[o]["invoice"] # None /\ doc[o]["credit_note"] = None)
  <2>1. UNCHANGED <<last, doc>>
    BY <1>4, <1>9 DEF CreditNote, docVars
  <2>2. BooksType'
    BY <1>4, <1>7, <2>1 DEF BooksType, SoldRows, Documents, Series
  <2>3. \A t \in DocTypes, y \in 1 .. MaxYears : Issued(t, y)' = Issued(t, y)
    BY <2>1 DEF Issued
  <2>4. ASSUME NEW t \in DocTypes, NEW y \in 1 .. MaxYears PROVE SeriesSound(t, y)'
    <3>1. SeriesSound(t, y) /\ Issued(t, y)' = Issued(t, y)
      BY <2>3 DEF BooksInv
    <3> QED BY <2>1, <3>1 DEF SeriesSound
  <2>5. CreditNoteFollows'
    BY <1>4, <1>7, <1>9, <2>1 DEF BooksInv, CreditNoteFollows
  <2> QED BY <2>2, <2>4, <2>5 DEF BooksInv
<1> QED BY <1>8, <1>9

\* A refund is asked for, or refused: the order's status stays.
LEMMA RefundAskedInv ==
    ASSUME BooksInv, NEW o \in Orders, UNCHANGED <<last, doc, issuer, late, profile, year>>,
           FailRefund(o) \/ \E cancels \in BOOLEAN : RefundRequested(o, cancels)
    PROVE  BooksInv'
<1>1. BooksType /\ order[o] \in SoldRows /\ order \in [Orders -> SoldRows]
  BY DEF BooksInv, BooksType
<1>2. CASE UNCHANGED order
  BY <1>1, <1>2, BooksStill DEF BooksType
<1>3. ASSUME NEW x \in SoldRows, x.status = order[o].status, order' = [order EXCEPT ![o] = x] PROVE BooksInv'
  <2>1. order' \in [Orders -> SoldRows] /\ order'[o] = x /\ \A p \in Orders : p # o => order'[p] = order[p]
    BY <1>1, <1>3, SoldRow
  <2>2. BooksType'
    BY <1>1, <2>1 DEF BooksType, SoldRows, Documents, Series
  <2> QED BY <1>3, <2>1, <2>2, BooksKept
<1>4. CASE FailRefund(o)
  <2>1. PICK x : x = [order[o] EXCEPT !.refund = "failed"]
    OBVIOUS
  <2>2. order' = [order EXCEPT ![o] = x]
    BY <1>1, <1>4, <2>1 DEF FailRefund
  <2>3. x \in SoldRows /\ x.status = order[o].status
    BY <1>1, <2>1 DEF SoldRows
  <2> QED BY <1>3, <2>2, <2>3
<1>5. ASSUME NEW cancels \in BOOLEAN, RefundRequested(o, cancels), ~(UNCHANGED order) PROVE BooksInv'
  <2>0. PICK k : k = order[o].refunds + 1
    OBVIOUS
  <2>1. PICK x : x = [order[o] EXCEPT !.refund = "requested", !.cancels = cancels, !.refunds = k]
    OBVIOUS
  <2>2. order' = [order EXCEPT ![o] = x]
    BY <1>1, <1>5, <2>0, <2>1 DEF RefundRequested
  <2>3. x \in SoldRows /\ x.status = order[o].status
    <3>1. k \in Nat
      BY <1>1, <2>0 DEF SoldRows
    <3>2. x.status = order[o].status
      BY <1>1, <2>1 DEF SoldRows
    <3> QED BY <1>1, <2>1, <3>1, <3>2 DEF SoldRows
  <2> QED BY <1>3, <2>2, <2>3
<1> QED BY <1>2, <1>4, <1>5

\* At first no document is issued and no order refunded.
LEMMA BooksInitInv == FulfilmentInit => BooksInv
<1> SUFFICES ASSUME FulfilmentInit PROVE BooksInv
  OBVIOUS
<1>1. PICK start \in Starts :
        order = [o \in Orders |-> [status |-> IF start[o].buyer = "cancelled" THEN "cancelled" ELSE "paid",
                                   buyer |-> start[o].buyer, kind |-> start[o].kind, released |-> FALSE,
                                   refund |-> "none", cancels |-> FALSE, refunds |-> 0]]
  BY DEF FulfilmentInit
<1>2. ASSUME NEW o \in Orders PROVE order[o] \in SoldRows /\ order[o].status # "refunded"
  <2>1. start[o] \in [buyer : {"guest", "registered", "cancelled"}, kind : {"gst", "plain", "demo"}]
    BY StartsAssumption
  <2> QED BY <1>1, <2>1 DEF SoldRows, OrderStatus
<1>3. order \in [Orders -> SoldRows]
  BY <1>1, <1>2
<1>4. BooksType
  BY <1>3, OrdersAssumption DEF FulfilmentInit, BooksType
<1>5. ASSUME NEW t \in DocTypes, NEW y \in 1 .. MaxYears PROVE SeriesSound(t, y)
  <2>1. Issued(t, y) = {} /\ last[<<t, y>>] = 0
    BY DEF FulfilmentInit, Issued, Series
  <2> QED BY <2>1, FS_EmptySet DEF SeriesSound
<1>6. CreditNoteFollows
  BY <1>2 DEF CreditNoteFollows
<1> QED BY <1>4, <1>5, <1>6 DEF BooksInv

\* Every step keeps the books.
LEMMA BooksStep == BooksInv /\ [FulfilmentNext]_fulfilmentVars => BooksInv'
<1> SUFFICES ASSUME BooksInv, [FulfilmentNext]_fulfilmentVars PROVE BooksInv'
  OBVIOUS
<1>1. BooksType /\ MaxYears \in Nat /\ profile \in Prefixes \cup {None} /\ year \in 1 .. MaxYears
  BY OrdersAssumption DEF BooksInv, BooksType
<1>2. CASE InvoiceEndpoints
  <2>1. CASE \E prefix \in Prefixes : WriteProfile(prefix)
    BY <1>1, <2>1, BooksStill DEF WriteProfile
  <2> QED BY <1>2, <2>1, AskedInv DEF InvoiceEndpoints
<1>3. CASE ShipmentEndpoints
  <2>1. PICK o \in Orders : AddShipment(o) \/ ShipAndFulfil(o) \/ Deliver(o) \/ DeleteShipment(o)
    BY <1>3 DEF ShipmentEndpoints
  <2>2. CASE ShipAndFulfil(o)
    BY <2>2, DispatchInv DEF ShipAndFulfil
  <2>3. CASE AddShipment(o) \/ Deliver(o) \/ DeleteShipment(o)
    BY <1>1, <2>3, BooksStill DEF AddShipment, Deliver, DeleteShipment
  <2> QED BY <2>1, <2>2, <2>3
<1>4. CASE OrderEndpoints
  <2>1. PICK o \in Orders : FulfilOrder(o) \/ \E cancels \in BOOLEAN : RequestRefund(o, cancels)
    BY <1>4 DEF OrderEndpoints, AdminChangeStatus
  <2>2. CASE FulfilOrder(o)
    BY <2>2, DispatchInv DEF FulfilOrder
  <2>3. CASE \E cancels \in BOOLEAN : RequestRefund(o, cancels)
    BY <2>3, RefundAskedInv DEF RequestRefund
  <2> QED BY <2>1, <2>2, <2>3
<1>5. CASE CustomerReturnEndpoints
  BY <1>1, <1>5, BooksStill DEF CustomerReturnEndpoints, CancelReturn, MoveReturn, CreateReturn
<1>6. CASE AdminReturnEndpoints
  <2>1. PICK r \in Returns : Approve(r) \/ Reject(r) \/ Close(r) \/ RefundReturn(r) \/ \E receipt \in Receipts : Receive(r, receipt.got, receipt.sellable)
    BY <1>6 DEF AdminReturnEndpoints
  <2>2. CASE RefundReturn(r)
    <3>1. RefundRequested(ret[r].order, FALSE) /\ UNCHANGED <<last, doc, issuer, late, profile, year>>
      BY <2>2 DEF RefundReturn
    <3>2. CASE ret[r].order \in Orders
      BY <3>1, <3>2, RefundAskedInv
    <3>3. CASE ret[r].order \notin Orders
      <4>1. UNCHANGED order
        BY <1>1, <3>1, <3>3 DEF RefundRequested, BooksType
      <4> QED BY <1>1, <3>1, <4>1, BooksStill
    <3> QED BY <3>2, <3>3
  <2>3. CASE ~RefundReturn(r)
    BY <1>1, <2>1, <2>3, BooksStill DEF Approve, Reject, Close, MoveReturn, Receive
  <2> QED BY <2>2, <2>3
<1>7. CASE Environment
  <2>1. CASE NewYear
    BY <1>1, <2>1, BooksStill DEF NewYear
  <2>2. ASSUME NEW o \in Orders, ConfirmRefund(o) \/ FailRefund(o) \/ WindowPasses(o) PROVE BooksInv'
    <3>1. CASE ConfirmRefund(o)
      BY <3>1, ConfirmInv
    <3>2. CASE FailRefund(o)
      BY <3>2, RefundAskedInv DEF FailRefund
    <3>3. CASE WindowPasses(o)
      BY <1>1, <3>3, BooksStill DEF WindowPasses
    <3> QED BY <2>2, <3>1, <3>2, <3>3
  <2> QED BY <1>7, <2>1, <2>2 DEF Environment
<1>8. CASE UNCHANGED fulfilmentVars
  BY <1>1, <1>8, BooksStill DEF fulfilmentVars
<1> QED BY <1>2, <1>3, <1>4, <1>5, <1>6, <1>7, <1>8 DEF FulfilmentNext

\* Sound series have consecutive numbers.
LEMMA BooksSafe == BooksInv => BooksComplete
<1> SUFFICES ASSUME BooksInv, NEW s \in Series
             PROVE  /\ Cardinality({o \in Orders : doc[o][s[1]] # None /\ doc[o][s[1]][2] = s[2]}) = last[s]
                    /\ {doc[o][s[1]][3] : o \in {p \in Orders : doc[p][s[1]] # None /\ doc[p][s[1]][2] = s[2]}} = 1 .. last[s]
  BY DEF BooksInv, BooksComplete, NumbersConsecutive
<1>1. s[1] \in DocTypes /\ s[2] \in 1 .. MaxYears /\ s = <<s[1], s[2]>>
  BY DEF Series
<1>2. SeriesSound(s[1], s[2])
  BY <1>1 DEF BooksInv
<1> QED BY <1>1, <1>2 DEF SeriesSound, Issued

\* The documents of every series carry the numbers 1 .. last, each once, and a refund of an invoiced order has its credit note, for any
\* number of orders, requests, prefixes and years (invoice_service.py).
THEOREM BooksAreComplete ==
    /\ FulfilmentSpec => []BooksComplete
    /\ Spec => []Fulfilment_BooksComplete
<1> DEFINE I == part = "fulfilment" => BooksInv
<1>1. Init => I
  BY BooksInitInv DEF Init
<1>2. I /\ [Next]_vars => I'
  BY PartStep, BooksStep
<1>3. I => Fulfilment_BooksComplete
  BY BooksSafe DEF Fulfilment_BooksComplete
<1>4. FulfilmentSpec => []BooksComplete
  BY BooksSafe, BooksInitInv, BooksStep, PTL DEF FulfilmentSpec
<1>5. Spec => []Fulfilment_BooksComplete
  <2> HIDE DEF I
  <2> QED BY <1>1, <1>2, <1>3, PTL DEF Spec
<1> QED BY <1>4, <1>5

-----------------------------------------------------------------------------
(* Goods that come back.                                                   *)

\* The rows of return requests.
ReturnRows == [order : Orders \cup {None}, status : {"none", "rejected", "cancelled"} \cup COUNTED, qty : [Lines -> Nat], got : [Lines -> Nat],
               back : [Lines -> Nat], resolution : {"none", "outside", "refunded"}]

\* What a return row claims of a line of an order, brought back, and put back in stock; and the sums over all returns.
ClaimOf(x, o, l) == IF x.order = o /\ x.status \in COUNTED THEN x.qty[l] ELSE 0
GotOf(x, o, l) == IF x.order = o THEN x.got[l] ELSE 0
BackOf(x, o, l) == IF x.order = o THEN x.back[l] ELSE 0
Claims(rs, o, l) == [r \in Returns |-> ClaimOf(rs[r], o, l)]
Gots(rs, o, l) == [r \in Returns |-> GotOf(rs[r], o, l)]
Backs(rs, o, l) == [r \in Returns |-> BackOf(rs[r], o, l)]
Total(f) == SumFunctionOnSet(f, Returns)

\* Nothing has arrived of a return before it is received, and never more than was asked for.
ReturnSound(x) ==
    /\ x.order = None <=> x.status = "none"
    /\ \A l \in Lines : x.got[l] <= x.qty[l]
    /\ x.status \notin {"received", "closed"} => x.got = Nothing /\ x.back = Nothing
    /\ x.resolution = "refunded" => x.status = "closed"

\* No line is claimed more than it was bought, and all of a refunded order came back.
ReturnsSound(rs) ==
    /\ rs \in [Returns -> ReturnRows]
    /\ \A r \in Returns : ReturnSound(rs[r])
    /\ \A o \in Orders, l \in Lines : Total(Claims(rs, o, l)) <= Bought[l]
    /\ \A r \in Returns : rs[r].resolution = "refunded" => \A l \in Lines : Total(Gots(rs, rs[r].order, l)) = Bought[l]

\* An order is shipped when it is fulfilled and not while it is paid, and its units are released only if it never was.
OrderGoods(o) ==
    /\ order[o].status = "fulfilled" => o \in shipped
    /\ order[o].status = "paid" => o \notin shipped
    /\ order[o].released => order[o].status = "refunded" /\ o \notin shipped
    /\ order[o].refund = "requested" => order[o].status \in {"paid", "fulfilled"}

\* What order_items.restocked_quantity counts.
StockBack(o) ==
    \A l \in Lines : restocked[o][l] = IF order[o].released THEN Bought[l] ELSE Total(Backs(ret, o, l))

GoodsInv ==
    /\ ReturnsSound(ret)
    /\ \A r \in Returns : ret[r].order # None => ret[r].order \in shipped
    /\ order \in [Orders -> SoldRows] /\ restocked \in [Orders -> [Lines -> Int]]
    /\ \A o \in Orders : OrderGoods(o) /\ StockBack(o)

\* The three are numbers.
LEMMA ReturnNumbers ==
    ASSUME NEW rs \in [Returns -> ReturnRows], NEW o, NEW l \in Lines
    PROVE  /\ \A r \in Returns : /\ Claims(rs, o, l)[r] = ClaimOf(rs[r], o, l) /\ ClaimOf(rs[r], o, l) \in Nat
                                 /\ Gots(rs, o, l)[r] = GotOf(rs[r], o, l) /\ GotOf(rs[r], o, l) \in Nat
                                 /\ Backs(rs, o, l)[r] = BackOf(rs[r], o, l) /\ BackOf(rs[r], o, l) \in Nat
           /\ IsFiniteSet(Returns)
           /\ Total(Claims(rs, o, l)) \in Nat /\ Total(Gots(rs, o, l)) \in Nat /\ Total(Backs(rs, o, l)) \in Nat
<1>1. ASSUME NEW r \in Returns
      PROVE  /\ Claims(rs, o, l)[r] = ClaimOf(rs[r], o, l) /\ ClaimOf(rs[r], o, l) \in Nat
             /\ Gots(rs, o, l)[r] = GotOf(rs[r], o, l) /\ GotOf(rs[r], o, l) \in Nat
             /\ Backs(rs, o, l)[r] = BackOf(rs[r], o, l) /\ BackOf(rs[r], o, l) \in Nat
  BY DEF Claims, ClaimOf, Gots, GotOf, Backs, BackOf, ReturnRows
<1>2. Total(Claims(rs, o, l)) \in Nat
  BY <1>1, SumNat, ReturnsAssumption DEF Total
<1>3. Total(Gots(rs, o, l)) \in Nat
  BY <1>1, SumNat, ReturnsAssumption DEF Total
<1>4. Total(Backs(rs, o, l)) \in Nat
  BY <1>1, SumNat, ReturnsAssumption DEF Total
<1> QED BY <1>1, <1>2, <1>3, <1>4, ReturnsAssumption

\* One row is written.
Only(rs, qs, r) == \A q \in Returns : q # r => qs[q] = rs[q]

LEMMA ReturnWritten ==
    ASSUME NEW rs \in [Returns -> ReturnRows], NEW qs \in [Returns -> ReturnRows], NEW r \in Returns, Only(rs, qs, r), NEW o, NEW l \in Lines
    PROVE  /\ Total(Claims(qs, o, l)) = Total(Claims(rs, o, l)) - ClaimOf(rs[r], o, l) + ClaimOf(qs[r], o, l)
           /\ Total(Gots(qs, o, l)) = Total(Gots(rs, o, l)) - GotOf(rs[r], o, l) + GotOf(qs[r], o, l)
           /\ Total(Backs(qs, o, l)) = Total(Backs(rs, o, l)) - BackOf(rs[r], o, l) + BackOf(qs[r], o, l)
<1>1. \A q \in Returns : q # r => qs[q] = rs[q]
  BY DEF Only
<1>2. IsFiniteSet(Returns)
  BY ReturnsAssumption
<1> DEFINE Facts(ps) == \A q \in Returns : /\ Claims(ps, o, l)[q] = ClaimOf(ps[q], o, l) /\ ClaimOf(ps[q], o, l) \in Nat
                                            /\ Gots(ps, o, l)[q] = GotOf(ps[q], o, l) /\ GotOf(ps[q], o, l) \in Nat
                                            /\ Backs(ps, o, l)[q] = BackOf(ps[q], o, l) /\ BackOf(ps[q], o, l) \in Nat
<1>3. Facts(rs)
  BY ReturnNumbers
<1>4. Facts(qs)
  BY ReturnNumbers
<1>5. Total(Claims(qs, o, l)) = Total(Claims(rs, o, l)) - ClaimOf(rs[r], o, l) + ClaimOf(qs[r], o, l)
  <2>1. PICK f, g : f = Claims(rs, o, l) /\ g = Claims(qs, o, l)
    OBVIOUS
  <2>2. \A q \in Returns : f[q] = ClaimOf(rs[q], o, l) /\ f[q] \in Int /\ g[q] = ClaimOf(qs[q], o, l) /\ g[q] \in Int
    BY <1>3, <1>4, <2>1
  <2>3. SumFunctionOnSet(g, Returns) = SumFunctionOnSet(f, Returns) - f[r] + g[r]
    BY <1>1, <1>2, <2>2, SumChanged
  <2> QED BY <1>1, <2>1, <2>2, <2>3 DEF Total
<1>6. Total(Gots(qs, o, l)) = Total(Gots(rs, o, l)) - GotOf(rs[r], o, l) + GotOf(qs[r], o, l)
  <2>1. PICK f, g : f = Gots(rs, o, l) /\ g = Gots(qs, o, l)
    OBVIOUS
  <2>2. \A q \in Returns : f[q] = GotOf(rs[q], o, l) /\ f[q] \in Int /\ g[q] = GotOf(qs[q], o, l) /\ g[q] \in Int
    BY <1>3, <1>4, <2>1
  <2>3. SumFunctionOnSet(g, Returns) = SumFunctionOnSet(f, Returns) - f[r] + g[r]
    BY <1>1, <1>2, <2>2, SumChanged
  <2> QED BY <1>1, <2>1, <2>2, <2>3 DEF Total
<1>7. Total(Backs(qs, o, l)) = Total(Backs(rs, o, l)) - BackOf(rs[r], o, l) + BackOf(qs[r], o, l)
  <2>1. PICK f, g : f = Backs(rs, o, l) /\ g = Backs(qs, o, l)
    OBVIOUS
  <2>2. \A q \in Returns : f[q] = BackOf(rs[q], o, l) /\ f[q] \in Int /\ g[q] = BackOf(qs[q], o, l) /\ g[q] \in Int
    BY <1>3, <1>4, <2>1
  <2>3. SumFunctionOnSet(g, Returns) = SumFunctionOnSet(f, Returns) - f[r] + g[r]
    BY <1>1, <1>2, <2>2, SumChanged
  <2> QED BY <1>1, <2>1, <2>2, <2>3 DEF Total
<1> QED BY <1>1, <1>5, <1>6, <1>7

\* What came back of a line was claimed.
LEMMA GotWithinClaimed ==
    ASSUME NEW rs \in [Returns -> ReturnRows], \A r \in Returns : ReturnSound(rs[r]), NEW o \in Orders, NEW l \in Lines
    PROVE  Total(Gots(rs, o, l)) <= Total(Claims(rs, o, l))
<1>1. PICK f, g : f = Gots(rs, o, l) /\ g = Claims(rs, o, l)
  OBVIOUS
<1>2. ASSUME NEW r \in Returns PROVE f[r] \in Int /\ g[r] \in Int /\ f[r] <= g[r]
  <2>1. f[r] = GotOf(rs[r], o, l) /\ g[r] = ClaimOf(rs[r], o, l) /\ f[r] \in Int /\ g[r] \in Nat
    BY <1>1, ReturnNumbers
  <2>2. CASE rs[r].status \in COUNTED
    BY <2>1, <2>2 DEF GotOf, ClaimOf, ReturnSound
  <2>3. CASE rs[r].status \notin COUNTED
    <3>1. rs[r].got[l] = 0
      BY <2>3 DEF ReturnSound, Nothing, COUNTED
    <3> QED BY <2>1, <3>1 DEF GotOf
  <2> QED BY <2>2, <2>3
<1>3. IsFiniteSet(Returns)
  BY ReturnsAssumption
<1> QED BY <1>1, <1>2, <1>3, SumMonotone DEF Total

\* What the code computes are these sums.
LEMMA SumsAre ==
    ASSUME ReturnsSound(ret), NEW o \in Orders, NEW l \in Lines
    PROVE  /\ Used(o, l) = Total(Claims(ret, o, l))
           /\ Arrived(o, l) = Total(Gots(ret, o, l))
<1>1. ret \in [Returns -> ReturnRows] /\ (\A r \in Returns : ReturnSound(ret[r])) /\ IsFiniteSet(Returns)
  BY ReturnsAssumption DEF ReturnsSound
<1>2. Used(o, l) = Total(Claims(ret, o, l))
  <2>1. PICK f, g, P : f = [r \in Returns |-> ret[r].qty[l]] /\ g = Claims(ret, o, l) /\ P = Of(o, COUNTED)
    OBVIOUS
  <2>2. P \in SUBSET Returns /\ \A r \in Returns : f[r] \in Int /\ g[r] = IF r \in P THEN f[r] ELSE 0
    BY <1>1, <2>1 DEF Claims, ClaimOf, Of, ReturnRows
  <2>3. SumFunctionOnSet(f, P) = SumFunctionOnSet(g, Returns)
    BY <1>1, <2>2, SumOver
  <2> QED BY <2>1, <2>3 DEF Used, Total
<1>3. Arrived(o, l) = Total(Gots(ret, o, l))
  <2>1. PICK f, g, P : f = [r \in Returns |-> ret[r].got[l]] /\ g = Gots(ret, o, l) /\ P = Of(o, {"received", "closed"})
    OBVIOUS
  <2>2. P \in SUBSET Returns /\ \A r \in Returns : f[r] \in Int /\ g[r] = IF r \in P THEN f[r] ELSE 0
    BY <1>1, <2>1 DEF Gots, GotOf, Of, ReturnRows, ReturnSound, Nothing
  <2>3. SumFunctionOnSet(f, P) = SumFunctionOnSet(g, Returns)
    BY <1>1, <2>2, SumOver
  <2> QED BY <2>1, <2>3 DEF Arrived, Total
<1> QED BY <1>2, <1>3

\* A row is written that claims no more than is left, and loses nothing that came back.
LEMMA ReturnsKept ==
    ASSUME NEW rs, ReturnsSound(rs), NEW qs \in [Returns -> ReturnRows], NEW r \in Returns, Only(rs, qs, r), ReturnSound(qs[r]),
           \A o \in Orders, l \in Lines : Total(Claims(rs, o, l)) - ClaimOf(rs[r], o, l) + ClaimOf(qs[r], o, l) <= Bought[l],
           \A o \in Orders, l \in Lines : GotOf(rs[r], o, l) <= GotOf(qs[r], o, l),
           qs[r].resolution = "refunded" => qs[r].order \in Orders /\ \A l \in Lines : Total(Gots(rs, qs[r].order, l)) >= Bought[l]
    PROVE  ReturnsSound(qs)
<1>1. rs \in [Returns -> ReturnRows] /\ Bought \in [Lines -> Nat]
  BY ReturnsAssumption DEF ReturnsSound
<1>2. \A q \in Returns : ReturnSound(qs[q])
  BY DEF ReturnsSound, Only
<1>3. ASSUME NEW o \in Orders, NEW l \in Lines PROVE Total(Claims(qs, o, l)) <= Bought[l]
  BY <1>1, <1>3, ReturnWritten
<1>4. ASSUME NEW o \in Orders, NEW l \in Lines, Total(Gots(rs, o, l)) >= Bought[l] PROVE Total(Gots(qs, o, l)) = Bought[l]
  <2>1. Total(Gots(qs, o, l)) = Total(Gots(rs, o, l)) - GotOf(rs[r], o, l) + GotOf(qs[r], o, l)
    BY <1>1, ReturnWritten
  <2>2. Total(Gots(qs, o, l)) \in Nat /\ GotOf(qs[r], o, l) \in Nat /\ Total(Claims(qs, o, l)) \in Nat
    BY ReturnNumbers
  <2>3. Total(Gots(rs, o, l)) \in Nat /\ GotOf(rs[r], o, l) \in Nat
    BY <1>1, ReturnNumbers
  <2>4. Total(Gots(qs, o, l)) <= Total(Claims(qs, o, l))
    BY <1>2, GotWithinClaimed
  <2>5. Total(Claims(qs, o, l)) <= Bought[l] /\ GotOf(rs[r], o, l) <= GotOf(qs[r], o, l) /\ Bought[l] \in Nat
    BY <1>1, <1>3
  <2> QED BY <1>4, <2>1, <2>2, <2>3, <2>4, <2>5
<1>5. ASSUME NEW q \in Returns, qs[q].resolution = "refunded", NEW l \in Lines PROVE Total(Gots(qs, qs[q].order, l)) = Bought[l]
  <2>1. CASE q = r
    BY <1>4, <1>5, <2>1
  <2>2. CASE q # r
    <3>1. qs[q] = rs[q]
      BY <2>2 DEF Only
    <3>2. rs[q] \in ReturnRows /\ ReturnSound(rs[q]) /\ Total(Gots(rs, rs[q].order, l)) = Bought[l]
      BY <1>1, <1>5, <3>1 DEF ReturnsSound
    <3>3. rs[q].order \in Orders
      BY <1>5, <3>1, <3>2 DEF ReturnSound, ReturnRows
    <3> QED BY <1>1, <1>4, <3>1, <3>2, <3>3
  <2> QED BY <2>1, <2>2
<1> QED BY <1>2, <1>3, <1>5 DEF ReturnsSound

\* The writes of the return service: a return moves on, is made, is received.
MovedTo(rs, r, to, res) == [rs EXCEPT ![r].status = to, ![r].resolution = res]
CreatedIn(rs, r, o, qty) == [rs EXCEPT ![r] = [NoReturn EXCEPT !.order = o, !.status = "requested", !.qty = qty]]
ReceivedIn(rs, r, got, back) == [rs EXCEPT ![r].status = "received", ![r].got = got, ![r].back = back]

\* A return moves on, and its goods stay what they are.
LEMMA MovedReturn ==
    ASSUME NEW rs, ReturnsSound(rs), NEW r \in Returns, NEW to \in {"approved", "rejected", "cancelled", "closed"},
           NEW res \in {"none", "outside", "refunded"},
           rs[r].status \in {"requested", "approved"} \/ (rs[r].status = "received" /\ to = "closed"),
           res = "refunded" => to = "closed" /\ \A l \in Lines : Total(Gots(rs, rs[r].order, l)) >= Bought[l],
           NEW qs, qs = MovedTo(rs, r, to, res)
    PROVE  /\ ReturnsSound(qs) /\ \A q \in Returns : qs[q].order = rs[q].order
           /\ \A o \in Orders, l \in Lines : Total(Backs(qs, o, l)) = Total(Backs(rs, o, l))
<1>1. PICK x : x = [rs[r] EXCEPT !.status = to, !.resolution = res]
  OBVIOUS
<1>2. rs \in [Returns -> ReturnRows] /\ rs[r] \in ReturnRows /\ ReturnSound(rs[r]) /\ Bought \in [Lines -> Nat]
  BY ReturnsAssumption DEF ReturnsSound
<1>3. x \in ReturnRows /\ x.status = to /\ x.resolution = res /\ x.order = rs[r].order /\ x.qty = rs[r].qty /\ x.got = rs[r].got /\ x.back = rs[r].back
  BY <1>1, <1>2 DEF ReturnRows, COUNTED
<1>4. rs[r].order \in Orders /\ rs[r].status \in COUNTED
  BY <1>2 DEF ReturnSound, ReturnRows, COUNTED
<1>5. ReturnSound(x)
  BY <1>2, <1>3, <1>4, OrdersAssumption DEF ReturnSound, ReturnRows
<1>6. PICK ps : ps = [rs EXCEPT ![r] = x]
  OBVIOUS
<1>7. qs = ps
  BY <1>1, <1>2, <1>6 DEF MovedTo
<1>8. ps \in [Returns -> ReturnRows] /\ ps[r] = x /\ Only(rs, ps, r)
  BY <1>2, <1>3, <1>6 DEF Only
<1>9. ASSUME NEW o \in Orders, NEW l \in Lines
      PROVE  /\ GotOf(x, o, l) = GotOf(rs[r], o, l) /\ BackOf(x, o, l) = BackOf(rs[r], o, l) /\ ClaimOf(x, o, l) <= ClaimOf(rs[r], o, l)
             /\ ClaimOf(x, o, l) \in Nat
  <2>1. GotOf(x, o, l) = GotOf(rs[r], o, l) /\ BackOf(x, o, l) = BackOf(rs[r], o, l)
    BY <1>3 DEF GotOf, BackOf
  <2>2. x.qty[l] \in Nat /\ x.qty[l] = rs[r].qty[l]
    BY <1>3 DEF ReturnRows
  <2> QED BY <1>3, <1>4, <2>1, <2>2 DEF ClaimOf
<1>10. ASSUME NEW o \in Orders, NEW l \in Lines
       PROVE  /\ Total(Claims(rs, o, l)) - ClaimOf(rs[r], o, l) + ClaimOf(ps[r], o, l) <= Bought[l]
              /\ GotOf(rs[r], o, l) <= GotOf(ps[r], o, l)
              /\ Total(Backs(ps, o, l)) = Total(Backs(rs, o, l))
  <2>1. Total(Claims(rs, o, l)) <= Bought[l] /\ Bought[l] \in Nat
    BY <1>2 DEF ReturnsSound
  <2>2. Total(Claims(rs, o, l)) \in Nat /\ ClaimOf(rs[r], o, l) \in Nat /\ GotOf(rs[r], o, l) \in Nat /\ BackOf(rs[r], o, l) \in Nat
        /\ Total(Backs(rs, o, l)) \in Nat
    BY <1>2, ReturnNumbers
  <2>3. Total(Backs(ps, o, l)) = Total(Backs(rs, o, l)) - BackOf(rs[r], o, l) + BackOf(ps[r], o, l)
    BY <1>2, <1>8, ReturnWritten
  <2> QED BY <1>8, <1>9, <2>1, <2>2, <2>3
<1>11. ps[r].resolution = "refunded" => ps[r].order \in Orders /\ \A l \in Lines : Total(Gots(rs, ps[r].order, l)) >= Bought[l]
  BY <1>3, <1>4, <1>8
<1>12. ReturnSound(ps[r])
  BY <1>5, <1>8
<1>13. ReturnsSound(ps)
  <2> HIDE DEF ReturnsSound
  <2> QED BY <1>8, <1>10, <1>11, <1>12, ReturnsKept
<1>14. \A q \in Returns : ps[q].order = rs[q].order
  BY <1>3, <1>8 DEF Only
<1> QED BY <1>7, <1>10, <1>13, <1>14

\* A new return claims at most what is left of each line.
LEMMA CreatedReturn ==
    ASSUME NEW rs, ReturnsSound(rs), NEW r \in Returns, rs[r] = NoReturn, NEW o \in Orders, NEW qty \in [Lines -> Nat],
           \A l \in Lines : qty[l] + Total(Claims(rs, o, l)) <= Bought[l],
           NEW qs, qs = CreatedIn(rs, r, o, qty)
    PROVE  /\ ReturnsSound(qs) /\ \A q \in Returns : qs[q].order \in {rs[q].order, o}
           /\ \A p \in Orders, l \in Lines : Total(Backs(qs, p, l)) = Total(Backs(rs, p, l))
<1>1. PICK x : x = [NoReturn EXCEPT !.order = o, !.status = "requested", !.qty = qty]
  OBVIOUS
<1>2. rs \in [Returns -> ReturnRows] /\ Bought \in [Lines -> Nat]
  BY ReturnsAssumption DEF ReturnsSound
<1>3. Nothing \in [Lines -> Nat] /\ \A l \in Lines : Nothing[l] = 0
  BY DEF Nothing
<1>4. x \in ReturnRows /\ x.order = o /\ x.status = "requested" /\ x.qty = qty /\ x.got = Nothing /\ x.back = Nothing /\ x.resolution = "none"
  BY <1>1, <1>3 DEF ReturnRows, NoReturn, COUNTED
<1>5. ReturnSound(x)
  BY <1>3, <1>4, OrdersAssumption DEF ReturnSound
<1>6. PICK ps : ps = qs
  OBVIOUS
<1>7. ps \in [Returns -> ReturnRows] /\ ps[r] = x /\ Only(rs, ps, r)
  BY <1>1, <1>2, <1>4, <1>6 DEF Only, CreatedIn
<1>8. ASSUME NEW p \in Orders, NEW l \in Lines
      PROVE  /\ GotOf(rs[r], p, l) = 0 /\ BackOf(rs[r], p, l) = 0 /\ ClaimOf(rs[r], p, l) = 0
             /\ GotOf(x, p, l) = 0 /\ BackOf(x, p, l) = 0 /\ ClaimOf(x, p, l) = IF p = o THEN qty[l] ELSE 0
  <2>1. rs[r].order # p
    BY OrdersAssumption DEF NoReturn
  <2> QED BY <1>3, <1>4, <2>1 DEF GotOf, BackOf, ClaimOf, COUNTED
<1>9. ASSUME NEW p \in Orders, NEW l \in Lines
      PROVE  /\ Total(Claims(rs, p, l)) - ClaimOf(rs[r], p, l) + ClaimOf(ps[r], p, l) <= Bought[l]
             /\ GotOf(rs[r], p, l) <= GotOf(ps[r], p, l)
             /\ Total(Backs(ps, p, l)) = Total(Backs(rs, p, l))
  <2>1. Total(Claims(rs, p, l)) <= Bought[l] /\ Bought[l] \in Nat /\ qty[l] \in Nat /\ qty[l] + Total(Claims(rs, o, l)) <= Bought[l]
    BY <1>2 DEF ReturnsSound
  <2>2. Total(Claims(rs, p, l)) \in Nat /\ Total(Backs(rs, p, l)) \in Nat
    BY <1>2, ReturnNumbers
  <2>3. Total(Backs(ps, p, l)) = Total(Backs(rs, p, l)) - BackOf(rs[r], p, l) + BackOf(ps[r], p, l)
    BY <1>2, <1>7, ReturnWritten
  <2> HIDE DEF ReturnsSound
  <2> QED BY <1>7, <1>8, <2>1, <2>2, <2>3
<1>10. ReturnSound(ps[r]) /\ ps[r].resolution # "refunded"
  BY <1>4, <1>5, <1>7
<1>11. ReturnsSound(ps)
  BY <1>7, <1>9, <1>10, ReturnsKept
<1>12. \A q \in Returns : ps[q].order \in {rs[q].order, o}
  BY <1>4, <1>7 DEF Only
<1> QED BY <1>6, <1>9, <1>11, <1>12

\* A return is received: what arrived of it is at most what was asked for, and what goes back in stock is new.
LEMMA ReceivedReturn ==
    ASSUME NEW rs, ReturnsSound(rs), NEW r \in Returns, rs[r].status = "approved", NEW got \in [Lines -> Nat], NEW back \in [Lines -> Nat],
           \A l \in Lines : got[l] <= rs[r].qty[l],
           NEW qs, qs = ReceivedIn(rs, r, got, back)
    PROVE  /\ ReturnsSound(qs) /\ \A q \in Returns : qs[q].order = rs[q].order
           /\ \A o \in Orders, l \in Lines : Total(Backs(qs, o, l)) = Total(Backs(rs, o, l)) + (IF o = rs[r].order THEN back[l] ELSE 0)
<1>1. PICK x : x = [rs[r] EXCEPT !.status = "received", !.got = got, !.back = back]
  OBVIOUS
<1>2. rs \in [Returns -> ReturnRows] /\ rs[r] \in ReturnRows /\ ReturnSound(rs[r]) /\ Bought \in [Lines -> Nat]
  BY ReturnsAssumption DEF ReturnsSound
<1>3. x \in ReturnRows /\ x.status = "received" /\ x.resolution = rs[r].resolution /\ x.order = rs[r].order /\ x.qty = rs[r].qty /\ x.got = got /\ x.back = back
  BY <1>1, <1>2 DEF ReturnRows, COUNTED
<1>4. rs[r].order \in Orders /\ rs[r].status \in COUNTED /\ rs[r].resolution # "refunded" /\ rs[r].got = Nothing /\ rs[r].back = Nothing
  BY <1>2 DEF ReturnSound, ReturnRows, COUNTED
<1>5. ReturnSound(x)
  BY <1>2, <1>3, <1>4, OrdersAssumption DEF ReturnSound
<1>6. PICK ps : ps = [rs EXCEPT ![r] = x]
  OBVIOUS
<1>7. qs = ps
  BY <1>1, <1>2, <1>6 DEF ReceivedIn
<1>8. ps \in [Returns -> ReturnRows] /\ ps[r] = x /\ Only(rs, ps, r)
  BY <1>2, <1>3, <1>6 DEF Only
<1>9. ASSUME NEW o \in Orders, NEW l \in Lines
      PROVE  /\ GotOf(rs[r], o, l) = 0 /\ GotOf(x, o, l) \in Nat /\ BackOf(rs[r], o, l) = 0
             /\ BackOf(x, o, l) = (IF o = rs[r].order THEN back[l] ELSE 0) /\ ClaimOf(x, o, l) = ClaimOf(rs[r], o, l)
  <2>1. Nothing[l] = 0
    BY DEF Nothing
  <2>2. ClaimOf(x, o, l) = ClaimOf(rs[r], o, l)
    BY <1>3, <1>4 DEF ClaimOf, COUNTED
  <2> QED BY <1>3, <1>4, <2>1, <2>2 DEF GotOf, BackOf
<1>10. ASSUME NEW o \in Orders, NEW l \in Lines
       PROVE  /\ Total(Claims(rs, o, l)) - ClaimOf(rs[r], o, l) + ClaimOf(ps[r], o, l) <= Bought[l]
              /\ GotOf(rs[r], o, l) <= GotOf(ps[r], o, l)
              /\ Total(Backs(ps, o, l)) = Total(Backs(rs, o, l)) + (IF o = rs[r].order THEN back[l] ELSE 0)
  <2>1. Total(Claims(rs, o, l)) <= Bought[l] /\ Bought[l] \in Nat /\ back[l] \in Nat
    BY <1>2 DEF ReturnsSound
  <2>2. Total(Claims(rs, o, l)) \in Nat /\ ClaimOf(rs[r], o, l) \in Nat /\ Total(Backs(rs, o, l)) \in Nat
    BY <1>2, ReturnNumbers
  <2>3. Total(Backs(ps, o, l)) = Total(Backs(rs, o, l)) - BackOf(rs[r], o, l) + BackOf(ps[r], o, l)
    BY <1>2, <1>8, ReturnWritten
  <2> QED BY <1>8, <1>9, <2>1, <2>2, <2>3
<1>11. ReturnSound(ps[r]) /\ ps[r].resolution # "refunded"
  BY <1>3, <1>4, <1>5, <1>8
<1>12. ReturnsSound(ps)
  BY <1>8, <1>10, <1>11, ReturnsKept
<1>13. \A q \in Returns : ps[q].order = rs[q].order
  BY <1>3, <1>8 DEF Only
<1> QED BY <1>7, <1>10, <1>12, <1>13

\* A step of the order rows that releases nothing.
LEMMA OrdersOnly ==
    ASSUME GoodsInv, order' \in [Orders -> SoldRows], UNCHANGED <<ret, restocked>>, shipped \subseteq shipped',
           \A o \in Orders : order'[o].released = order[o].released /\ OrderGoods(o)'
    PROVE  GoodsInv'
<1>1. \A o \in Orders : StockBack(o)'
  BY DEF GoodsInv, StockBack
<1> QED BY <1>1 DEF GoodsInv

\* A step of the returns that puts nothing back in stock.
LEMMA ReturnsOnly ==
    ASSUME GoodsInv, ReturnsSound(ret'), UNCHANGED <<order, restocked, shipped>>, \A r \in Returns : ret'[r].order # None => ret'[r].order \in shipped,
           \A o \in Orders, l \in Lines : Total(Backs(ret', o, l)) = Total(Backs(ret, o, l))
    PROVE  GoodsInv'
<1>1. ReturnsSound(ret)'
  BY DEF ReturnsSound, Total, Claims, Gots, ClaimOf, GotOf
<1>2. \A o \in Orders : StockBack(o)'
  BY DEF GoodsInv, StockBack, Total, Backs, BackOf
<1>3. \A o \in Orders : OrderGoods(o)'
  BY DEF GoodsInv, OrderGoods
<1> QED BY <1>1, <1>2, <1>3 DEF GoodsInv

LEMMA GoodsStill == ASSUME GoodsInv, UNCHANGED <<order, ret, restocked, shipped>> PROVE GoodsInv'
<1>1. order' \in [Orders -> SoldRows] /\ \A o \in Orders : order'[o].released = order[o].released /\ OrderGoods(o)'
  BY DEF GoodsInv, OrderGoods
<1> QED BY <1>1, OrdersOnly

\* One order row is written.
LEMMA OrderOnly ==
    ASSUME GoodsInv, NEW o \in Orders, NEW x \in SoldRows, order' = [order EXCEPT ![o] = x], UNCHANGED <<ret, restocked>>,
           shipped' \in {shipped, shipped \cup {o}}, x.released = order[o].released,
           x.status = "fulfilled" => o \in shipped', x.status = "paid" => o \notin shipped',
           x.released => x.status = "refunded" /\ o \notin shipped', x.refund = "requested" => x.status \in {"paid", "fulfilled"}
    PROVE  GoodsInv'
<1>1. order \in [Orders -> SoldRows] /\ \A p \in Orders : OrderGoods(p)
  BY DEF GoodsInv
<1>2. order' \in [Orders -> SoldRows] /\ order'[o] = x /\ \A p \in Orders : p # o => order'[p] = order[p]
  BY <1>1
<1>3. ASSUME NEW p \in Orders PROVE order'[p].released = order[p].released /\ OrderGoods(p)'
  <2>1. CASE p = o
    BY <1>2, <2>1 DEF OrderGoods
  <2>2. CASE p # o
    <3>1. order'[p] = order[p] /\ (p \in shipped' <=> p \in shipped) /\ OrderGoods(p)
      BY <1>1, <1>2, <2>2
    <3> QED BY <3>1 DEF OrderGoods
  <2> QED BY <2>1, <2>2
<1>4. shipped \subseteq shipped'
  OBVIOUS
<1> QED BY <1>2, <1>3, <1>4, OrdersOnly

\* A dispatched order is shipped.
LEMMA DispatchGoods ==
    ASSUME GoodsInv, NEW o \in Orders, order[o].status = "paid", Dispatched(o), UNCHANGED <<ret, restocked>>
    PROVE  GoodsInv'
<1>1. order \in [Orders -> SoldRows] /\ OrderGoods(o) /\ order[o] \in SoldRows
  BY DEF GoodsInv
<1>2. PICK x : x = [order[o] EXCEPT !.status = "fulfilled"]
  OBVIOUS
<1>3. x \in SoldRows /\ x.status = "fulfilled" /\ x.released = order[o].released /\ x.refund = order[o].refund
  BY <1>1, <1>2 DEF SoldRows, OrderStatus
<1>4. order' = [order EXCEPT ![o] = x] /\ shipped' = shipped \cup {o}
  BY <1>1, <1>2 DEF Dispatched
<1>5. ~order[o].released
  BY <1>1 DEF OrderGoods
<1> QED BY <1>3, <1>4, <1>5, OrderOnly

\* A refund is asked for.
LEMMA RefundAskedGoods ==
    ASSUME GoodsInv, NEW o \in Orders, NEW cancels \in BOOLEAN, RefundRequested(o, cancels), UNCHANGED <<ret, restocked, shipped>>
    PROVE  GoodsInv'
<1>1. order \in [Orders -> SoldRows] /\ OrderGoods(o) /\ order[o] \in SoldRows /\ order[o].status \in {"paid", "fulfilled"}
  BY DEF GoodsInv, RefundRequested
<1>2. CASE UNCHANGED order
  BY <1>2, GoodsStill
<1>3. CASE order' # order
  <2>1. PICK k : k = order[o].refunds + 1
    OBVIOUS
  <2>2. PICK x : x = [order[o] EXCEPT !.refund = "requested", !.cancels = cancels, !.refunds = k]
    OBVIOUS
  <2>3. order' = [order EXCEPT ![o] = x]
    BY <1>1, <1>3, <2>1, <2>2 DEF RefundRequested
  <2>4. k \in Nat
    BY <1>1, <2>1 DEF SoldRows
  <2>5. x \in SoldRows
    BY <1>1, <2>2, <2>4 DEF SoldRows
  <2>6. x.status = order[o].status /\ x.released = order[o].released
    BY <1>1, <2>2 DEF SoldRows
  <2> QED BY <1>1, <2>3, <2>5, <2>6, OrderOnly DEF OrderGoods
<1> QED BY <1>2, <1>3

\* A refund that fails leaves the goods alone.
LEMMA FailGoods == ASSUME GoodsInv, NEW o \in Orders, FailRefund(o) PROVE GoodsInv'
<1>1. order \in [Orders -> SoldRows] /\ OrderGoods(o) /\ order[o] \in SoldRows
  BY DEF GoodsInv
<1>2. PICK x : x = [order[o] EXCEPT !.refund = "failed"]
  OBVIOUS
<1>3. x \in SoldRows /\ x.status = order[o].status /\ x.released = order[o].released /\ x.refund = "failed"
  BY <1>1, <1>2 DEF SoldRows
<1>4. order' = [order EXCEPT ![o] = x] /\ UNCHANGED <<ret, restocked, shipped>>
  BY <1>1, <1>2 DEF FailRefund
<1> QED BY <1>1, <1>3, <1>4, OrderOnly DEF OrderGoods

\* A refund that is confirmed releases the units only of an order that was never shipped, once.
LEMMA ConfirmGoods == ASSUME GoodsInv, NEW o \in Orders, ConfirmRefund(o) PROVE GoodsInv'
<1>1. order \in [Orders -> SoldRows] /\ OrderGoods(o) /\ order[o] \in SoldRows /\ order[o].refund = "requested"
      /\ order[o].status \in {"paid", "fulfilled"} /\ ~order[o].released /\ UNCHANGED <<ret, shipped>>
  BY DEF GoodsInv, OrderGoods, ConfirmRefund
<1>2. PICK x : x = [order[o] EXCEPT !.refund = "succeeded", !.status = "refunded", !.released = order[o].released \/ Releases(o)]
  OBVIOUS
<1>3. order' = [order EXCEPT ![o] = x]
  BY <1>1, <1>2 DEF ConfirmRefund
<1>4. Releases(o) \in BOOLEAN /\ (Releases(o) => o \notin shipped)
  <2>1. order[o].cancels \in BOOLEAN
    BY <1>1 DEF SoldRows
  <2> QED BY <1>1, <2>1 DEF Releases, OrderGoods
<1>5. x \in SoldRows /\ x.status = "refunded" /\ x.refund = "succeeded" /\ (x.released <=> Releases(o)) /\ x.released \in BOOLEAN
  <2>1. PICK b \in BOOLEAN : b = (order[o].released \/ Releases(o))
    BY <1>1, <1>4 DEF SoldRows
  <2>2. x = [order[o] EXCEPT !.refund = "succeeded", !.status = "refunded", !.released = b]
    BY <1>2, <2>1
  <2>3. x \in SoldRows /\ x.status = "refunded" /\ x.refund = "succeeded" /\ x.released = b
    BY <1>1, <2>2 DEF SoldRows, OrderStatus
  <2>4. b <=> Releases(o)
    BY <1>1, <2>1
  <2> QED BY <2>3, <2>4
<1>6. CASE ~Releases(o)
  <2>1. restocked' = restocked /\ ~x.released
    BY <1>5, <1>6 DEF ConfirmRefund
  <2>2. x.released = order[o].released
    BY <1>1, <1>5, <2>1 DEF SoldRows
  <2> QED BY <1>1, <1>3, <1>5, <2>1, <2>2, OrderOnly
<1>7. CASE Releases(o)
  <2>1. restocked' = [restocked EXCEPT ![o] = Bought] /\ restocked \in [Orders -> [Lines -> Int]] /\ Bought \in [Lines -> Nat]
    BY <1>1, <1>7, ReturnsAssumption DEF ConfirmRefund, GoodsInv
  <2>2. order' \in [Orders -> SoldRows] /\ order'[o] = x /\ \A p \in Orders : p # o => order'[p] = order[p]
    BY <1>1, <1>3, <1>5
  <2>3. restocked' \in [Orders -> [Lines -> Int]] /\ restocked'[o] = Bought /\ \A p \in Orders : p # o => restocked'[p] = restocked[p]
    BY <2>1
  <2>4. ASSUME NEW p \in Orders PROVE OrderGoods(p)' /\ StockBack(p)'
    <3>1. CASE p = o
      BY <1>1, <1>4, <1>5, <1>7, <2>2, <2>3, <3>1 DEF OrderGoods, StockBack
    <3>2. CASE p # o
      <4>1. OrderGoods(p) /\ StockBack(p)
        BY DEF GoodsInv
      <4> QED BY <1>1, <2>2, <2>3, <3>2, <4>1 DEF OrderGoods, StockBack
    <3> QED BY <3>1, <3>2
  <2> QED BY <1>1, <2>2, <2>3, <2>4 DEF GoodsInv
<1> QED BY <1>6, <1>7

\* A customer asks for a return.
LEMMA CreateGoods == ASSUME GoodsInv, NEW r \in Returns, NEW o \in Orders, NEW qty \in Wishes, CreateReturn(r, o, qty) PROVE GoodsInv'
<1>1. ReturnsSound(ret) /\ ret[r] = NoReturn /\ qty \in [Lines -> Nat] /\ OrderGoods(o) /\ order[o].status = "fulfilled"
      /\ UNCHANGED <<order, restocked, shipped>>
  BY DEF GoodsInv, CreateReturn, Eligible, Wishes
<1>2. \A l \in Lines : qty[l] + Total(Claims(ret, o, l)) <= Bought[l]
  BY <1>1, SumsAre DEF CreateReturn
<1>3. PICK qs : qs = ret'
  OBVIOUS
<1>4. qs = CreatedIn(ret, r, o, qty)
  BY <1>3 DEF CreateReturn, CreatedIn
<1>5. ReturnsSound(qs) /\ (\A q \in Returns : qs[q].order \in {ret[q].order, o})
      /\ \A p \in Orders, l \in Lines : Total(Backs(qs, p, l)) = Total(Backs(ret, p, l))
  BY <1>1, <1>2, <1>4, CreatedReturn
<1>6. o \in shipped
  BY <1>1 DEF OrderGoods
<1>7. \A q \in Returns : qs[q].order # None => qs[q].order \in shipped
  BY <1>5, <1>6 DEF GoodsInv
<1> QED BY <1>1, <1>3, <1>5, <1>7, ReturnsOnly

\* A return moves on.
LEMMA MoveGoods ==
    ASSUME GoodsInv, NEW r \in Returns, NEW from, NEW to \in {"approved", "rejected", "cancelled", "closed"}, NEW res \in {"none", "outside"},
           \A s \in from : s \in {"requested", "approved"} \/ (s = "received" /\ to = "closed"),
           MoveReturn(r, from, to, res)
    PROVE  GoodsInv'
<1>1. PICK qs : qs = ret'
  OBVIOUS
<1>2. /\ ret[r].status \in {"requested", "approved"} \/ (ret[r].status = "received" /\ to = "closed")
      /\ qs = MovedTo(ret, r, to, res) /\ UNCHANGED <<order, restocked, shipped>>
  BY <1>1 DEF MoveReturn, MovedTo
<1>3. ReturnsSound(ret) /\ \A q \in Returns : ret[q].order # None => ret[q].order \in shipped
  BY DEF GoodsInv
<1>4. ReturnsSound(qs) /\ (\A q \in Returns : qs[q].order = ret[q].order)
      /\ \A o \in Orders, l \in Lines : Total(Backs(qs, o, l)) = Total(Backs(ret, o, l))
  BY <1>2, <1>3, MovedReturn
<1> QED BY <1>1, <1>2, <1>3, <1>4, ReturnsOnly

\* The return of all of an order is closed with its refund.
LEMMA RefundGoods == ASSUME GoodsInv, NEW r \in Returns, RefundReturn(r) PROVE GoodsInv'
<1>1. PICK qs, o : qs = ret' /\ o = ret[r].order
  OBVIOUS
<1>2. ReturnsSound(ret) /\ (\A q \in Returns : ret[q].order # None => ret[q].order \in shipped) /\ ret[r] \in ReturnRows /\ ReturnSound(ret[r])
  BY DEF GoodsInv, ReturnsSound
<1>3. ret[r].status = "received" /\ o \in Orders
  BY <1>1, <1>2 DEF RefundReturn, ReturnSound, ReturnRows
<1>4. qs = MovedTo(ret, r, "closed", "refunded") /\ UNCHANGED <<restocked, shipped>> /\ RefundRequested(o, FALSE)
  BY <1>1 DEF RefundReturn, MovedTo
<1>5. \A l \in Lines : Total(Gots(ret, o, l)) >= Bought[l]
  <2>1. EverythingBack(o)
    BY <1>1 DEF RefundReturn
  <2> QED BY <1>2, <1>3, <2>1, SumsAre DEF EverythingBack
<1>6. ReturnsSound(qs) /\ (\A q \in Returns : qs[q].order = ret[q].order)
      /\ \A p \in Orders, l \in Lines : Total(Backs(qs, p, l)) = Total(Backs(ret, p, l))
  <2>1. PICK to \in {"approved", "rejected", "cancelled", "closed"}, res \in {"none", "outside", "refunded"} : to = "closed" /\ res = "refunded"
    OBVIOUS
  <2> QED BY <1>1, <1>2, <1>3, <1>4, <1>5, <2>1, MovedReturn
<1>7. order \in [Orders -> SoldRows] /\ order' \in [Orders -> SoldRows] /\ \A p \in Orders : order'[p].released = order[p].released /\ OrderGoods(p)'
  <2>1. order \in [Orders -> SoldRows] /\ (\A p \in Orders : OrderGoods(p)) /\ order[o] \in SoldRows /\ order[o].status \in {"paid", "fulfilled"}
    BY <1>3, <1>4 DEF GoodsInv, RefundRequested
  <2>2. CASE UNCHANGED order
    BY <1>4, <2>1, <2>2 DEF OrderGoods
  <2>3. CASE order' # order
    <3>1. PICK k : k = order[o].refunds + 1
      OBVIOUS
    <3>2. PICK x : x = [order[o] EXCEPT !.refund = "requested", !.cancels = FALSE, !.refunds = k]
      OBVIOUS
    <3>3. order' = [order EXCEPT ![o] = x]
      BY <1>4, <2>1, <2>3, <3>1, <3>2 DEF RefundRequested
    <3>4. k \in Nat
      BY <2>1, <3>1 DEF SoldRows
    <3>5. x \in SoldRows
      BY <2>1, <3>2, <3>4 DEF SoldRows
    <3>6. x.status = order[o].status /\ x.released = order[o].released
      BY <2>1, <3>2 DEF SoldRows
    <3>7. order' \in [Orders -> SoldRows] /\ order'[o] = x /\ \A p \in Orders : p # o => order'[p] = order[p]
      BY <1>3, <2>1, <3>3, <3>5
    <3> QED BY <1>4, <2>1, <3>6, <3>7 DEF OrderGoods
  <2> QED BY <2>2, <2>3
<1>8. \A p \in Orders : StockBack(p)'
  <2>1. ASSUME NEW p \in Orders, NEW l \in Lines PROVE restocked'[p][l] = IF order'[p].released THEN Bought[l] ELSE Total(Backs(qs, p, l))
    <3>1. StockBack(p)
      BY DEF GoodsInv
    <3>2. restocked'[p][l] = restocked[p][l] /\ order'[p].released = order[p].released /\ Total(Backs(qs, p, l)) = Total(Backs(ret, p, l))
      BY <1>4, <1>6, <1>7
    <3> QED BY <3>1, <3>2 DEF StockBack
  <2> QED BY <1>1, <2>1 DEF StockBack, Total, Backs, BackOf
<1>9. ReturnsSound(ret)'
  BY <1>1, <1>6 DEF ReturnsSound, Total, Claims, Gots, ClaimOf, GotOf
<1> QED BY <1>1, <1>2, <1>4, <1>6, <1>7, <1>8, <1>9 DEF GoodsInv

\* Goods that arrive go back in stock.
LEMMA ReceiveGoods == ASSUME GoodsInv, NEW r \in Returns, NEW receipt \in Receipts, Receive(r, receipt.got, receipt.sellable) PROVE GoodsInv'
<1>1. PICK qs, o, got, back : qs = ret' /\ o = ret[r].order /\ got = receipt.got /\ back = Restock(receipt.got, receipt.sellable)
  OBVIOUS
<1>2. ReturnsSound(ret) /\ (\A q \in Returns : ret[q].order # None => ret[q].order \in shipped) /\ ret[r] \in ReturnRows /\ ReturnSound(ret[r])
      /\ order \in [Orders -> SoldRows] /\ restocked \in [Orders -> [Lines -> Int]] /\ \A p \in Orders : OrderGoods(p) /\ StockBack(p)
  BY DEF GoodsInv, ReturnsSound
<1>3. ret[r].status = "approved" /\ o \in Orders /\ o \in shipped
  BY <1>1, <1>2, OrdersAssumption DEF Receive, ReturnSound, ReturnRows
<1>4. got \in [Lines -> Nat] /\ back \in [Lines -> Nat]
  BY <1>1 DEF Receipts, Restock
<1>5. /\ qs = ReceivedIn(ret, r, got, back) /\ UNCHANGED <<order, shipped>> /\ \A l \in Lines : got[l] <= ret[r].qty[l]
      /\ restocked' = [restocked EXCEPT ![o] = [l \in Lines |-> restocked[o][l] + back[l]]]
  BY <1>1, <1>2, <1>3 DEF Receive, ReceivedIn
<1>6. ReturnsSound(qs) /\ (\A q \in Returns : qs[q].order = ret[q].order)
      /\ \A p \in Orders, l \in Lines : Total(Backs(qs, p, l)) = Total(Backs(ret, p, l)) + (IF p = ret[r].order THEN back[l] ELSE 0)
  <2>1. ReturnsSound(ret) /\ ret[r].status = "approved"
    BY <1>2, <1>3
  <2>2. qs = ReceivedIn(ret, r, got, back) /\ \A l \in Lines : got[l] <= ret[r].qty[l]
    BY <1>5
  <2> QED BY <1>4, <2>1, <2>2, ReceivedReturn
<1>7. restocked' \in [Orders -> [Lines -> Int]] /\ (\A p \in Orders : p # o => restocked'[p] = restocked[p])
      /\ \A l \in Lines : restocked'[o][l] = restocked[o][l] + back[l]
  BY <1>2, <1>3, <1>4, <1>5
<1>8. ASSUME NEW p \in Orders PROVE OrderGoods(p)' /\ StockBack(p)'
  <2>1. OrderGoods(p)'
    BY <1>2, <1>5 DEF OrderGoods
  <2>2. ASSUME NEW l \in Lines PROVE restocked'[p][l] = IF order[p].released THEN Bought[l] ELSE Total(Backs(qs, p, l))
    <3>1. Total(Backs(ret, p, l)) \in Nat /\ back[l] \in Nat /\ restocked[p][l] = IF order[p].released THEN Bought[l] ELSE Total(Backs(ret, p, l))
      BY <1>2, <1>4, ReturnNumbers DEF ReturnsSound, StockBack
    <3>2. CASE p = o
      <4>1. ~order[p].released
        BY <1>2, <1>3, <3>2 DEF OrderGoods
      <4>2. Total(Backs(qs, p, l)) = Total(Backs(ret, p, l)) + back[l]
        BY <1>1, <1>6, <3>2
      <4> QED BY <1>7, <3>1, <3>2, <4>1, <4>2
    <3>3. CASE p # o
      <4>1. Total(Backs(qs, p, l)) = Total(Backs(ret, p, l)) + 0
        BY <1>1, <1>6, <3>3
      <4>2. Total(Backs(qs, p, l)) = Total(Backs(ret, p, l))
        BY <3>1, <4>1
      <4> QED BY <1>7, <3>1, <3>3, <4>2
    <3> QED BY <3>2, <3>3
  <2>3. StockBack(p)'
    BY <1>1, <1>5, <2>2 DEF StockBack, Total, Backs, BackOf
  <2> QED BY <2>1, <2>3
<1>9. ReturnsSound(ret)'
  BY <1>1, <1>6 DEF ReturnsSound, Total, Claims, Gots, ClaimOf, GotOf
<1> QED BY <1>1, <1>2, <1>5, <1>6, <1>7, <1>8, <1>9 DEF GoodsInv

\* At first nothing is shipped or returned.
LEMMA GoodsInitInv == FulfilmentInit => GoodsInv
<1> SUFFICES ASSUME FulfilmentInit PROVE GoodsInv
  OBVIOUS
<1>1. PICK start \in Starts :
        order = [o \in Orders |-> [status |-> IF start[o].buyer = "cancelled" THEN "cancelled" ELSE "paid",
                                   buyer |-> start[o].buyer, kind |-> start[o].kind, released |-> FALSE,
                                   refund |-> "none", cancels |-> FALSE, refunds |-> 0]]
  BY DEF FulfilmentInit
<1>2. order \in [Orders -> SoldRows]
  BY BooksInitInv DEF BooksInv, BooksType
<1>3. ASSUME NEW o \in Orders PROVE OrderGoods(o) /\ ~order[o].released
  BY <1>1 DEF OrderGoods, FulfilmentInit
<1>4. Nothing \in [Lines -> Nat] /\ \A l \in Lines : Nothing[l] = 0
  BY DEF Nothing
<1>5. NoReturn \in ReturnRows /\ ReturnSound(NoReturn) /\ NoReturn.order = None /\ NoReturn.resolution = "none" /\ NoReturn.got = Nothing
      /\ NoReturn.back = Nothing /\ NoReturn.status = "none"
  BY <1>4 DEF NoReturn, ReturnRows, ReturnSound
<1>6. ret \in [Returns -> ReturnRows] /\ \A r \in Returns : ret[r] = NoReturn
  BY <1>5 DEF FulfilmentInit
<1>7. ASSUME NEW o \in Orders, NEW l \in Lines PROVE Total(Claims(ret, o, l)) = 0 /\ Total(Backs(ret, o, l)) = 0
  <2>1. PICK f, g : f = Claims(ret, o, l) /\ g = Backs(ret, o, l)
    OBVIOUS
  <2>2. \A r \in Returns : f[r] = 0 /\ g[r] = 0
    BY <1>5, <1>6, <2>1, OrdersAssumption DEF Claims, ClaimOf, Backs, BackOf
  <2>3. IsFiniteSet(Returns)
    BY ReturnsAssumption
  <2> QED BY <2>1, <2>2, <2>3, SumZero DEF Total
<1>8. ReturnsSound(ret)
  BY <1>5, <1>6, <1>7, ReturnsAssumption DEF ReturnsSound
<1>9. restocked \in [Orders -> [Lines -> Int]] /\ \A o \in Orders : StockBack(o)
  BY <1>3, <1>4, <1>7 DEF FulfilmentInit, StockBack
<1>10. \A r \in Returns : ret[r].order = None
  BY <1>5, <1>6
<1> QED BY <1>2, <1>3, <1>8, <1>9, <1>10 DEF GoodsInv

\* Every step accounts for the goods.
LEMMA GoodsStep == ASSUME GoodsInv, [FulfilmentNext]_fulfilmentVars PROVE GoodsInv'
<1>1. CASE InvoiceEndpoints \/ NewYear \/ UNCHANGED fulfilmentVars
  BY <1>1, GoodsStill DEF InvoiceEndpoints, IssueAsked, IssueFails, AskInvoice, WriteProfile, NewYear, fulfilmentVars
<1>2. CASE ShipmentEndpoints
  <2>1. PICK o \in Orders : AddShipment(o) \/ ShipAndFulfil(o) \/ Deliver(o) \/ DeleteShipment(o)
    BY <1>2 DEF ShipmentEndpoints
  <2>2. CASE ShipAndFulfil(o)
    BY <2>2, DispatchGoods DEF ShipAndFulfil
  <2>3. CASE AddShipment(o) \/ Deliver(o) \/ DeleteShipment(o)
    BY <2>3, GoodsStill DEF AddShipment, Deliver, DeleteShipment
  <2> QED BY <2>1, <2>2, <2>3
<1>3. CASE OrderEndpoints
  <2>1. PICK o \in Orders : FulfilOrder(o) \/ \E cancels \in BOOLEAN : RequestRefund(o, cancels)
    BY <1>3 DEF OrderEndpoints, AdminChangeStatus
  <2>2. CASE FulfilOrder(o)
    BY <2>2, DispatchGoods DEF FulfilOrder
  <2>3. ASSUME NEW cancels \in BOOLEAN, RequestRefund(o, cancels) PROVE GoodsInv'
    BY <2>3, RefundAskedGoods DEF RequestRefund
  <2> QED BY <2>1, <2>2, <2>3
<1>4. ASSUME NEW r \in Returns, CancelReturn(r) \/ Approve(r) \/ Reject(r) \/ Close(r) PROVE GoodsInv'
  <2>1. CASE CancelReturn(r)
    <3>1. PICK to \in {"approved", "rejected", "cancelled", "closed"}, res \in {"none", "outside"} : to = "cancelled" /\ res = "none"
      OBVIOUS
    <3>2. PICK from : from = {"requested", "approved"}
      OBVIOUS
    <3>3. MoveReturn(r, from, to, res)
      BY <2>1, <3>1, <3>2 DEF CancelReturn
    <3>4. \A s \in from : s \in {"requested", "approved"} \/ (s = "received" /\ to = "closed")
      BY <3>1, <3>2
    <3> QED BY <3>3, <3>4, MoveGoods
  <2>2. CASE Approve(r)
    <3>1. PICK to \in {"approved", "rejected", "cancelled", "closed"}, res \in {"none", "outside"} : to = "approved" /\ res = "none"
      OBVIOUS
    <3>2. PICK from : from = {"requested"}
      OBVIOUS
    <3>3. MoveReturn(r, from, to, res)
      BY <2>2, <3>1, <3>2 DEF Approve
    <3>4. \A s \in from : s \in {"requested", "approved"} \/ (s = "received" /\ to = "closed")
      BY <3>1, <3>2
    <3> QED BY <3>3, <3>4, MoveGoods
  <2>3. CASE Reject(r)
    <3>1. PICK to \in {"approved", "rejected", "cancelled", "closed"}, res \in {"none", "outside"} : to = "rejected" /\ res = "none"
      OBVIOUS
    <3>2. PICK from : from = {"requested"}
      OBVIOUS
    <3>3. MoveReturn(r, from, to, res)
      BY <2>3, <3>1, <3>2 DEF Reject
    <3>4. \A s \in from : s \in {"requested", "approved"} \/ (s = "received" /\ to = "closed")
      BY <3>1, <3>2
    <3> QED BY <3>3, <3>4, MoveGoods
  <2>4. CASE Close(r)
    <3>1. PICK to \in {"approved", "rejected", "cancelled", "closed"}, res \in {"none", "outside"} : to = "closed" /\ res = "outside"
      OBVIOUS
    <3>2. PICK from : from = {"approved", "received"}
      OBVIOUS
    <3>3. MoveReturn(r, from, to, res)
      BY <2>4, <3>1, <3>2 DEF Close
    <3>4. \A s \in from : s \in {"requested", "approved"} \/ (s = "received" /\ to = "closed")
      BY <3>1, <3>2
    <3> QED BY <3>3, <3>4, MoveGoods
  <2> QED BY <1>4, <2>1, <2>2, <2>3, <2>4
<1>5. CASE CustomerReturnEndpoints
  BY <1>4, <1>5, CreateGoods DEF CustomerReturnEndpoints
<1>6. CASE AdminReturnEndpoints
  BY <1>4, <1>6, RefundGoods, ReceiveGoods DEF AdminReturnEndpoints
<1>7. CASE Environment
  <2>1. ASSUME NEW o \in Orders, ConfirmRefund(o) \/ FailRefund(o) \/ WindowPasses(o) PROVE GoodsInv'
    <3>1. CASE WindowPasses(o)
      BY <3>1, GoodsStill DEF WindowPasses
    <3> QED BY <2>1, <3>1, ConfirmGoods, FailGoods
  <2> QED BY <1>1, <1>7, <2>1 DEF Environment
<1> QED BY <1>1, <1>2, <1>3, <1>5, <1>6, <1>7 DEF FulfilmentNext

\* What the invariant says of the goods.
LEMMA GoodsSafe == ASSUME GoodsInv PROVE GoodsAccounted
<1>1. ReturnsSound(ret) /\ ret \in [Returns -> ReturnRows] /\ (\A r \in Returns : ReturnSound(ret[r])) /\ IsFiniteSet(Returns)
  BY ReturnsAssumption DEF GoodsInv, ReturnsSound
<1>2. ReturnedWithinBought
  <2> SUFFICES ASSUME NEW o \in Orders, NEW l \in Lines
               PROVE  SumFunctionOnSet([r \in Returns |-> ret[r].qty[l]],
                                       {r \in Returns : ret[r].order = o /\ ret[r].status \notin {"rejected", "cancelled"}}) <= Bought[l]
    BY DEF ReturnedWithinBought
  <2>1. {r \in Returns : ret[r].order = o /\ ret[r].status \notin {"rejected", "cancelled"}} = Of(o, COUNTED)
    BY <1>1, OrdersAssumption DEF Of, COUNTED, ReturnSound, ReturnRows
  <2>2. Used(o, l) = Total(Claims(ret, o, l)) /\ Total(Claims(ret, o, l)) <= Bought[l]
    BY <1>1, SumsAre DEF ReturnsSound
  <2> QED BY <2>1, <2>2 DEF Used
<1>3. BackInStockOnce
  <2> SUFFICES ASSUME NEW o \in Orders, NEW l \in Lines
               PROVE  restocked[o][l] = IF order[o].released /\ o \notin shipped THEN Bought[l]
                                        ELSE SumFunctionOnSet([r \in Returns |-> ret[r].back[l]], {r \in Returns : ret[r].order = o})
    BY DEF BackInStockOnce
  <2>1. PICK f, g, P : f = [r \in Returns |-> ret[r].back[l]] /\ g = Backs(ret, o, l) /\ P = {r \in Returns : ret[r].order = o}
    OBVIOUS
  <2>2. P \in SUBSET Returns /\ \A r \in Returns : f[r] \in Int /\ g[r] = IF r \in P THEN f[r] ELSE 0
    BY <1>1, <2>1 DEF Backs, BackOf, ReturnRows
  <2>3. SumFunctionOnSet(f, P) = SumFunctionOnSet(g, Returns)
    BY <1>1, <2>2, SumOver
  <2>4. OrderGoods(o) /\ StockBack(o)
    BY DEF GoodsInv
  <2> QED BY <2>1, <2>3, <2>4 DEF OrderGoods, StockBack, Total
<1>4. RefundedCameBack
  <2> SUFFICES ASSUME NEW r \in Returns, ret[r].resolution = "refunded", NEW l \in Lines
               PROVE  SumFunctionOnSet([q \in Returns |-> ret[q].got[l]], {q \in Returns : ret[q].order = ret[r].order}) = Bought[l]
    BY DEF RefundedCameBack
  <2>1. PICK f, g, P : f = [q \in Returns |-> ret[q].got[l]] /\ g = Gots(ret, ret[r].order, l) /\ P = {q \in Returns : ret[q].order = ret[r].order}
    OBVIOUS
  <2>2. P \in SUBSET Returns /\ \A q \in Returns : f[q] \in Int /\ g[q] = IF q \in P THEN f[q] ELSE 0
    BY <1>1, <2>1 DEF Gots, GotOf, ReturnRows
  <2>3. SumFunctionOnSet(f, P) = SumFunctionOnSet(g, Returns)
    BY <1>1, <2>2, SumOver
  <2>4. Total(g) = Bought[l]
    BY <1>1, <2>1 DEF ReturnsSound
  <2> QED BY <2>1, <2>3, <2>4 DEF Total
<1> QED BY <1>2, <1>3, <1>4 DEF GoodsAccounted

\* However returns, shipments, refunds and cancellations of an order interleave, nothing is returned that was not bought, put back in
\* stock twice, or refunded before it came back: for any number of orders, lines, quantities and returns (return_service.py,
\* lifecycle_service.py).
THEOREM GoodsAreAccounted ==
    /\ FulfilmentSpec => []GoodsAccounted
    /\ Spec => []Fulfilment_GoodsAccounted
<1> DEFINE I == part = "fulfilment" => GoodsInv
<1>1. Init => I
  BY GoodsInitInv DEF Init
<1>2. I /\ [Next]_vars => I'
  BY PartStep, GoodsStep
<1>3. I => Fulfilment_GoodsAccounted
  BY GoodsSafe DEF Fulfilment_GoodsAccounted
<1>4. FulfilmentSpec => []GoodsAccounted
  <2>1. GoodsInv => GoodsAccounted
    BY GoodsSafe
  <2>2. GoodsInv /\ [FulfilmentNext]_fulfilmentVars => GoodsInv'
    BY GoodsStep
  <2> QED BY <2>1, <2>2, GoodsInitInv, PTL DEF FulfilmentSpec
<1>5. Spec => []Fulfilment_GoodsAccounted
  <2> HIDE DEF I
  <2> QED BY <1>1, <1>2, <1>3, PTL DEF Spec
<1> QED BY <1>4, <1>5

-----------------------------------------------------------------------------
(* Products and their variants.                                            *)

\* What a product is sold as, and the rows that are stored.
SaleUnits == {Simple} \cup Values
VariantRows == [status : {"active", "inactive"}, override : Overrides, stock : Nat, moved : BOOLEAN]
PurchaseRows == [status : {"none", "reading", "pending", "paid", "fulfilled", "cancelled"}, cart : Carts \cup {None},
                 lines : SUBSET SaleUnits, back : SUBSET SaleUnits]
Shaped(p) == p = [status |-> p.status, options |-> p.options, price |-> p.price, stock |-> p.stock, from |-> p.from, to |-> p.to]

\* A product and its variants obey the rules of the database, and the stored price range is that of the active variants.
ProductSound(p, vs) ==
    /\ Shaped(p) /\ p.stock \in Nat /\ (p.options => p.stock = 0) /\ vs \in [DOMAIN vs -> VariantRows]
    /\ ActiveVariantRule(p, vs) /\ <<p.from, p.to>> = PriceRange(p, vs)

LinesType ==
    /\ cart \in [Carts -> SUBSET SaleUnits] /\ adding \in [Carts -> SaleUnits \cup {None}]
    /\ orders \in [Purchases -> PurchaseRows] /\ DOMAIN variants \subseteq Values

\* The inductive invariant.
CatalogueInv == ProductSound(product, variants) /\ LinesType /\ LinesFit

\* The price range depends on the price, on whether there are options, and on the status and the override of the variants.
LEMMA RangeSame ==
    ASSUME NEW p, NEW q, NEW vs, NEW ws, q.price = p.price, q.options = p.options, DOMAIN ws = DOMAIN vs,
           \A v \in DOMAIN vs : ws[v].status = vs[v].status /\ ws[v].override = vs[v].override
    PROVE  PriceRange(q, ws) = PriceRange(p, vs) /\ Active(ws) = Active(vs)
<1>1. Active(ws) = Active(vs) /\ Active(vs) \subseteq DOMAIN vs
  BY DEF Active
<1>2. {EffectivePrice(q.price, ws[v]) : v \in Active(ws)} = {EffectivePrice(p.price, vs[v]) : v \in Active(vs)}
  BY <1>1 DEF EffectivePrice
<1> QED BY <1>1, <1>2 DEF PriceRange

\* The summary writes the range of the row it is given, and nothing else.
LEMMA SummaryIsTrue ==
    ASSUME NEW p, NEW vs, Shaped(p), NEW s, s = Summarised(p, vs)
    PROVE  /\ Shaped(s) /\ s.status = p.status /\ s.options = p.options /\ s.price = p.price /\ s.stock = p.stock
           /\ <<s.from, s.to>> = PriceRange(s, vs)
<1>1. PICK a, b : PriceRange(p, vs) = <<a, b>>
  BY DEF PriceRange
<1>2. s = [p EXCEPT !.from = a, !.to = b]
  BY <1>1 DEF Summarised
<1>3. s = [status |-> p.status, options |-> p.options, price |-> p.price, stock |-> p.stock, from |-> a, to |-> b]
  BY <1>2 DEF Shaped
<1>4. PriceRange(s, vs) = PriceRange(p, vs)
  BY <1>3, RangeSame
<1> QED BY <1>1, <1>3, <1>4 DEF Shaped

\* A row that is summarised is sound, if it obeys the rules.
LEMMA SummarySound ==
    ASSUME NEW p, NEW vs, Shaped(p), p.stock \in Nat, p.options => p.stock = 0, vs \in [DOMAIN vs -> VariantRows],
           NEW s, s = Summarised(p, vs), ActiveVariantRule(s, vs)
    PROVE  ProductSound(s, vs) /\ s.options = p.options
  BY SummaryIsTrue DEF ProductSound

\* A change of stock and of the ledger leaves the range and the choice of variants alone.
LEMMA StockSound ==
    ASSUME NEW p, NEW vs, ProductSound(p, vs), NEW n \in Nat, p.options => n = 0, NEW q, q = [p EXCEPT !.stock = n],
           NEW ws, DOMAIN ws = DOMAIN vs, ws \in [DOMAIN vs -> VariantRows],
           \A v \in DOMAIN vs : ws[v].status = vs[v].status /\ ws[v].override = vs[v].override
    PROVE  ProductSound(q, ws) /\ q.options = p.options
<1>1. q = [status |-> p.status, options |-> p.options, price |-> p.price, stock |-> n, from |-> p.from, to |-> p.to]
  BY DEF ProductSound, Shaped
<1>2. PriceRange(q, ws) = PriceRange(p, vs) /\ Active(ws) = Active(vs)
  <2>1. q.price = p.price /\ q.options = p.options
    BY <1>1
  <2> QED BY ONLY <2>1, RangeSame, DOMAIN ws = DOMAIN vs,
                  \A v \in DOMAIN vs : ws[v].status = vs[v].status /\ ws[v].override = vs[v].override
<1> QED BY <1>1, <1>2 DEF ProductSound, Shaped, ActiveVariantRule

\* Lines that stay fit while the product is sold as before, or as more.
LEMMA LinesKept ==
    ASSUME LinesFit, product'.options = product.options, DOMAIN variants \subseteq DOMAIN variants', UNCHANGED <<cart, orders>>
    PROVE  LinesFit'
  BY DEF LinesFit, Fits

\* At first the product is sold as itself.
LEMMA CatalogueInitInv == CatalogueInit => CatalogueInv
<1> SUFFICES ASSUME CatalogueInit PROVE CatalogueInv
  OBVIOUS
<1>1. PICK status \in {"draft", "active"}, price \in Prices, stock \in 0 .. MaxStock : product = NewProduct(status, price, stock)
  BY DEF CatalogueInit
<1>2. DOMAIN variants = {} /\ variants \in [DOMAIN variants -> VariantRows]
  BY DEF CatalogueInit
<1>3. ProductSound(product, variants)
  BY <1>1, <1>2 DEF NewProduct, ProductSound, Shaped, ActiveVariantRule, PriceRange
<1>4. NoOrder \in PurchaseRows
  BY DEF NoOrder, PurchaseRows
<1>5. LinesType
  BY <1>4 DEF CatalogueInit, LinesType
<1>6. LinesFit
  BY DEF CatalogueInit, LinesFit, NoOrder
<1> QED BY <1>3, <1>5, <1>6 DEF CatalogueInv

\* The administration of the product writes a row that is sound, and not its options.
LEMMA ProductWritten ==
    ASSUME CatalogueInv, ProductEndpoints
    PROVE  /\ UNCHANGED <<variants, cart, orders, adding>> /\ ProductSound(product', variants) /\ product'.options = product.options
<1> USE DEF CatalogueInv
<1>1. /\ UNCHANGED <<variants, cart, orders, adding>> /\ ProductSound(product, variants)
  BY DEF ProductEndpoints, ReadForEdit, Archive, UpdateProduct
<1>2. product'.options = product.options /\ ProductSound(product', variants)
  <2>1. CASE ReadForEdit
    BY <1>1, <2>1 DEF ReadForEdit
  <2>2. CASE Archive
    <3>1. product' = [status |-> "archived", options |-> product.options, price |-> product.price, stock |-> product.stock,
                      from |-> product.from, to |-> product.to]
      BY <1>1, <2>2 DEF Archive, ProductSound, Shaped
    <3>2. PriceRange(product', variants) = PriceRange(product, variants)
      BY <3>1, RangeSame
    <3> QED BY <1>1, <3>1, <3>2 DEF ProductSound, Shaped, ActiveVariantRule
  <2>3. ASSUME NEW e \in Edits, UpdateProduct(e) PROVE product'.options = product.options /\ ProductSound(product', variants)
    <3>1. CASE product' = product
      BY <1>1, <3>1
    <3>2. CASE product' = Edited(e) /\ StockRule(Edited(e)) /\ ActiveVariantRule(Edited(e), variants)
      <4>1. PICK s, c, n : /\ s = Column(e.status, edit.row.status, product.status)
                           /\ c = Column(e.price, edit.row.price, product.price)
                           /\ n = Column(e.stock, edit.row.stock, product.stock)
        OBVIOUS
      <4>2. PICK p : p = [status |-> s, options |-> product.options, price |-> c, stock |-> n, from |-> product.from, to |-> product.to]
        OBVIOUS
      <4>3. product' = IF p.price # product.price THEN Summarised(p, variants) ELSE p
        <5>1. p = [product EXCEPT !.status = s, !.price = c, !.stock = n]
          <6>1. PICK a, o, b, m, f, t : product = [status |-> a, options |-> o, price |-> b, stock |-> m, from |-> f, to |-> t]
            BY <1>1 DEF ProductSound, Shaped
          <6>2. p = [status |-> s, options |-> o, price |-> c, stock |-> n, from |-> f, to |-> t]
            BY <4>2, <6>1
          <6>3. PICK x : x = [product EXCEPT !.status = s]
            OBVIOUS
          <6>4. x = [status |-> s, options |-> o, price |-> b, stock |-> m, from |-> f, to |-> t]
            BY <6>1, <6>3
          <6>5. PICK y : y = [x EXCEPT !.price = c]
            OBVIOUS
          <6>6. y = [status |-> s, options |-> o, price |-> c, stock |-> m, from |-> f, to |-> t]
            BY <6>4, <6>5
          <6>7. p = [y EXCEPT !.stock = n]
            BY <6>2, <6>6
          <6> QED BY <6>3, <6>5, <6>7
        <5>2. p = [product EXCEPT !.status = Column(e.status, edit.row.status, @), !.price = Column(e.price, edit.row.price, @),
                                  !.stock = Column(e.stock, edit.row.stock, @)]
          BY <4>1, <5>1
        <5> QED BY <3>2, <5>2 DEF Edited, ProductPriceSummary
      <4>4. n \in Nat /\ Shaped(p) /\ p.price = c /\ p.options = product.options /\ p.stock = n
        BY <1>1, <4>1, <4>2 DEF Column, Edits, ProductSound, Shaped
      <4>5. product'.stock = n /\ product'.options = product.options
        BY <4>3, <4>4, SummaryIsTrue
      <4>6. product.options => n = 0
        BY <3>2, <4>5 DEF StockRule
      <4>7. CASE p.price # product.price
        BY <1>1, <3>2, <4>3, <4>4, <4>6, <4>7, SummarySound DEF ProductSound
      <4>8. CASE p.price = product.price
        <5>1. product' = p
          BY <4>3, <4>8
        <5>2. PriceRange(p, variants) = PriceRange(product, variants)
          BY <4>4, <4>8, RangeSame
        <5> QED BY <1>1, <3>2, <4>2, <4>4, <4>6, <5>1, <5>2 DEF ProductSound
      <4> QED BY <4>5, <4>7, <4>8
    <3> QED BY <2>3, <3>1, <3>2 DEF UpdateProduct
  <2> QED BY <2>1, <2>2, <2>3 DEF ProductEndpoints
<1> QED BY <1>1, <1>2

\* So it keeps the invariant.
LEMMA ProductInv == ASSUME CatalogueInv, ProductEndpoints PROVE CatalogueInv'
<1>1. UNCHANGED <<variants, cart, orders, adding>> /\ ProductSound(product', variants) /\ product'.options = product.options
  BY ProductWritten
<1>2. LinesFit'
  BY <1>1, LinesKept DEF CatalogueInv
<1> QED BY <1>1, <1>2 DEF CatalogueInv, LinesType

\* The variants are replaced, and the range follows.
LEMMA SetVariantsSound ==
    ASSUME CatalogueInv, NEW vs, vs \in [DOMAIN vs -> VariantRows], SetVariants(vs)
    PROVE  product'.options = product.options /\ ProductSound(product', variants') /\ variants' = vs
<1>1. /\ Shaped(product) /\ product.stock \in Nat /\ (product.options => product.stock = 0)
  BY DEF CatalogueInv, ProductSound
<1>2. variants' = vs /\ product' = Summarised(product, vs) /\ ActiveVariantRule(product', vs)
  BY DEF SetVariants, VariantPriceSummary
<1>3. PICK s : s = product'
  OBVIOUS
<1>4. ProductSound(s, vs) /\ s.options = product.options
  BY <1>1, <1>2, <1>3, SummarySound
<1> QED BY <1>2, <1>3, <1>4

\* The options of a product that has no variants are set.
LEMMA SetOptionsInv == ASSUME CatalogueInv, NEW vals \in SUBSET Values, SetOptions(vals) PROVE CatalogueInv'
<1>1. /\ Shaped(product) /\ product.stock \in Nat /\ variants \in [DOMAIN variants -> VariantRows] /\ LinesType /\ LinesFit
      /\ DOMAIN variants = {} /\ (vals # {} => product.stock = 0 /\ ~Referred) /\ UNCHANGED <<variants, cart, orders, adding>>
      /\ product' = WithOptions(product, vals) /\ ActiveVariantRule(product', variants)
  BY DEF CatalogueInv, ProductSound, SetOptions
<1>2. PICK p : p = [product EXCEPT !.options = vals # {}]
  OBVIOUS
<1>3. Shaped(p) /\ p.stock = product.stock /\ (p.options <=> vals # {})
  BY <1>1, <1>2 DEF Shaped
<1>4. product' = Summarised(p, variants)
  BY <1>1, <1>2 DEF WithOptions, ProductPriceSummary
<1>5. ProductSound(product', variants) /\ product'.options = p.options
  BY <1>1, <1>3, <1>4, SummarySound
<1>6. LinesFit'
  <2>1. CASE vals # {}
    BY <1>1, <2>1 DEF Referred, Refers, LinesFit, LinesType, PurchaseRows, SaleUnits
  <2>2. CASE vals = {}
    BY <1>1, <1>3, <1>5, <2>2 DEF LinesFit, Fits
  <2> QED BY <2>1, <2>2
<1> QED BY <1>1, <1>5, <1>6 DEF CatalogueInv, LinesType

\* A product is converted to variants.
LEMMA ConvertInv ==
    ASSUME CatalogueInv, NEW vals \in SUBSET Values, NEW new \in Conversions(vals), Convert(vals, new)
    PROVE  CatalogueInv'
<1>1. PICK q : q = [product EXCEPT !.stock = 0]
  OBVIOUS
<1>2. PICK q2 : q2 = [q EXCEPT !.options = vals # {}]
  OBVIOUS
<1>3. Shaped(q2) /\ q2.stock = 0
  BY <1>1, <1>2 DEF CatalogueInv, ProductSound, Shaped
<1>4. PICK p : p = Summarised(q2, variants)
  OBVIOUS
<1>5. p = WithOptions([product EXCEPT !.stock = 0], vals)
  BY <1>1, <1>2, <1>4 DEF WithOptions, ProductPriceSummary
<1>6. Shaped(p) /\ p.stock = 0
  BY <1>3, <1>4, SummaryIsTrue
<1>7. product' = Summarised(p, new) /\ variants' = new /\ ActiveVariantRule(product', new) /\ UNCHANGED <<orders, adding>>
      /\ OpenOrders = {} /\ cart' = [c \in Carts |-> {}]
  BY <1>5 DEF Convert, VariantPriceSummary
<1>8. new \in [DOMAIN new -> VariantRows]
  <2>1. ASSUME NEW n \in 0 .. MaxStock PROVE Variant("active", None, n) \in VariantRows
    BY DEF Variant, VariantRows, Overrides
  <2> QED BY <2>1 DEF Conversions
<1>9. ProductSound(product', variants')
  BY <1>6, <1>7, <1>8, SummarySound
<1>10. LinesFit'
  BY <1>7 DEF LinesFit, OpenOrders
<1>11. LinesType'
  <2>1. DOMAIN new \subseteq Values
    BY DEF Conversions
  <2> QED BY <1>7, <2>1 DEF CatalogueInv, LinesType
<1> QED BY <1>9, <1>10, <1>11 DEF CatalogueInv

\* A variant is created, changed or deleted.
LEMMA VariantInv ==
    ASSUME CatalogueInv, NEW vs, vs \in [DOMAIN vs -> VariantRows], DOMAIN vs \subseteq Values, SetVariants(vs),
           UNCHANGED <<cart, orders, adding>>, \A u \in (DOMAIN variants) \ DOMAIN vs : ~Refers(u)
    PROVE  CatalogueInv'
<1>1. product'.options = product.options /\ ProductSound(product', variants') /\ variants' = vs
  BY SetVariantsSound
<1>2. LinesFit'
  BY <1>1 DEF CatalogueInv, LinesFit, Fits, Refers
<1> QED BY <1>1, <1>2 DEF CatalogueInv, LinesType

LEMMA CreateVariantInv ==
    ASSUME CatalogueInv, NEW v \in Values, NEW spec \in VariantSpecs, CreateVariant(v, spec)
    PROVE  CatalogueInv'
<1>1. variants \in [DOMAIN variants -> VariantRows] /\ spec \in VariantRows /\ DOMAIN variants \subseteq Values
  <2>1. PICK s \in {"active", "inactive"}, p \in Overrides, n \in 0 .. MaxStock : spec = Variant(s, p, n)
    BY DEF VariantSpecs
  <2>2. spec \in VariantRows
    BY <2>1 DEF Variant, VariantRows
  <2> QED BY <2>2 DEF CatalogueInv, ProductSound, LinesType
<1>2. PICK vs : vs = Plus(variants, v, spec)
  OBVIOUS
<1>3. DOMAIN vs = (DOMAIN variants) \cup {v} /\ vs \in [DOMAIN vs -> VariantRows]
  BY <1>1, <1>2 DEF Plus
<1>4. SetVariants(vs) /\ UNCHANGED <<cart, orders, adding>>
  BY <1>2 DEF CreateVariant
<1> QED BY <1>1, <1>3, <1>4, VariantInv

LEMMA UpdateVariantInv ==
    ASSUME CatalogueInv, NEW v \in Values, NEW status \in {"active", "inactive"}, NEW override \in Overrides,
           UpdateVariant(v, status, override)
    PROVE  CatalogueInv'
<1>1. variants \in [DOMAIN variants -> VariantRows] /\ v \in DOMAIN variants /\ DOMAIN variants \subseteq Values
  BY DEF CatalogueInv, ProductSound, LinesType, UpdateVariant
<1>2. PICK vs : vs = [variants EXCEPT ![v].status = status, ![v].override = override]
  OBVIOUS
<1>3. DOMAIN vs = DOMAIN variants /\ vs \in [DOMAIN vs -> VariantRows]
  BY <1>1, <1>2 DEF VariantRows
<1>4. SetVariants(vs) /\ UNCHANGED <<cart, orders, adding>>
  BY <1>2 DEF UpdateVariant
<1> QED BY <1>1, <1>3, <1>4, VariantInv

LEMMA DeleteVariantInv == ASSUME CatalogueInv, NEW v \in Values, DeleteVariant(v) PROVE CatalogueInv'
<1>1. variants \in [DOMAIN variants -> VariantRows] /\ ~Refers(v) /\ DOMAIN variants \subseteq Values
  BY DEF CatalogueInv, ProductSound, LinesType, DeleteVariant, Unused
<1>2. PICK vs : vs = Restrict(variants, (DOMAIN variants) \ {v})
  OBVIOUS
<1>3. DOMAIN vs = (DOMAIN variants) \ {v} /\ vs \in [DOMAIN vs -> VariantRows]
  BY <1>1, <1>2 DEF Restrict
<1>4. SetVariants(vs) /\ UNCHANGED <<cart, orders, adding>>
  BY <1>2 DEF DeleteVariant
<1> QED BY <1>1, <1>3, <1>4, VariantInv

\* A variant's stock changes: only the stock and the ledger.
LEMMA MovedRow ==
    ASSUME NEW x \in VariantRows, NEW n \in Nat
    PROVE  /\ Moved(x, n) \in VariantRows /\ Moved(x, n).status = x.status /\ Moved(x, n).override = x.override
           /\ Moved(x, n).stock = n
  BY DEF Moved, VariantRows

\* The stock of a unit is adjusted.
LEMMA AdjustStockInv == ASSUME CatalogueInv, NEW u \in SaleUnits, NEW n \in 0 .. MaxStock, AdjustStock(u, n) PROVE CatalogueInv'
<1>1. ProductSound(product, variants) /\ variants \in [DOMAIN variants -> VariantRows] /\ UNCHANGED <<cart, orders, adding>> /\ n \in Nat
      /\ Shaped(product)
  BY DEF CatalogueInv, ProductSound, AdjustStock
<1>2. ProductSound(product', variants') /\ product'.options = product.options /\ DOMAIN variants' = DOMAIN variants
  <2>1. CASE u = Simple
    <3>1. ~product.options /\ product' = [product EXCEPT !.stock = n] /\ variants' = variants
      BY <2>1 DEF AdjustStock
    <3> QED BY <1>1, <3>1, StockSound
  <2>2. CASE u # Simple
    <3>1. u \in DOMAIN variants /\ product' = product /\ variants' = [variants EXCEPT ![u] = Moved(variants[u], n)]
      BY <1>1, <2>2 DEF AdjustStock
    <3>2. PICK x : x = Moved(variants[u], n)
      OBVIOUS
    <3>3. x \in VariantRows /\ x.status = variants[u].status /\ x.override = variants[u].override
      BY <1>1, <3>1, <3>2, MovedRow
    <3>4. PICK ws : ws = variants'
      OBVIOUS
    <3>5. DOMAIN ws = DOMAIN variants /\ ws \in [DOMAIN variants -> VariantRows]
          /\ \A v \in DOMAIN variants : ws[v].status = variants[v].status /\ ws[v].override = variants[v].override
      BY <1>1, <3>1, <3>2, <3>3, <3>4
    <3>6. product = [product EXCEPT !.stock = product.stock] /\ product.stock \in Nat /\ (product.options => product.stock = 0)
      BY <1>1 DEF ProductSound, Shaped
    <3>7. ProductSound(product, ws)
      BY <1>1, <3>5, <3>6, StockSound
    <3> QED BY <3>1, <3>4, <3>5, <3>7
  <2> QED BY <2>1, <2>2
<1>3. LinesFit'
  BY <1>1, <1>2, LinesKept DEF CatalogueInv
<1> QED BY <1>1, <1>2, <1>3 DEF CatalogueInv, LinesType

\* The administration of variants keeps the invariant.
LEMMA VariantsInv == ASSUME CatalogueInv, VariantEndpoints PROVE CatalogueInv'
<1>1. ASSUME NEW v \in Values, AddValue(v) \/ DeleteValue(v) PROVE CatalogueInv'
  <2>1. UNCHANGED <<product, variants, cart, orders, adding>>
    BY <1>1 DEF AddValue, DeleteValue
  <2>2. LinesFit'
    BY <2>1, LinesKept DEF CatalogueInv
  <2> QED BY <2>1, <2>2 DEF CatalogueInv, LinesType
<1> QED BY <1>1, SetOptionsInv, ConvertInv, CreateVariantInv, UpdateVariantInv, DeleteVariantInv, AdjustStockInv
        DEF VariantEndpoints, SaleUnits

\* Units of the lines of an order are sold or put back.
LEMMA AdjustedSound ==
    ASSUME CatalogueInv, NEW S, NEW n \in Int, Adjusted(S, n),
           Simple \in S => ~product.options /\ product.stock + n \in Nat,
           \A v \in DOMAIN variants : v \in S => variants[v].stock + n \in Nat
    PROVE  ProductSound(product', variants') /\ product'.options = product.options /\ DOMAIN variants' = DOMAIN variants
<1>1. ProductSound(product, variants) /\ variants \in [DOMAIN variants -> VariantRows] /\ product.stock \in Nat
      /\ (product.options => product.stock = 0)
  BY DEF CatalogueInv, ProductSound
<1>2. PICK k : k = IF Simple \in S THEN product.stock + n ELSE product.stock
  OBVIOUS
<1>3. k \in Nat /\ (product.options => k = 0)
  BY <1>1, <1>2
<1>4. product' = [product EXCEPT !.stock = k]
  <2>1. CASE Simple \in S
    BY <1>2, <2>1 DEF Adjusted
  <2>2. CASE Simple \notin S
    <3>1. product = [product EXCEPT !.stock = product.stock]
      BY <1>1 DEF ProductSound, Shaped
    <3> QED BY <1>2, <2>2, <3>1 DEF Adjusted
  <2> QED BY <2>1, <2>2
<1>5. PICK ws : ws = variants'
  OBVIOUS
<1>6. DOMAIN ws = DOMAIN variants /\ ws = [v \in DOMAIN variants |->
          IF v \in S THEN Moved(variants[v], variants[v].stock + n) ELSE variants[v]]
  BY <1>5 DEF Adjusted
<1>7. ASSUME NEW v \in DOMAIN variants
      PROVE  ws[v] \in VariantRows /\ ws[v].status = variants[v].status /\ ws[v].override = variants[v].override
  <2>1. CASE v \in S
    <3>1. variants[v] \in VariantRows /\ variants[v].stock + n \in Nat /\ ws[v] = Moved(variants[v], variants[v].stock + n)
      BY <1>1, <1>6, <2>1
    <3> QED BY <3>1, MovedRow
  <2>2. CASE v \notin S
    BY <1>1, <1>6, <2>2
  <2> QED BY <2>1, <2>2
<1>8. ws \in [DOMAIN variants -> VariantRows]
  BY <1>6, <1>7
<1>9. PICK q : q = product'
  OBVIOUS
<1>10. ProductSound(q, ws) /\ q.options = product.options
  BY <1>1, <1>3, <1>4, <1>6, <1>7, <1>8, <1>9, StockSound
<1> QED BY <1>5, <1>6, <1>9, <1>10

\* What is sold can be sold: the unit is one of the product's, and in stock.
LEMMA SellableFits ==
    ASSUME CatalogueInv, NEW u, Sellable(u)
    PROVE  /\ Fits(u)
           /\ u = Simple => ~product.options /\ product.stock - 1 \in Nat
           /\ u \in DOMAIN variants /\ u # Simple => variants[u].stock - 1 \in Nat
<1>1. variants \in [DOMAIN variants -> VariantRows] /\ product.stock \in Nat
  BY DEF CatalogueInv, ProductSound
<1> QED BY <1>1 DEF Sellable, Fits, Active, Stock, VariantRows

\* Carts keep the invariant: a line is stored only for a unit that the product is sold as when it is stored.
LEMMA CartsInv == ASSUME CatalogueInv, CartEndpoints PROVE CatalogueInv'
<1>1. LinesType /\ LinesFit /\ ProductSound(product, variants)
  BY DEF CatalogueInv
<1>2. PICK c \in Carts : AddItem(c) \/ \E u \in SaleUnits : ResolveUnit(c, u) \/ RemoveItem(c, u)
  BY DEF CartEndpoints, SaleUnits
<1>3. UNCHANGED <<product, variants, orders>>
  BY <1>2 DEF AddItem, ResolveUnit, RemoveItem
<1>4. LinesType' /\ \A d \in Carts : \A u \in cart'[d] : Fits(u)
  <2>1. CASE AddItem(c)
    <3>1. ASSUME LineRule(adding[c]) PROVE adding[c] \in SaleUnits /\ Fits(adding[c])
      BY <1>1, <2>1, <3>1 DEF AddItem, LinesType, LineRule, Fits
    <3> QED BY <1>1, <1>3, <2>1, <3>1 DEF AddItem, LinesType, LinesFit
  <2>2. ASSUME NEW u \in SaleUnits, ResolveUnit(c, u) PROVE LinesType' /\ \A d \in Carts : \A w \in cart'[d] : Fits(w)
    BY <1>1, <1>3, <2>2 DEF ResolveUnit, LinesType, LinesFit
  <2>3. ASSUME NEW u \in SaleUnits, RemoveItem(c, u) PROVE LinesType' /\ \A d \in Carts : \A w \in cart'[d] : Fits(w)
    BY <1>1, <1>3, <2>3 DEF RemoveItem, LinesType, LinesFit
  <2> QED BY <1>2, <2>1, <2>2, <2>3
<1>5. LinesFit'
  BY <1>1, <1>3, <1>4 DEF LinesFit, Fits
<1> QED BY <1>1, <1>3, <1>4, <1>5 DEF CatalogueInv

\* An order row is written that may not be cancelled, or whose lines fit; carts only lose lines.
LEMMA PurchaseKept ==
    ASSUME CatalogueInv, ProductSound(product', variants'), product'.options = product.options, DOMAIN variants' = DOMAIN variants,
           NEW o \in Purchases, NEW x \in PurchaseRows, orders' = [orders EXCEPT ![o] = x], UNCHANGED adding,
           cart' \in [Carts -> SUBSET SaleUnits], \A c \in Carts : cart'[c] \subseteq cart[c],
           x.status \in {"pending", "paid"} => \A u \in x.lines : Fits(u)
    PROVE  CatalogueInv'
<1>1. LinesType /\ LinesFit
  BY DEF CatalogueInv
<1>2. \A p \in Purchases : orders'[p] = IF p = o THEN x ELSE orders[p]
  BY <1>1 DEF LinesType
<1>3. \A u : Fits(u) => Fits(u)'
  BY DEF Fits
<1>4. LinesFit'
  BY <1>1, <1>2, <1>3 DEF LinesFit
<1>5. LinesType'
  BY <1>1 DEF LinesType
<1> QED BY <1>4, <1>5 DEF CatalogueInv

\* Orders keep the invariant: what is sold is in stock, and what is put back belongs to the product.
LEMMA PurchasesInv == ASSUME CatalogueInv, PurchaseEndpoints PROVE CatalogueInv'
<1>1. LinesType /\ LinesFit /\ ProductSound(product, variants) /\ NoOrder \in PurchaseRows /\ DOMAIN variants \subseteq Values
      /\ variants \in [DOMAIN variants -> VariantRows] /\ product.stock \in Nat
  BY DEF CatalogueInv, ProductSound, LinesType, NoOrder, PurchaseRows
<1>2. ASSUME NEW o \in Purchases, NEW x \in PurchaseRows, orders' = [orders EXCEPT ![o] = x],
             UNCHANGED <<product, variants, cart, adding>>, x.status \in {"pending", "paid"} => \A u \in x.lines : Fits(u)
      PROVE  CatalogueInv'
  <2>1. ProductSound(product', variants') /\ product'.options = product.options /\ DOMAIN variants' = DOMAIN variants
        /\ cart' \in [Carts -> SUBSET SaleUnits] /\ \A c \in Carts : cart'[c] \subseteq cart[c]
    BY <1>1, <1>2 DEF LinesType
  <2> QED BY <1>2, <2>1, PurchaseKept
<1>3. ASSUME NEW o \in Purchases, NEW c \in Carts, ReadCart(o, c) PROVE CatalogueInv'
  <2>1. PICK x : x = [NoOrder EXCEPT !.status = "reading", !.cart = c, !.back = cart[c]]
    OBVIOUS
  <2>2. x \in PurchaseRows /\ x.status = "reading"
    BY <1>1, <2>1 DEF NoOrder, PurchaseRows, LinesType
  <2> QED BY <1>2, <1>3, <2>1, <2>2 DEF ReadCart
<1>4. ASSUME NEW o \in Purchases, Checkout(o) PROVE CatalogueInv'
  <2>1. orders[o] \in PurchaseRows /\ orders[o].back \subseteq SaleUnits
    BY <1>1 DEF LinesType, PurchaseRows
  <2>2. CASE \A u \in orders[o].back : Sellable(u)
    <3>1. Adjusted(orders[o].back, -1) /\ cart' = [cart EXCEPT ![orders[o].cart] = @ \ orders[o].back] /\ UNCHANGED adding
          /\ orders' = [orders EXCEPT ![o] = [NoOrder EXCEPT !.status = "pending", !.lines = orders[o].back]]
      BY <1>4, <2>2 DEF Checkout
    <3>2. PICK x : x = [NoOrder EXCEPT !.status = "pending", !.lines = orders[o].back]
      OBVIOUS
    <3>3. x \in PurchaseRows /\ x.lines = orders[o].back
      BY <1>1, <2>1, <3>2 DEF NoOrder, PurchaseRows
    <3>4. \A u \in orders[o].back : Fits(u)
      BY <2>2, SellableFits
    <3>5. Simple \in orders[o].back => ~product.options /\ product.stock + (-1) \in Nat
      BY <1>1, <2>2, SellableFits
    <3>6. \A v \in DOMAIN variants : v \in orders[o].back => variants[v].stock + (-1) \in Nat
      <4>1. ASSUME NEW v \in DOMAIN variants, v \in orders[o].back PROVE variants[v].stock + (-1) \in Nat
        <5>1. v # Simple /\ Sellable(v) /\ variants[v].stock \in Nat
          BY <1>1, <2>2, <4>1, ValuesAssumption DEF VariantRows
        <5>2. variants[v].stock - 1 \in Nat
          BY <5>1, SellableFits
        <5> QED BY <5>1, <5>2
      <4> QED BY <4>1
    <3>7. ProductSound(product', variants') /\ product'.options = product.options /\ DOMAIN variants' = DOMAIN variants
      BY <3>1, <3>5, <3>6, AdjustedSound
    <3>8. cart' \in [Carts -> SUBSET SaleUnits] /\ \A c \in Carts : cart'[c] \subseteq cart[c]
      BY <1>1, <3>1 DEF LinesType
    <3> QED BY <3>1, <3>2, <3>3, <3>4, <3>7, <3>8, PurchaseKept
  <2>3. CASE ~ \A u \in orders[o].back : Sellable(u)
    <3>1. orders' = [orders EXCEPT ![o] = NoOrder] /\ UNCHANGED <<product, variants, cart, adding>>
      BY <1>4, <2>3 DEF Checkout
    <3> QED BY <1>1, <1>2, <3>1 DEF NoOrder
  <2> QED BY <2>2, <2>3
<1>5. ASSUME NEW o \in Purchases, Cancel(o) PROVE CatalogueInv'
  <2>1. orders[o] \in PurchaseRows /\ orders[o].status \in {"pending", "paid"} /\ \A u \in orders[o].lines : Fits(u)
    BY <1>1, <1>5 DEF LinesType, LinesFit, Cancel
  <2>2. Adjusted(orders[o].lines, 1) /\ UNCHANGED <<cart, adding>>
        /\ orders' = [orders EXCEPT ![o].status = "cancelled", ![o].back = orders[o].lines]
    BY <1>5 DEF Cancel
  <2>3. PICK x : x = [orders[o] EXCEPT !.status = "cancelled", !.back = orders[o].lines]
    OBVIOUS
  <2>4. x \in PurchaseRows /\ x.status = "cancelled"
    BY <2>1, <2>3 DEF PurchaseRows
  <2>5. orders' = [orders EXCEPT ![o] = x]
    BY <1>1, <2>2, <2>3 DEF LinesType
  <2>6. Simple \in orders[o].lines => ~product.options /\ product.stock + 1 \in Nat
    BY <1>1, <2>1 DEF Fits
  <2>7. \A v \in DOMAIN variants : variants[v].stock + 1 \in Nat
    BY <1>1 DEF VariantRows
  <2>8. ProductSound(product', variants') /\ product'.options = product.options /\ DOMAIN variants' = DOMAIN variants
    BY <2>2, <2>6, <2>7, AdjustedSound
  <2>9. cart' \in [Carts -> SUBSET SaleUnits] /\ \A c \in Carts : cart'[c] \subseteq cart[c]
    BY <1>1, <2>2 DEF LinesType
  <2> QED BY <2>2, <2>4, <2>5, <2>8, <2>9, PurchaseKept
<1>6. ASSUME NEW o \in Purchases, Move(o, "pending", "paid") \/ Move(o, "paid", "fulfilled") PROVE CatalogueInv'
  <2>1. orders[o] \in PurchaseRows /\ orders[o].status \in {"pending", "paid"} /\ \A u \in orders[o].lines : Fits(u)
    BY <1>1, <1>6 DEF LinesType, LinesFit, Move
  <2>2. PICK to \in {"paid", "fulfilled"} : orders' = [orders EXCEPT ![o].status = to] /\ UNCHANGED <<product, variants, cart, adding>>
    BY <1>6 DEF Move
  <2>3. PICK x : x = [orders[o] EXCEPT !.status = to]
    OBVIOUS
  <2>4. x \in PurchaseRows /\ x.lines = orders[o].lines /\ orders' = [orders EXCEPT ![o] = x]
    BY <1>1, <2>1, <2>2, <2>3 DEF PurchaseRows, LinesType
  <2> QED BY <1>2, <2>1, <2>2, <2>4
<1>7. ASSUME NEW o \in Purchases, NEW u \in SaleUnits, Return(o, u) PROVE CatalogueInv'
  <2>1. orders[o] \in PurchaseRows /\ orders[o].status = "fulfilled" /\ Adjusted({u}, 1) /\ StockRule(product')
        /\ orders' = [orders EXCEPT ![o].back = @ \cup {u}] /\ UNCHANGED <<cart, adding>>
    BY <1>1, <1>7 DEF LinesType, Return
  <2>2. PICK x : x = [orders[o] EXCEPT !.back = orders[o].back \cup {u}]
    OBVIOUS
  <2>3. x \in PurchaseRows /\ x.status = "fulfilled" /\ orders' = [orders EXCEPT ![o] = x]
    BY <1>1, <2>1, <2>2 DEF PurchaseRows, LinesType
  <2>4. Simple \in {u} => ~product.options /\ product.stock + 1 \in Nat
    <3>1. ASSUME u = Simple PROVE ~product.options
      <4>1. product' = [product EXCEPT !.stock = product.stock + 1]
        BY <2>1, <3>1 DEF Adjusted
      <4>2. product'.stock = product.stock + 1 /\ product'.options = product.options
        BY <1>1, <4>1 DEF ProductSound, Shaped
      <4> QED BY <1>1, <2>1, <4>2 DEF StockRule
    <3> QED BY <1>1, <3>1
  <2>5. \A v \in DOMAIN variants : variants[v].stock + 1 \in Nat
    BY <1>1 DEF VariantRows
  <2>6. ProductSound(product', variants') /\ product'.options = product.options /\ DOMAIN variants' = DOMAIN variants
    BY <2>1, <2>4, <2>5, AdjustedSound
  <2>7. cart' \in [Carts -> SUBSET SaleUnits] /\ \A c \in Carts : cart'[c] \subseteq cart[c]
    BY <1>1, <2>1 DEF LinesType
  <2> QED BY <2>1, <2>3, <2>6, <2>7, PurchaseKept
<1> QED BY <1>3, <1>4, <1>5, <1>6, <1>7 DEF PurchaseEndpoints, SaleUnits

\* Every step keeps the invariant.
LEMMA CatalogueStep == ASSUME CatalogueInv, [CatalogueNext]_catalogueVars PROVE CatalogueInv'
<1>1. CASE UNCHANGED catalogueVars
  <2>1. UNCHANGED <<product, variants, cart, orders, adding>>
    BY <1>1 DEF catalogueVars
  <2>2. LinesFit'
    BY <2>1, LinesKept DEF CatalogueInv
  <2> QED BY <2>1, <2>2 DEF CatalogueInv, LinesType
<1> QED BY <1>1, ProductInv, VariantsInv, CartsInv, PurchasesInv DEF CatalogueNext

\* What a unit's orders and its ledger say of the stock: a variant without a ledger row has none, an order holds goods only once it is
\* placed, and a variant that was ordered stays.
OrderUnits(o) ==
    /\ orders[o].status \in {"none", "reading"} => orders[o].lines = {}
    /\ orders[o].status \in {"pending", "paid"} => orders[o].back = {}
    /\ \A u \in orders[o].lines : u = Simple \/ u \in DOMAIN variants

UnitsSound ==
    /\ DOMAIN variants # {} => product.options
    /\ \A v \in DOMAIN variants : variants[v].moved \/ variants[v].stock = 0
    /\ \A o \in Purchases : OrderUnits(o)

UnitsInv == CatalogueInv /\ UnitsSound /\ UnitsConserved

\* The stock of the variants, and the units an order holds.
StockOf(vs) == [v \in DOMAIN vs |-> vs[v].stock]
VariantStock(vs) == SumFunctionOnSet(StockOf(vs), DOMAIN vs)
HeldBy(os) == [o \in Purchases |-> Cardinality(os[o].lines \ os[o].back)]

\* Both are numbers.
LEMMA VariantStockFacts ==
    ASSUME NEW vs, vs \in [DOMAIN vs -> VariantRows], DOMAIN vs \subseteq Values
    PROVE  /\ IsFiniteSet(DOMAIN vs) /\ (\A v \in DOMAIN vs : StockOf(vs)[v] = vs[v].stock /\ vs[v].stock \in Nat /\ StockOf(vs)[v] \in Int)
           /\ VariantStock(vs) \in Int /\ (DOMAIN vs = {} => VariantStock(vs) = 0)
<1>1. IsFiniteSet(DOMAIN vs) /\ \A v \in DOMAIN vs : StockOf(vs)[v] = vs[v].stock /\ vs[v].stock \in Nat /\ StockOf(vs)[v] \in Int
  BY ValuesAssumption, FS_Subset DEF StockOf, VariantRows
<1> QED BY <1>1, SumInt DEF VariantStock

LEMMA UnitsFinite == ASSUME NEW S \in SUBSET SaleUnits PROVE IsFiniteSet(S) /\ Cardinality(S) \in Nat
<1>1. IsFiniteSet(Values \cup {Simple}) /\ SaleUnits = Values \cup {Simple}
  BY ValuesAssumption, FS_AddElement DEF SaleUnits
<1> QED BY <1>1, FS_Subset, FS_CardinalityType

LEMMA HeldFacts ==
    ASSUME NEW os \in [Purchases -> PurchaseRows]
    PROVE  /\ IsFiniteSet(Purchases) /\ SumFunctionOnSet(HeldBy(os), Purchases) \in Int
           /\ \A o \in Purchases : HeldBy(os)[o] = Cardinality(os[o].lines \ os[o].back) /\ HeldBy(os)[o] \in Int
<1>1. ASSUME NEW o \in Purchases PROVE HeldBy(os)[o] = Cardinality(os[o].lines \ os[o].back) /\ HeldBy(os)[o] \in Int
  <2>1. os[o].lines \ os[o].back \in SUBSET SaleUnits
    BY DEF PurchaseRows
  <2> QED BY <2>1, UnitsFinite DEF HeldBy
<1> QED BY <1>1, SumInt, PurchasesAssumption

\* The goods that orders hold.
LEMMA SoldIs ==
    /\ Sold = SumFunctionOnSet(HeldBy(orders), Purchases)
    /\ Sold' = SumFunctionOnSet(HeldBy(orders'), Purchases)
  BY DEF Sold, SumFunction, HeldBy

\* What is conserved.
LEMMA UnitsAre ==
    /\ UnitsConserved <=> product.stock + VariantStock(variants) + Sold = supplied
    /\ UnitsConserved' <=> product'.stock + VariantStock(variants') + Sold' = supplied'
  BY DEF UnitsConserved, SumFunction, VariantStock, StockOf

\* The goods that orders hold stay when no order's lines do.
LEMMA SoldSame ==
    ASSUME LinesType, LinesType', \A o \in Purchases : orders'[o].lines \ orders'[o].back = orders[o].lines \ orders[o].back
    PROVE  Sold' = Sold /\ Sold \in Int
<1>1. PICK os : os = orders'
  OBVIOUS
<1>2. orders \in [Purchases -> PurchaseRows] /\ os \in [Purchases -> PurchaseRows]
  BY <1>1 DEF LinesType
<1>3. \A o \in Purchases : HeldBy(os)[o] = HeldBy(orders)[o] /\ HeldBy(orders)[o] \in Int
  BY <1>1, <1>2, HeldFacts
<1>4. IsFiniteSet(Purchases) /\ SumFunctionOnSet(HeldBy(orders), Purchases) \in Int
  BY <1>2, HeldFacts
<1>5. SumFunctionOnSet(HeldBy(os), Purchases) = SumFunctionOnSet(HeldBy(orders), Purchases)
  BY <1>3, <1>4, SumSame
<1> QED BY <1>1, <1>4, <1>5, SoldIs

\* They change with one order.
LEMMA SoldChanged ==
    ASSUME LinesType, LinesType', NEW o \in Purchases, \A p \in Purchases : p # o => orders'[p] = orders[p]
    PROVE  /\ Sold \in Int /\ Sold' \in Int
           /\ Sold' = Sold - Cardinality(orders[o].lines \ orders[o].back) + Cardinality(orders'[o].lines \ orders'[o].back)
<1>1. PICK os : os = orders'
  OBVIOUS
<1>2. orders \in [Purchases -> PurchaseRows] /\ os \in [Purchases -> PurchaseRows]
  BY <1>1 DEF LinesType
<1>3. \A p \in Purchases : HeldBy(os)[p] = Cardinality(os[p].lines \ os[p].back) /\ HeldBy(os)[p] \in Int
  BY <1>2, HeldFacts
<1>4. \A p \in Purchases : HeldBy(orders)[p] = Cardinality(orders[p].lines \ orders[p].back) /\ HeldBy(orders)[p] \in Int
  BY <1>2, HeldFacts
<1>5. \A p \in Purchases : p # o => HeldBy(os)[p] = HeldBy(orders)[p]
  BY <1>1, <1>3, <1>4
<1>6. IsFiniteSet(Purchases) /\ SumFunctionOnSet(HeldBy(orders), Purchases) \in Int /\ SumFunctionOnSet(HeldBy(os), Purchases) \in Int
  BY <1>2, HeldFacts
<1>7. SumFunctionOnSet(HeldBy(os), Purchases) = SumFunctionOnSet(HeldBy(orders), Purchases) - HeldBy(orders)[o] + HeldBy(os)[o]
  <2>1. PICK f, g : f = HeldBy(orders) /\ g = HeldBy(os)
    OBVIOUS
  <2>2. (\A p \in Purchases : f[p] \in Int /\ g[p] \in Int) /\ (\A p \in Purchases : p # o => g[p] = f[p]) /\ IsFiniteSet(Purchases)
    BY <1>3, <1>4, <1>5, <1>6, <2>1
  <2>3. SumFunctionOnSet(g, Purchases) = SumFunctionOnSet(f, Purchases) - f[o] + g[o]
    BY <2>2, SumChanged
  <2> QED BY <2>1, <2>3
<1> QED BY <1>1, <1>3, <1>4, <1>6, <1>7, SoldIs

\* A step that leaves variants and orders alone, and accounts for what it does to the product's own stock.
LEMMA UnitsStill ==
    ASSUME UnitsInv, CatalogueInv', UNCHANGED <<variants, orders>>, supplied' = supplied + product'.stock - product.stock,
           DOMAIN variants # {} => product'.options
    PROVE  UnitsInv'
<1>1. LinesType /\ LinesType' /\ product.stock \in Nat /\ product'.stock \in Nat
      /\ product.stock + VariantStock(variants) + Sold = supplied /\ variants \in [DOMAIN variants -> VariantRows] /\ DOMAIN variants \subseteq Values
  BY UnitsAre DEF UnitsInv, CatalogueInv, ProductSound, LinesType
<1>2. Sold' = Sold /\ Sold \in Int
  BY <1>1, SoldSame
<1>3. VariantStock(variants) \in Int /\ VariantStock(variants') = VariantStock(variants)
  BY <1>1, VariantStockFacts DEF VariantStock, StockOf
<1>4. product'.stock + VariantStock(variants') + Sold' = supplied'
  BY <1>1, <1>2, <1>3
<1>5. UnitsConserved'
  BY <1>4, UnitsAre
<1>6. UnitsSound'
  BY DEF UnitsInv, UnitsSound, OrderUnits
<1> QED BY <1>5, <1>6 DEF UnitsInv

\* A step of the variants that leaves orders alone.
LEMMA UnitsVariants ==
    ASSUME UnitsInv, CatalogueInv', NEW vs, variants' = vs, UNCHANGED orders,
           supplied' - supplied = product'.stock + VariantStock(vs) - product.stock - VariantStock(variants), supplied' \in Int, supplied \in Int,
           product'.options, \A v \in DOMAIN vs : vs[v].moved \/ vs[v].stock = 0,
           \A o \in Purchases : \A u \in orders[o].lines : u = Simple \/ u \in DOMAIN vs
    PROVE  UnitsInv'
<1>1. LinesType /\ LinesType' /\ product.stock \in Nat /\ product'.stock \in Nat
      /\ product.stock + VariantStock(variants) + Sold = supplied /\ variants \in [DOMAIN variants -> VariantRows] /\ DOMAIN variants \subseteq Values
      /\ vs \in [DOMAIN vs -> VariantRows] /\ DOMAIN vs \subseteq Values
  BY UnitsAre DEF UnitsInv, CatalogueInv, ProductSound, LinesType
<1>2. Sold' = Sold /\ Sold \in Int
  BY <1>1, SoldSame
<1>3. VariantStock(variants) \in Int /\ VariantStock(vs) \in Int /\ VariantStock(variants') = VariantStock(vs)
  BY <1>1, VariantStockFacts DEF VariantStock, StockOf
<1>4. product'.stock + VariantStock(variants') + Sold' = supplied'
  BY <1>1, <1>2, <1>3
<1>5. UnitsConserved'
  BY <1>4, UnitsAre
<1>6. UnitsSound'
  BY DEF UnitsInv, UnitsSound, OrderUnits
<1> QED BY <1>5, <1>6 DEF UnitsInv

\* The row that a summary writes keeps its stock.
LEMMA SetVariantsStock == ASSUME CatalogueInv, NEW vs, SetVariants(vs) PROVE product'.stock = product.stock /\ product'.options = product.options /\ variants' = vs
<1>1. Shaped(product) /\ product' = Summarised(product, vs) /\ variants' = vs
  BY DEF CatalogueInv, ProductSound, SetVariants, VariantPriceSummary
<1> QED BY <1>1, SummaryIsTrue

\* What the invariant says of the numbers.
LEMMA UnitsNumbers ==
    ASSUME UnitsInv
    PROVE  /\ CatalogueInv /\ UnitsSound /\ LinesType /\ Shaped(product) /\ product.stock \in Nat /\ VariantStock(variants) \in Int /\ Sold \in Int /\ supplied \in Int
           /\ variants \in [DOMAIN variants -> VariantRows] /\ DOMAIN variants \subseteq Values
           /\ supplied = product.stock + VariantStock(variants) + Sold
<1>1. CatalogueInv /\ UnitsSound /\ ProductSound(product, variants) /\ LinesType /\ UnitsConserved
  BY DEF UnitsInv, CatalogueInv
<1>2. Shaped(product) /\ product.stock \in Nat /\ variants \in [DOMAIN variants -> VariantRows] /\ DOMAIN variants \subseteq Values
  BY <1>1 DEF ProductSound, LinesType
<1>3. Sold \in Int
  BY <1>1, HeldFacts, SoldIs DEF LinesType
<1>4. VariantStock(variants) \in Int
  BY <1>2, VariantStockFacts
<1> QED BY <1>1, <1>2, <1>3, <1>4, UnitsAre

\* The administration of the product accounts for the stock it sets.
LEMMA ProductUnits == ASSUME UnitsInv, CatalogueInv', ProductEndpoints PROVE UnitsInv'
<1>1. UNCHANGED <<variants, cart, orders, adding>> /\ product'.options = product.options /\ UnitsSound /\ product.stock \in Nat /\ Shaped(product)
      /\ supplied = product.stock + VariantStock(variants) + Sold /\ VariantStock(variants) \in Int /\ Sold \in Int
  BY UnitsNumbers, ProductWritten
<1>2. supplied' = supplied + product'.stock - product.stock
  <2>1. CASE ReadForEdit
    BY <1>1, <2>1 DEF ReadForEdit
  <2>2. CASE Archive
    <3>1. product'.stock = product.stock /\ supplied' = supplied
      BY <1>1, <2>2 DEF Archive, Shaped
    <3> QED BY <1>1, <3>1
  <2>3. CASE \E e \in Edits : UpdateProduct(e)
    BY <2>3 DEF UpdateProduct
  <2> QED BY <2>1, <2>2, <2>3 DEF ProductEndpoints
<1> QED BY <1>1, <1>2, UnitsStill DEF UnitsSound

\* Options are set only for a product that has no variants.
LEMMA SetOptionsUnits == ASSUME UnitsInv, CatalogueInv', NEW vals \in SUBSET Values, SetOptions(vals) PROVE UnitsInv'
<1>1. Shaped(product) /\ product.stock \in Nat /\ supplied \in Int
  BY UnitsNumbers
<1>2. PICK p : p = [product EXCEPT !.options = vals # {}]
  OBVIOUS
<1>3. Shaped(p) /\ p.stock = product.stock
  BY <1>1, <1>2 DEF Shaped
<1>4. product' = Summarised(p, variants) /\ UNCHANGED <<variants, orders, supplied>> /\ DOMAIN variants = {}
  BY <1>2 DEF SetOptions, WithOptions, ProductPriceSummary
<1>5. product'.stock = product.stock
  BY <1>3, <1>4, SummaryIsTrue
<1>6. supplied' = supplied + product'.stock - product.stock
  BY <1>1, <1>4, <1>5
<1> QED BY <1>4, <1>6, UnitsStill

\* A conversion moves all of the stock to the variants.
LEMMA ConvertUnits ==
    ASSUME UnitsInv, CatalogueInv', NEW vals \in SUBSET Values, vals # {}, NEW new \in Conversions(vals), Convert(vals, new)
    PROVE  UnitsInv'
<1>1. UnitsSound /\ Shaped(product) /\ product.stock \in Nat /\ supplied \in Int /\ variants \in [DOMAIN variants -> VariantRows] /\ DOMAIN variants \subseteq Values
  BY UnitsNumbers
<1>2. PICK q : q = [product EXCEPT !.stock = 0]
  OBVIOUS
<1>3. PICK q2 : q2 = [q EXCEPT !.options = vals # {}]
  OBVIOUS
<1>4. Shaped(q2) /\ q2.stock = 0 /\ q2.options
  BY <1>1, <1>2, <1>3 DEF Shaped
<1>5. PICK p : p = Summarised(q2, variants)
  OBVIOUS
<1>6. Shaped(p) /\ p.stock = 0 /\ p.options
  BY <1>4, <1>5, SummaryIsTrue
<1>7. p = WithOptions([product EXCEPT !.stock = 0], vals)
  BY <1>2, <1>3, <1>5 DEF WithOptions, ProductPriceSummary
<1>8. product' = Summarised(p, new) /\ variants' = new /\ UNCHANGED <<orders, supplied>> /\ ~product.options /\ Allocates(new)
  BY <1>7 DEF Convert, VariantPriceSummary
<1>9. product'.stock = 0 /\ product'.options
  BY <1>6, <1>8, SummaryIsTrue
<1>10. DOMAIN variants = {} /\ \A o \in Purchases : \A u \in orders[o].lines : u = Simple
  BY <1>1, <1>8 DEF UnitsSound, OrderUnits
<1>11. VariantStock(variants) = 0
  BY <1>1, <1>10, VariantStockFacts
<1>12. VariantStock(new) = product.stock
  BY <1>8 DEF Allocates, SumFunction, VariantStock, StockOf
<1>13. \A v \in DOMAIN new : new[v].moved \/ new[v].stock = 0
  <2>1. ASSUME NEW n \in 0 .. MaxStock PROVE Variant("active", None, n).moved \/ Variant("active", None, n).stock = 0
    BY DEF Variant
  <2> QED BY <2>1 DEF Conversions
<1>14. supplied' - supplied = product'.stock + VariantStock(new) - product.stock - VariantStock(variants)
  BY <1>1, <1>8, <1>9, <1>11, <1>12
<1> QED BY <1>1, <1>8, <1>9, <1>10, <1>13, <1>14, UnitsVariants

\* A new variant brings its own stock.
LEMMA CreateUnits == ASSUME UnitsInv, CatalogueInv', NEW v \in Values, NEW spec \in VariantSpecs, CreateVariant(v, spec) PROVE UnitsInv'
<1>1. CatalogueInv /\ UnitsSound /\ product.stock \in Nat /\ supplied \in Int /\ variants \in [DOMAIN variants -> VariantRows] /\ DOMAIN variants \subseteq Values
  BY UnitsNumbers
<1>2. spec \in VariantRows /\ (spec.moved \/ spec.stock = 0) /\ spec.stock \in Nat
  <2>1. PICK s \in {"active", "inactive"}, p \in Overrides, n \in 0 .. MaxStock : spec = Variant(s, p, n)
    BY DEF VariantSpecs
  <2>2. spec \in VariantRows /\ spec.stock = n /\ n \in Nat
    BY <2>1 DEF Variant, VariantRows
  <2>3. spec.moved = (n # 0)
    BY <2>1 DEF Variant
  <2> QED BY <2>2, <2>3
<1>3. PICK vs : vs = Plus(variants, v, spec)
  OBVIOUS
<1>4. DOMAIN vs = (DOMAIN variants) \cup {v} /\ vs \in [DOMAIN vs -> VariantRows] /\ DOMAIN vs \subseteq Values /\ vs[v] = spec
      /\ \A w \in DOMAIN variants : w # v => vs[w] = variants[w]
  BY <1>1, <1>2, <1>3 DEF Plus
<1>5. SetVariants(vs) /\ UNCHANGED orders /\ supplied' = supplied + spec.stock /\ product.options /\ v \notin DOMAIN variants
  BY <1>3 DEF CreateVariant, NewVariants
<1>6. product'.stock = product.stock /\ product'.options = product.options /\ variants' = vs
  BY <1>1, <1>5, SetVariantsStock
<1>7. VariantStock(vs) = VariantStock(variants) + spec.stock /\ VariantStock(variants) \in Int
  <2>1. PICK f, g : f = StockOf(variants) /\ g = StockOf(vs)
    OBVIOUS
  <2>2. IsFiniteSet(DOMAIN variants) /\ (\A w \in DOMAIN variants : f[w] = variants[w].stock /\ f[w] \in Int)
        /\ VariantStock(variants) = SumFunctionOnSet(f, DOMAIN variants) /\ VariantStock(variants) \in Int
    BY <1>1, <2>1, VariantStockFacts DEF VariantStock
  <2>3. (\A w \in (DOMAIN variants) \cup {v} : g[w] = vs[w].stock /\ g[w] \in Int) /\ VariantStock(vs) = SumFunctionOnSet(g, (DOMAIN variants) \cup {v})
    BY <1>4, <2>1, VariantStockFacts DEF VariantStock
  <2>4. SumFunctionOnSet(g, (DOMAIN variants) \cup {v}) = SumFunctionOnSet(g, DOMAIN variants) + g[v]
    BY <1>5, <2>2, <2>3, SumAdded
  <2>5. \A w \in DOMAIN variants : g[w] = f[w]
    BY <1>4, <1>5, <2>2, <2>3
  <2>6. SumFunctionOnSet(g, DOMAIN variants) = SumFunctionOnSet(f, DOMAIN variants)
    BY <2>2, <2>5, SumSame
  <2> QED BY <1>4, <2>2, <2>3, <2>4, <2>6
<1>8. supplied' - supplied = product'.stock + VariantStock(vs) - product.stock - VariantStock(variants) /\ supplied' \in Int
  BY <1>1, <1>2, <1>5, <1>6, <1>7
<1>9. (\A w \in DOMAIN vs : vs[w].moved \/ vs[w].stock = 0) /\ \A o \in Purchases : \A u \in orders[o].lines : u = Simple \/ u \in DOMAIN vs
  BY <1>1, <1>2, <1>4 DEF UnitsSound, OrderUnits
<1> QED BY <1>1, <1>5, <1>6, <1>8, <1>9, UnitsVariants

\* A variant's price or status changes, not its stock.
LEMMA UpdateUnits ==
    ASSUME UnitsInv, CatalogueInv', NEW v \in Values, NEW status \in {"active", "inactive"}, NEW override \in Overrides, UpdateVariant(v, status, override)
    PROVE  UnitsInv'
<1>1. CatalogueInv /\ UnitsSound /\ product.stock \in Nat /\ supplied \in Int /\ variants \in [DOMAIN variants -> VariantRows] /\ DOMAIN variants \subseteq Values
      /\ v \in DOMAIN variants
  BY UnitsNumbers DEF UpdateVariant
<1>2. PICK vs : vs = [variants EXCEPT ![v].status = status, ![v].override = override]
  OBVIOUS
<1>3. DOMAIN vs = DOMAIN variants /\ \A w \in DOMAIN variants : vs[w].stock = variants[w].stock /\ vs[w].moved = variants[w].moved
  BY <1>1, <1>2 DEF VariantRows
<1>4. SetVariants(vs) /\ UNCHANGED <<orders, supplied>>
  BY <1>2 DEF UpdateVariant
<1>5. product'.stock = product.stock /\ product'.options = product.options /\ variants' = vs
  BY <1>1, <1>4, SetVariantsStock
<1>6. StockOf(vs) = StockOf(variants)
  BY <1>3 DEF StockOf
<1>7. VariantStock(vs) = VariantStock(variants) /\ VariantStock(variants) \in Int
  BY <1>1, <1>3, <1>6, VariantStockFacts DEF VariantStock
<1>8. supplied' - supplied = product'.stock + VariantStock(vs) - product.stock - VariantStock(variants) /\ supplied' \in Int
  BY <1>1, <1>4, <1>5, <1>7
<1>9. (\A w \in DOMAIN vs : vs[w].moved \/ vs[w].stock = 0) /\ (\A o \in Purchases : \A u \in orders[o].lines : u = Simple \/ u \in DOMAIN vs)
      /\ product'.options
  BY <1>1, <1>3, <1>5 DEF UnitsSound, OrderUnits
<1> QED BY <1>1, <1>4, <1>5, <1>8, <1>9, UnitsVariants

\* A variant that is deleted has no stock, and no order names it.
LEMMA DeleteUnits == ASSUME UnitsInv, CatalogueInv', NEW v \in Values, DeleteVariant(v) PROVE UnitsInv'
<1>1. CatalogueInv /\ UnitsSound /\ product.stock \in Nat /\ supplied \in Int /\ variants \in [DOMAIN variants -> VariantRows] /\ DOMAIN variants \subseteq Values
      /\ v \in DOMAIN variants /\ ~Refers(v) /\ variants[v].stock = 0 /\ product.options
  BY UnitsNumbers DEF DeleteVariant, Unused, UnitsSound
<1>2. PICK vs : vs = Restrict(variants, (DOMAIN variants) \ {v})
  OBVIOUS
<1>3. DOMAIN vs = (DOMAIN variants) \ {v} /\ \A w \in DOMAIN vs : vs[w] = variants[w]
  BY <1>2 DEF Restrict
<1>4. SetVariants(vs) /\ UNCHANGED <<orders, supplied>>
  BY <1>2 DEF DeleteVariant
<1>5. product'.stock = product.stock /\ product'.options = product.options /\ variants' = vs
  BY <1>1, <1>4, SetVariantsStock
<1>6. VariantStock(vs) = VariantStock(variants) /\ VariantStock(variants) \in Int
  <2>1. PICK f, g : f = StockOf(variants) /\ g = StockOf(vs)
    OBVIOUS
  <2>2. IsFiniteSet(DOMAIN variants) /\ (\A w \in DOMAIN variants : f[w] = variants[w].stock /\ f[w] \in Int)
        /\ VariantStock(variants) = SumFunctionOnSet(f, DOMAIN variants) /\ VariantStock(variants) \in Int
    BY <1>1, <2>1, VariantStockFacts DEF VariantStock
  <2>3. SumFunctionOnSet(f, DOMAIN variants) = f[v] + SumFunctionOnSet(f, (DOMAIN variants) \ {v}) /\ SumFunctionOnSet(f, (DOMAIN variants) \ {v}) \in Int
    BY <1>1, <2>2, SumTaken
  <2>4. IsFiniteSet((DOMAIN variants) \ {v}) /\ \A w \in (DOMAIN variants) \ {v} : f[w] \in Int /\ g[w] = f[w]
    BY <1>3, <2>1, <2>2, FS_RemoveElement DEF StockOf
  <2>5. SumFunctionOnSet(g, (DOMAIN variants) \ {v}) = SumFunctionOnSet(f, (DOMAIN variants) \ {v})
    BY <2>4, SumSame
  <2>6. VariantStock(vs) = SumFunctionOnSet(g, (DOMAIN variants) \ {v}) /\ f[v] = 0
    BY <1>1, <1>3, <2>1, <2>2 DEF VariantStock
  <2> QED BY <2>2, <2>3, <2>5, <2>6
<1>7. supplied' - supplied = product'.stock + VariantStock(vs) - product.stock - VariantStock(variants) /\ supplied' \in Int
  BY <1>1, <1>4, <1>5, <1>6
<1>8. (\A w \in DOMAIN vs : vs[w].moved \/ vs[w].stock = 0) /\ (\A o \in Purchases : \A u \in orders[o].lines : u = Simple \/ u \in DOMAIN vs)
  BY <1>1, <1>3 DEF UnitsSound, OrderUnits, Refers
<1> QED BY <1>1, <1>4, <1>5, <1>7, <1>8, UnitsVariants

\* A change of stock that leaves no ledger row is none.
LEMMA MovedUnits ==
    ASSUME NEW x \in VariantRows, NEW n \in Nat, x.moved \/ x.stock = 0
    PROVE  Moved(x, n).moved \/ Moved(x, n).stock = 0
<1>1. Moved(x, n).stock = n /\ Moved(x, n).moved = (x.moved \/ n # x.stock)
  BY DEF Moved, VariantRows
<1> QED BY <1>1 DEF VariantRows

\* The stock of a unit is set.
LEMMA AdjustStockUnits == ASSUME UnitsInv, CatalogueInv', NEW u \in SaleUnits, NEW n \in 0 .. MaxStock, AdjustStock(u, n) PROVE UnitsInv'
<1>1. CatalogueInv /\ UnitsSound /\ Shaped(product) /\ product.stock \in Nat /\ supplied \in Int /\ variants \in [DOMAIN variants -> VariantRows] /\ DOMAIN variants \subseteq Values
      /\ n \in Nat
  BY UnitsNumbers
<1>2. CASE u = Simple
  <2>1. product' = [product EXCEPT !.stock = n] /\ supplied' = supplied + n - product.stock /\ UNCHANGED <<variants, orders>>
    BY <1>2 DEF AdjustStock
  <2>2. product'.stock = n /\ product'.options = product.options
    BY <1>1, <2>1 DEF Shaped
  <2> QED BY <1>1, <2>1, <2>2, UnitsStill DEF UnitsSound
<1>3. CASE u # Simple
  <2>1. u \in DOMAIN variants /\ variants' = [variants EXCEPT ![u] = Moved(variants[u], n)] /\ supplied' = supplied + n - variants[u].stock
        /\ UNCHANGED <<product, orders>>
    BY <1>3 DEF AdjustStock
  <2>2. PICK vs : vs = variants'
    OBVIOUS
  <2>3. DOMAIN vs = DOMAIN variants /\ vs[u] = Moved(variants[u], n) /\ (\A w \in DOMAIN variants : w # u => vs[w] = variants[w]) /\ variants[u] \in VariantRows
    BY <1>1, <2>1, <2>2
  <2>4. Moved(variants[u], n).stock = n /\ Moved(variants[u], n) \in VariantRows /\ (Moved(variants[u], n).moved \/ Moved(variants[u], n).stock = 0)
    BY <1>1, <2>1, <2>3, MovedRow, MovedUnits DEF UnitsSound
  <2>5. vs \in [DOMAIN vs -> VariantRows]
    BY <2>1, <2>2, <2>3, <2>4, <1>1
  <2>6. VariantStock(vs) = VariantStock(variants) - variants[u].stock + n /\ VariantStock(variants) \in Int /\ variants[u].stock \in Int
    <3>1. PICK f, g : f = StockOf(variants) /\ g = StockOf(vs)
      OBVIOUS
    <3>2. IsFiniteSet(DOMAIN variants) /\ (\A w \in DOMAIN variants : f[w] = variants[w].stock /\ f[w] \in Int)
          /\ VariantStock(variants) = SumFunctionOnSet(f, DOMAIN variants) /\ VariantStock(variants) \in Int
      BY <1>1, <3>1, VariantStockFacts DEF VariantStock
    <3>3. (\A w \in DOMAIN variants : g[w] = vs[w].stock /\ g[w] \in Int) /\ VariantStock(vs) = SumFunctionOnSet(g, DOMAIN variants)
      BY <1>1, <2>3, <2>5, <3>1, VariantStockFacts DEF VariantStock
    <3>4. \A w \in DOMAIN variants : w # u => g[w] = f[w]
      BY <2>3, <3>2, <3>3
    <3>5. SumFunctionOnSet(g, DOMAIN variants) = SumFunctionOnSet(f, DOMAIN variants) - f[u] + g[u]
      BY <2>1, <3>2, <3>3, <3>4, SumChanged
    <3> QED BY <2>1, <2>3, <2>4, <3>2, <3>3, <3>5
  <2>7. supplied' - supplied = product'.stock + VariantStock(vs) - product.stock - VariantStock(variants) /\ supplied' \in Int
    BY <1>1, <2>1, <2>6
  <2>8. (\A w \in DOMAIN vs : vs[w].moved \/ vs[w].stock = 0) /\ (\A o \in Purchases : \A x \in orders[o].lines : x = Simple \/ x \in DOMAIN vs)
        /\ product'.options
    BY <1>1, <2>1, <2>3, <2>4 DEF UnitsSound, OrderUnits
  <2> QED BY <1>1, <2>1, <2>2, <2>7, <2>8, UnitsVariants
<1> QED BY <1>2, <1>3

\* The administration of variants neither loses nor invents stock.
LEMMA VariantsUnits == ASSUME UnitsInv, CatalogueInv', VariantEndpoints PROVE UnitsInv'
<1>1. ASSUME NEW v \in Values, AddValue(v) \/ DeleteValue(v) PROVE UnitsInv'
  <2>1. UNCHANGED <<product, variants, orders, supplied>> /\ product.stock \in Nat /\ supplied \in Int /\ UnitsSound
    BY <1>1, UnitsNumbers DEF AddValue, DeleteValue
  <2>2. supplied' = supplied + product'.stock - product.stock
    BY <2>1
  <2> QED BY <2>1, <2>2, UnitsStill DEF UnitsSound
<1> QED BY <1>1, SetOptionsUnits, ConvertUnits, CreateUnits, UpdateUnits, DeleteUnits, AdjustStockUnits
        DEF VariantEndpoints, SaleUnits

\* One more, or one less, of every unit of a set.
LEMMA AdjustedUnits ==
    ASSUME UnitsInv, CatalogueInv', NEW S \in SUBSET SaleUnits, \A u \in S : u = Simple \/ u \in DOMAIN variants,
           NEW n \in {1, -1}, Adjusted(S, n)
    PROVE  /\ n = 1 => product'.stock + VariantStock(variants') = product.stock + VariantStock(variants) + Cardinality(S)
           /\ n = -1 => product'.stock + VariantStock(variants') = product.stock + VariantStock(variants) - Cardinality(S)
           /\ product'.options = product.options /\ product'.stock \in Int /\ VariantStock(variants') \in Int
           /\ DOMAIN variants' = DOMAIN variants /\ \A v \in DOMAIN variants : variants'[v].moved \/ variants'[v].stock = 0
<1>1. UnitsSound /\ Shaped(product) /\ product.stock \in Nat /\ variants \in [DOMAIN variants -> VariantRows] /\ DOMAIN variants \subseteq Values
  BY UnitsNumbers
<1>2. PICK ws : ws = variants'
  OBVIOUS
<1>3. ws \in [DOMAIN ws -> VariantRows] /\ DOMAIN ws \subseteq Values /\ product'.stock \in Nat
  BY <1>2 DEF CatalogueInv, ProductSound, LinesType
<1>4. /\ DOMAIN ws = DOMAIN variants
      /\ \A v \in DOMAIN variants : ws[v] = IF v \in S THEN Moved(variants[v], variants[v].stock + n) ELSE variants[v]
  BY <1>2 DEF Adjusted
<1>5. ASSUME NEW v \in DOMAIN variants
      PROVE  ws[v].stock = (IF v \in S THEN variants[v].stock + n ELSE variants[v].stock) /\ (ws[v].moved \/ ws[v].stock = 0)
  <2>1. variants[v] \in VariantRows /\ (variants[v].moved \/ variants[v].stock = 0) /\ variants[v].stock \in Nat
    BY <1>1 DEF UnitsSound, VariantRows
  <2>2. PICK k : k = variants[v].stock + n
    OBVIOUS
  <2>3. Moved(variants[v], k).stock = k /\ Moved(variants[v], k).moved = (variants[v].moved \/ k # variants[v].stock)
    BY <2>1 DEF Moved, VariantRows
  <2>4. k # variants[v].stock
    BY <2>1, <2>2
  <2> QED BY <1>4, <2>1, <2>2, <2>3, <2>4
<1>6. product'.stock = (IF Simple \in S THEN product.stock + n ELSE product.stock) /\ product'.options = product.options
  BY <1>1 DEF Adjusted, Shaped
<1> DEFINE R == S \ {Simple}
<1>7. R \in SUBSET DOMAIN variants /\ (\A v \in DOMAIN variants : v \in R <=> v \in S) /\ IsFiniteSet(S) /\ IsFiniteSet(R) /\ Cardinality(R) \in Nat
      /\ Cardinality(S) \in Nat
  BY <1>1, ValuesAssumption, UnitsFinite
<1>8. Cardinality(S) = Cardinality(R) + (IF Simple \in S THEN 1 ELSE 0)
  <2>1. CASE Simple \in S
    <3>1. Cardinality(R) = Cardinality(S) - 1
      BY <1>7, <2>1, FS_RemoveElement
    <3> QED BY <1>7, <2>1, <3>1
  <2>2. CASE Simple \notin S
    <3>1. R = S
      BY <2>2
    <3> QED BY <1>7, <2>2, <3>1
  <2> QED BY <2>1, <2>2
<1> HIDE DEF R
<1>9. PICK f, g : f = StockOf(variants) /\ g = StockOf(ws)
  OBVIOUS
<1>10. IsFiniteSet(DOMAIN variants) /\ (\A v \in DOMAIN variants : f[v] = variants[v].stock /\ f[v] \in Int)
       /\ VariantStock(variants) = SumFunctionOnSet(f, DOMAIN variants) /\ VariantStock(variants) \in Int
  BY <1>1, <1>9, VariantStockFacts DEF VariantStock
<1>11. (\A v \in DOMAIN variants : g[v] = ws[v].stock /\ g[v] \in Int) /\ VariantStock(ws) = SumFunctionOnSet(g, DOMAIN variants) /\ VariantStock(ws) \in Int
  BY <1>3, <1>4, <1>9, VariantStockFacts DEF VariantStock
<1>12. CASE n = 1
  <2>1. \A v \in DOMAIN variants : f[v] \in Int /\ g[v] = IF v \in R THEN f[v] + 1 ELSE f[v]
    BY <1>5, <1>7, <1>10, <1>11, <1>12
  <2>2. SumFunctionOnSet(g, DOMAIN variants) = SumFunctionOnSet(f, DOMAIN variants) + Cardinality(R)
    BY <1>7, <1>10, <2>1, SumRaised
  <2> QED BY <1>1, <1>2, <1>3, <1>4, <1>5, <1>6, <1>7, <1>8, <1>10, <1>11, <1>12, <2>2
<1>13. CASE n = -1
  <2>1. \A v \in DOMAIN variants : g[v] \in Int /\ f[v] = IF v \in R THEN g[v] + 1 ELSE g[v]
    BY <1>5, <1>7, <1>10, <1>11, <1>13
  <2>2. SumFunctionOnSet(f, DOMAIN variants) = SumFunctionOnSet(g, DOMAIN variants) + Cardinality(R)
    BY <1>7, <1>10, <2>1, SumRaised
  <2> QED BY <1>1, <1>2, <1>3, <1>4, <1>5, <1>6, <1>7, <1>8, <1>10, <1>11, <1>13, <2>2
<1> QED BY <1>12, <1>13

\* Goods go to or come back from one order; the row it leaves is sound.
LEMMA PurchaseUnits ==
    ASSUME UnitsInv, CatalogueInv', NEW o \in Purchases, NEW x \in PurchaseRows, orders' = [orders EXCEPT ![o] = x], UNCHANGED supplied,
           product'.options = product.options, product'.stock \in Int, VariantStock(variants') \in Int,
           DOMAIN variants' = DOMAIN variants, \A v \in DOMAIN variants : variants'[v].moved \/ variants'[v].stock = 0,
           x.status \in {"none", "reading"} => x.lines = {}, x.status \in {"pending", "paid"} => x.back = {},
           \A u \in x.lines : u = Simple \/ u \in DOMAIN variants,
           product'.stock + VariantStock(variants') + Cardinality(x.lines \ x.back)
               = product.stock + VariantStock(variants) + Cardinality(orders[o].lines \ orders[o].back)
    PROVE  UnitsInv'
<1>1. UnitsSound /\ LinesType /\ LinesType' /\ product.stock \in Nat /\ VariantStock(variants) \in Int /\ supplied \in Int
      /\ supplied = product.stock + VariantStock(variants) + Sold
  BY UnitsNumbers DEF CatalogueInv
<1>2. orders'[o] = x /\ \A p \in Purchases : p # o => orders'[p] = orders[p]
  BY <1>1 DEF LinesType
<1>3. Cardinality(x.lines \ x.back) \in Nat /\ Cardinality(orders[o].lines \ orders[o].back) \in Nat
  <2>1. x.lines \ x.back \in SUBSET SaleUnits /\ orders[o].lines \ orders[o].back \in SUBSET SaleUnits
    BY <1>1 DEF LinesType, PurchaseRows
  <2> QED BY <2>1, UnitsFinite
<1>4. Sold \in Int /\ Sold' \in Int /\ Sold' = Sold - Cardinality(orders[o].lines \ orders[o].back) + Cardinality(x.lines \ x.back)
  BY <1>1, <1>2, SoldChanged
<1>5. product'.stock + VariantStock(variants') + Sold' = supplied'
  <2>1. PICK h, g : h = Cardinality(orders[o].lines \ orders[o].back) /\ g = Cardinality(x.lines \ x.back)
    OBVIOUS
  <2>2. h \in Int /\ g \in Int /\ Sold' = Sold - h + g /\ product'.stock + VariantStock(variants') + g = product.stock + VariantStock(variants) + h
    BY <1>3, <1>4, <2>1
  <2>3. PICK p, w, pn, wn, s, sn : p = product.stock /\ w = VariantStock(variants) /\ pn = product'.stock /\ wn = VariantStock(variants') /\ s = Sold /\ sn = Sold'
    OBVIOUS
  <2>4. p \in Int /\ w \in Int /\ pn \in Int /\ wn \in Int /\ s \in Int /\ sn = s - h + g /\ pn + wn + g = p + w + h /\ supplied = p + w + s /\ supplied' = supplied
    BY <1>1, <1>4, <2>2, <2>3
  <2>5. pn + wn + sn = supplied'
    BY <2>2, <2>4
  <2> QED BY <2>3, <2>5
<1>6. UnitsConserved'
  BY <1>5, UnitsAre
<1>7. UnitsSound'
  BY <1>1, <1>2 DEF UnitsSound, OrderUnits
<1> QED BY <1>6, <1>7 DEF UnitsInv

\* An order's row is written, and no goods move.
LEMMA PurchaseOnly ==
    ASSUME UnitsInv, CatalogueInv', NEW o \in Purchases, NEW x \in PurchaseRows, orders' = [orders EXCEPT ![o] = x], UNCHANGED <<product, variants, supplied>>,
           x.status \in {"none", "reading"} => x.lines = {}, x.status \in {"pending", "paid"} => x.back = {},
           \A u \in x.lines : u = Simple \/ u \in DOMAIN variants, x.lines \ x.back = orders[o].lines \ orders[o].back
    PROVE  UnitsInv'
<1>1. product.stock \in Nat /\ VariantStock(variants) \in Int /\ UnitsSound
  BY UnitsNumbers
<1>2. VariantStock(variants') = VariantStock(variants) /\ product' = product /\ variants' = variants
  OBVIOUS
<1>3. \A v \in DOMAIN variants : variants'[v].moved \/ variants'[v].stock = 0
  BY <1>1 DEF UnitsSound
<1>4. product'.stock + VariantStock(variants') + Cardinality(x.lines \ x.back)
          = product.stock + VariantStock(variants) + Cardinality(orders[o].lines \ orders[o].back)
  BY <1>2
<1>5. product'.stock \in Int /\ VariantStock(variants') \in Int /\ product'.options = product.options /\ DOMAIN variants' = DOMAIN variants /\ UNCHANGED supplied
  BY <1>1, <1>2
<1> QED BY <1>3, <1>4, <1>5, PurchaseUnits

\* Checkout takes what the order holds from the stock, or nothing.
LEMMA CheckoutUnits == ASSUME UnitsInv, CatalogueInv', NEW o \in Purchases, Checkout(o) PROVE UnitsInv'
<1>1. CatalogueInv /\ UnitsSound /\ LinesType /\ orders[o] \in PurchaseRows /\ orders[o].status = "reading" /\ orders[o].lines = {} /\ NoOrder \in PurchaseRows
      /\ NoOrder.status = "none" /\ NoOrder.lines = {} /\ product.stock \in Nat /\ VariantStock(variants) \in Int
  <2>1. NoOrder \in PurchaseRows /\ NoOrder.status = "none" /\ NoOrder.lines = {}
    BY DEF NoOrder, PurchaseRows
  <2> QED BY <2>1, UnitsNumbers DEF LinesType, UnitsSound, OrderUnits, Checkout
<1>2. CASE \A u \in orders[o].back : Sellable(u)
  <2>1. PICK x : x = [NoOrder EXCEPT !.status = "pending", !.lines = orders[o].back]
    OBVIOUS
  <2>2. x \in PurchaseRows /\ x.status = "pending" /\ x.lines = orders[o].back /\ x.back = {}
    BY <1>1, <2>1 DEF NoOrder, PurchaseRows
  <2>3. Adjusted(x.lines, -1) /\ orders' = [orders EXCEPT ![o] = x] /\ UNCHANGED supplied
    BY <1>2, <2>1, <2>2 DEF Checkout
  <2>4. \A u \in x.lines : u = Simple \/ u \in DOMAIN variants
    BY <1>1, <1>2, <2>2, SellableFits DEF Fits
  <2>5. x.lines \in SUBSET SaleUnits
    BY <2>2 DEF PurchaseRows
  <2>6. /\ product'.stock + VariantStock(variants') = product.stock + VariantStock(variants) - Cardinality(x.lines)
        /\ product'.options = product.options /\ product'.stock \in Int /\ VariantStock(variants') \in Int
        /\ DOMAIN variants' = DOMAIN variants /\ \A v \in DOMAIN variants : variants'[v].moved \/ variants'[v].stock = 0
    <3>1. PICK n \in {1, -1} : n = -1
      OBVIOUS
    <3> QED BY <2>3, <2>4, <2>5, <3>1, AdjustedUnits
  <2>7. orders[o].lines \ orders[o].back = {} /\ x.lines \ x.back = x.lines /\ Cardinality({}) = 0 /\ Cardinality(x.lines) \in Nat
    BY <1>1, <2>2, <2>5, FS_EmptySet, UnitsFinite
  <2>8. product'.stock + VariantStock(variants') + Cardinality(x.lines \ x.back)
            = product.stock + VariantStock(variants) + Cardinality(orders[o].lines \ orders[o].back)
    <3>1. PICK h, g, n : h = Cardinality(orders[o].lines \ orders[o].back) /\ g = Cardinality(x.lines \ x.back) /\ n = Cardinality(x.lines)
      OBVIOUS
    <3>2. h = 0 /\ g = n /\ n \in Int
      BY <2>7, <3>1
    <3>3. PICK p, w, pn, wn : p = product.stock /\ w = VariantStock(variants) /\ pn = product'.stock /\ wn = VariantStock(variants')
      OBVIOUS
    <3>4. p \in Int /\ w \in Int /\ pn \in Int /\ wn \in Int /\ pn + wn = p + w - n
      BY <1>1, <2>6, <3>1, <3>3
    <3>5. pn + wn + g = p + w + h
      BY <3>2, <3>4
    <3> QED BY <3>1, <3>3, <3>5
  <2> QED BY <2>2, <2>3, <2>4, <2>6, <2>8, PurchaseUnits
<1>3. CASE ~ \A u \in orders[o].back : Sellable(u)
  <2>1. orders' = [orders EXCEPT ![o] = NoOrder] /\ UNCHANGED <<product, variants, supplied>>
    BY <1>3 DEF Checkout
  <2>2. NoOrder.lines \ NoOrder.back = orders[o].lines \ orders[o].back
    BY <1>1
  <2> QED BY <1>1, <2>1, <2>2, PurchaseOnly
<1> QED BY <1>2, <1>3

\* A cancelled order gives back all it holds.
LEMMA CancelUnits == ASSUME UnitsInv, CatalogueInv', NEW o \in Purchases, Cancel(o) PROVE UnitsInv'
<1>1. CatalogueInv /\ LinesType /\ orders[o] \in PurchaseRows /\ orders[o].lines \in SUBSET SaleUnits /\ orders[o].back = {}
      /\ (\A u \in orders[o].lines : u = Simple \/ u \in DOMAIN variants) /\ product.stock \in Nat /\ VariantStock(variants) \in Int
  BY UnitsNumbers DEF LinesType, UnitsSound, OrderUnits, PurchaseRows, Cancel
<1>2. PICK x : x = [orders[o] EXCEPT !.status = "cancelled", !.back = orders[o].lines]
  OBVIOUS
<1>3. x \in PurchaseRows /\ x.status = "cancelled" /\ x.lines = orders[o].lines /\ x.back = orders[o].lines
  BY <1>1, <1>2 DEF PurchaseRows
<1>4. orders' = [orders EXCEPT ![o] = x] /\ Adjusted(x.lines, 1) /\ UNCHANGED supplied
  BY <1>1, <1>2, <1>3 DEF Cancel, LinesType
<1>5. /\ product'.stock + VariantStock(variants') = product.stock + VariantStock(variants) + Cardinality(x.lines)
      /\ product'.options = product.options /\ product'.stock \in Int /\ VariantStock(variants') \in Int
      /\ DOMAIN variants' = DOMAIN variants /\ \A v \in DOMAIN variants : variants'[v].moved \/ variants'[v].stock = 0
  <2>1. PICK n \in {1, -1} : n = 1
    OBVIOUS
  <2> QED BY <1>1, <1>3, <1>4, <2>1, AdjustedUnits
<1>6. orders[o].lines \ orders[o].back = x.lines /\ x.lines \ x.back = {} /\ Cardinality({}) = 0 /\ Cardinality(x.lines) \in Nat
  BY <1>1, <1>3, FS_EmptySet, UnitsFinite
<1>7. product'.stock + VariantStock(variants') + Cardinality(x.lines \ x.back)
          = product.stock + VariantStock(variants) + Cardinality(orders[o].lines \ orders[o].back)
  <2>1. PICK h, g, n : h = Cardinality(orders[o].lines \ orders[o].back) /\ g = Cardinality(x.lines \ x.back) /\ n = Cardinality(x.lines)
    OBVIOUS
  <2>2. h = n /\ g = 0 /\ n \in Int
    BY <1>6, <2>1
  <2>3. PICK p, w, pn, wn : p = product.stock /\ w = VariantStock(variants) /\ pn = product'.stock /\ wn = VariantStock(variants')
    OBVIOUS
  <2>4. p \in Int /\ w \in Int /\ pn \in Int /\ wn \in Int /\ pn + wn = p + w + n
    BY <1>1, <1>5, <2>1, <2>3
  <2>5. pn + wn + g = p + w + h
    BY <2>2, <2>4
  <2> QED BY <2>1, <2>3, <2>5
<1> QED BY <1>1, <1>3, <1>4, <1>5, <1>7, PurchaseUnits

\* A line that comes back is one the order still held.
LEMMA ReturnUnits == ASSUME UnitsInv, CatalogueInv', NEW o \in Purchases, NEW u \in SaleUnits, Return(o, u) PROVE UnitsInv'
<1>1. CatalogueInv /\ LinesType /\ orders[o] \in PurchaseRows /\ orders[o].lines \in SUBSET SaleUnits /\ u \in orders[o].lines \ orders[o].back
      /\ (\A w \in orders[o].lines : w = Simple \/ w \in DOMAIN variants) /\ product.stock \in Nat /\ VariantStock(variants) \in Int
      /\ orders[o].status = "fulfilled" /\ Adjusted({u}, 1) /\ UNCHANGED supplied
  BY UnitsNumbers DEF LinesType, UnitsSound, OrderUnits, PurchaseRows, Return
<1>2. PICK x : x = [orders[o] EXCEPT !.back = orders[o].back \cup {u}]
  OBVIOUS
<1>3. x \in PurchaseRows /\ x.status = "fulfilled" /\ x.lines = orders[o].lines /\ x.back = orders[o].back \cup {u} /\ orders' = [orders EXCEPT ![o] = x]
  BY <1>1, <1>2 DEF PurchaseRows, Return, LinesType
<1>4. /\ product'.stock + VariantStock(variants') = product.stock + VariantStock(variants) + Cardinality({u})
      /\ product'.options = product.options /\ product'.stock \in Int /\ VariantStock(variants') \in Int
      /\ DOMAIN variants' = DOMAIN variants /\ \A v \in DOMAIN variants : variants'[v].moved \/ variants'[v].stock = 0
  <2>1. PICK n \in {1, -1} : n = 1
    OBVIOUS
  <2>2. {u} \in SUBSET SaleUnits /\ \A w \in {u} : w = Simple \/ w \in DOMAIN variants
    BY <1>1
  <2> QED BY <1>1, <2>1, <2>2, AdjustedUnits
<1>5. Cardinality({u}) = 1
  BY FS_Singleton
<1>6. Cardinality(x.lines \ x.back) = Cardinality(orders[o].lines \ orders[o].back) - 1 /\ Cardinality(orders[o].lines \ orders[o].back) \in Nat
  <2>1. x.lines \ x.back = (orders[o].lines \ orders[o].back) \ {u} /\ orders[o].lines \ orders[o].back \in SUBSET SaleUnits
    BY <1>1, <1>3
  <2>2. IsFiniteSet(orders[o].lines \ orders[o].back) /\ Cardinality(orders[o].lines \ orders[o].back) \in Nat
    BY <2>1, UnitsFinite
  <2>3. Cardinality((orders[o].lines \ orders[o].back) \ {u}) = Cardinality(orders[o].lines \ orders[o].back) - 1
    BY <1>1, <2>2, FS_RemoveElement
  <2> QED BY <2>1, <2>2, <2>3
<1>7. product'.stock + VariantStock(variants') + Cardinality(x.lines \ x.back)
          = product.stock + VariantStock(variants) + Cardinality(orders[o].lines \ orders[o].back)
  <2>1. PICK h, g : h = Cardinality(orders[o].lines \ orders[o].back) /\ g = Cardinality(x.lines \ x.back)
    OBVIOUS
  <2>2. g = h - 1 /\ h \in Int
    BY <1>6, <2>1
  <2>3. PICK p, w, pn, wn : p = product.stock /\ w = VariantStock(variants) /\ pn = product'.stock /\ wn = VariantStock(variants')
    OBVIOUS
  <2>4. p \in Int /\ w \in Int /\ pn \in Int /\ wn \in Int /\ pn + wn = p + w + 1
    BY <1>1, <1>4, <1>5, <2>3
  <2>5. pn + wn + g = p + w + h
    BY <2>2, <2>4
  <2> QED BY <2>1, <2>3, <2>5
<1> QED BY <1>1, <1>3, <1>4, <1>7, PurchaseUnits

\* Orders take from and give back to the stock what they hold.
LEMMA PurchasesUnits == ASSUME UnitsInv, CatalogueInv', PurchaseEndpoints PROVE UnitsInv'
<1>1. LinesType /\ UnitsSound
  BY UnitsNumbers
<1>2. ASSUME NEW o \in Purchases, NEW c \in Carts, ReadCart(o, c) PROVE UnitsInv'
  <2>1. PICK x : x = [NoOrder EXCEPT !.status = "reading", !.cart = c, !.back = cart[c]]
    OBVIOUS
  <2>2. x \in PurchaseRows /\ x.status = "reading" /\ x.lines = {}
    BY <1>1, <2>1 DEF NoOrder, PurchaseRows, LinesType
  <2>3. orders' = [orders EXCEPT ![o] = x] /\ UNCHANGED <<product, variants, supplied>> /\ orders[o].lines = {}
    BY <1>1, <1>2, <2>1 DEF ReadCart, UnitsSound, OrderUnits
  <2>4. x.lines \ x.back = orders[o].lines \ orders[o].back
    BY <2>2, <2>3
  <2> QED BY <2>2, <2>3, <2>4, PurchaseOnly
<1>3. ASSUME NEW o \in Purchases, Move(o, "pending", "paid") \/ Move(o, "paid", "fulfilled") PROVE UnitsInv'
  <2>1. orders[o] \in PurchaseRows /\ orders[o].status \in {"pending", "paid"} /\ OrderUnits(o)
    BY <1>1, <1>3 DEF LinesType, UnitsSound, Move
  <2>2. PICK to \in {"paid", "fulfilled"} : orders' = [orders EXCEPT ![o].status = to] /\ UNCHANGED <<product, variants, supplied>>
    BY <1>3 DEF Move
  <2>3. PICK x : x = [orders[o] EXCEPT !.status = to]
    OBVIOUS
  <2>4. x \in PurchaseRows /\ x.status = to /\ x.lines = orders[o].lines /\ x.back = orders[o].back /\ orders' = [orders EXCEPT ![o] = x]
    BY <1>1, <2>1, <2>2, <2>3 DEF PurchaseRows, LinesType
  <2>5. x.back = {} /\ (\A u \in x.lines : u = Simple \/ u \in DOMAIN variants) /\ x.lines \ x.back = orders[o].lines \ orders[o].back
        /\ x.status \notin {"none", "reading"}
    BY <2>1, <2>4 DEF OrderUnits
  <2> QED BY <2>2, <2>4, <2>5, PurchaseOnly
<1> QED BY <1>2, <1>3, CheckoutUnits, CancelUnits, ReturnUnits DEF PurchaseEndpoints, SaleUnits

\* Every step neither loses nor invents stock.
LEMMA UnitsStep == ASSUME UnitsInv, [CatalogueNext]_catalogueVars PROVE UnitsInv'
<1>1. CatalogueInv' /\ UnitsSound /\ product.stock \in Nat /\ supplied \in Int
  BY CatalogueStep, UnitsNumbers
<1>2. CASE CartEndpoints \/ UNCHANGED catalogueVars
  <2>1. UNCHANGED <<product, variants, orders, supplied>>
    BY <1>2 DEF CartEndpoints, AddItem, ResolveUnit, RemoveItem, catalogueVars
  <2>2. supplied' = supplied + product'.stock - product.stock
    BY <1>1, <2>1
  <2> QED BY <1>1, <2>1, <2>2, UnitsStill DEF UnitsSound
<1> QED BY <1>1, <1>2, ProductUnits, VariantsUnits, PurchasesUnits DEF CatalogueNext

\* At first the stock is what was supplied.
LEMMA UnitsInitInv == CatalogueInit => UnitsInv
<1> SUFFICES ASSUME CatalogueInit PROVE UnitsInv
  OBVIOUS
<1>1. CatalogueInv /\ LinesType
  BY CatalogueInitInv DEF CatalogueInv
<1>2. PICK status \in {"draft", "active"}, price \in Prices, stock \in 0 .. MaxStock : product = NewProduct(status, price, stock) /\ supplied = stock
  BY DEF CatalogueInit
<1>3. product.stock = stock /\ stock \in Nat
  BY <1>2 DEF NewProduct
<1>4. DOMAIN variants = {} /\ \A o \in Purchases : orders[o] = NoOrder
  BY DEF CatalogueInit
<1>5. UnitsSound
  BY <1>4 DEF UnitsSound, OrderUnits, NoOrder
<1>6. VariantStock(variants) = 0
  BY <1>1, <1>4, VariantStockFacts DEF CatalogueInv, ProductSound
<1>7. Sold = 0
  <2>1. PICK f : f = HeldBy(orders)
    OBVIOUS
  <2>2. \A o \in Purchases : f[o] = 0
    <3>1. Cardinality({}) = 0 /\ NoOrder.lines \ NoOrder.back = {}
      BY FS_EmptySet DEF NoOrder
    <3> QED BY <1>4, <2>1, <3>1 DEF HeldBy
  <2>3. SumFunctionOnSet(f, Purchases) = 0
    BY <2>2, SumZero, PurchasesAssumption
  <2> QED BY <2>1, <2>3, SoldIs
<1>8. UnitsConserved
  BY <1>2, <1>3, <1>6, <1>7, UnitsAre
<1> QED BY <1>1, <1>5, <1>8 DEF UnitsInv

\* The invariants say what the rules of the database are to ensure.
LEMMA CatalogueInvImplies ==
    ASSUME CatalogueInv
    PROVE  /\ LinesFit /\ SellableHasUnit /\ PriceRangeTrue
           /\ StockRule(product) /\ \A v \in DOMAIN variants : variants[v].stock >= 0
  BY DEF CatalogueInv, SellableHasUnit, PriceRangeTrue, ProductSound, ActiveVariantRule, StockRule, VariantRows

LEMMA UnitsInvImplies == ASSUME UnitsInv PROVE CatalogueConsistent
  BY CatalogueInvImplies DEF UnitsInv, CatalogueConsistent

\* However a product's editing interleaves with carts, orders and returns, no stock is lost or invented, every line names a
\* unit that the product is sold as, an active product has something to sell, and its price range is true: for any number of
\* option values, carts, orders and prices (variant_admin_service.py and the triggers of the product_variants migrations).
THEOREM CatalogueTrue ==
    /\ CatalogueSpec => []CatalogueConsistent
    /\ Spec => []Catalogue_CatalogueConsistent
<1> DEFINE I == part = "catalogue" => UnitsInv
<1>1. Init => I
  BY UnitsInitInv DEF Init
<1>2. I /\ [Next]_vars => I'
  BY UnitsStep, PartStep
<1>3. I => Catalogue_CatalogueConsistent
  BY UnitsInvImplies DEF Catalogue_CatalogueConsistent
<1> HIDE DEF I
<1>4. CatalogueSpec => []CatalogueConsistent
  <2>1. UnitsInv => CatalogueConsistent
    BY UnitsInvImplies
  <2>2. UnitsInv /\ [CatalogueNext]_catalogueVars => UnitsInv'
    BY UnitsStep
  <2> QED BY <2>1, <2>2, UnitsInitInv, PTL DEF CatalogueSpec
<1>5. Spec => []Catalogue_CatalogueConsistent
  BY <1>1, <1>2, <1>3, PTL DEF Spec
<1> QED BY <1>4, <1>5

\* No step takes the stock of a unit below zero or leaves stock on a product that is sold through its variants. Checkout and
\* the restocking of a cancelled order ensure it themselves; an edit or a return that would break it is refused by the
\* constraints of the products table (order_service.py, product_repository.py).
THEOREM NothingOversold ==
    CatalogueSpec => [](StockRule(product) /\ \A v \in DOMAIN variants : variants[v].stock >= 0)
<1>1. CatalogueInv => StockRule(product) /\ \A v \in DOMAIN variants : variants[v].stock >= 0
  BY CatalogueInvImplies
<1>2. CatalogueInv /\ [CatalogueNext]_catalogueVars => CatalogueInv'
  BY CatalogueStep
<1> QED BY <1>1, <1>2, CatalogueInitInv, PTL DEF CatalogueSpec
==============================================================================
