----------------------------- MODULE SSHVaultProofs ----------------------------
(***************************************************************************)
(* Proofs about SSHVault for every number of processes, windows and rows:  *)
(* a window never selects what it deleted, and the table with its windows  *)
(* implements PasswordStore.                                               *)
(***************************************************************************)
EXTENDS SSHVault, TLAPS

Shown == Passwords \cup {Blank}

TableTyped ==
  /\ lastId \in 0..MaxRows
  /\ DOMAIN rows \subseteq 1..lastId
  /\ DOMAIN deletedBy \subseteq 1..lastId
  /\ DOMAIN rows \cap DOMAIN deletedBy = {}
  /\ \A r \in DOMAIN rows : rows[r].password \in Shown

WindowsTyped ==
  /\ selected \in [Windows -> Ids \cup {None}]
  /\ entry \in [Windows -> Shown]
  /\ DOMAIN list = Windows
  /\ \A w \in Windows : \A r \in DOMAIN list[w] : list[w][r] \in Shown

\* A list never shows what its own window deleted, and no list or selection
\* knows an id that was not given out.
ListNotDeletedHere ==
  \A w \in Windows : \A r \in DOMAIN list[w] :
    r \in 1..lastId /\ (r \in DOMAIN deletedBy => deletedBy[r] # w)

IInv == TableTyped /\ WindowsTyped /\ ListNotDeletedHere /\ SelectionNotDeletedHere

--------------------------------------------------------------------------------
(* A list that is read from the table is as the invariant wants it. *)
LEMMA ListedShown ==
  ASSUME NEW p, NEW t, \A r \in DOMAIN t : t[r].password \in Shown
  PROVE  /\ DOMAIN Listed(p, t) = DOMAIN t
         /\ \A r \in DOMAIN t : Listed(p, t)[r] \in Shown
BY DEF Listed, Shown

LEMMA RefreshKeepsLists ==
  ASSUME IInv, TableTyped', NEW w \in Windows, Refresh(w),
         \A v \in Windows : \A r \in DOMAIN deletedBy' :
            r \in DOMAIN deletedBy \/ v = w \/ deletedBy'[r] = w,
         \A r \in DOMAIN deletedBy : r \in DOMAIN deletedBy' /\ deletedBy'[r] = deletedBy[r],
         lastId' >= lastId
  PROVE  /\ DOMAIN list' = Windows
         /\ \A v \in Windows : \A r \in DOMAIN list'[v] : list'[v][r] \in Shown
         /\ ListNotDeletedHere'
<1>1. lastId \in Nat /\ lastId' \in Nat BY BoundsAssumption DEF IInv, TableTyped
<1>2. DOMAIN list' = Windows BY DEF IInv, WindowsTyped, Refresh
<1>3. ASSUME NEW v \in Windows
      PROVE  /\ \A r \in DOMAIN list'[v] : list'[v][r] \in Shown
             /\ \A r \in DOMAIN list'[v] :
                  r \in 1..lastId' /\ (r \in DOMAIN deletedBy' => deletedBy'[r] # v)
  <2>1. CASE v = w
    <3>1. list'[v] = Listed(w[1], rows') BY <2>1 DEF IInv, WindowsTyped, Refresh
    <3>2. \A r \in DOMAIN rows' : rows'[r].password \in Shown BY DEF TableTyped
    <3>3. /\ DOMAIN Listed(w[1], rows') = DOMAIN rows'
          /\ \A r \in DOMAIN rows' : Listed(w[1], rows')[r] \in Shown BY <3>2, ListedShown
    <3> QED BY <3>1, <3>3 DEF TableTyped
  <2>2. CASE v # w
    <3>1. list'[v] = list[v] BY <2>2 DEF IInv, WindowsTyped, Refresh
    <3>2. \A r \in DOMAIN list[v] : list[v][r] \in Shown BY DEF IInv, WindowsTyped
    <3>3. ASSUME NEW r \in DOMAIN list[v]
          PROVE  r \in 1..lastId' /\ (r \in DOMAIN deletedBy' => deletedBy'[r] # v)
      <4>1. r \in 1..lastId /\ (r \in DOMAIN deletedBy => deletedBy[r] # v)
        BY DEF IInv, ListNotDeletedHere
      <4>2. r \in 1..lastId' BY <4>1, <1>1
      <4>3. ASSUME r \in DOMAIN deletedBy' PROVE deletedBy'[r] # v
        <5>1. CASE r \in DOMAIN deletedBy BY <5>1, <4>1
        <5>2. CASE deletedBy'[r] = w BY <5>2, <2>2
        <5> QED BY <5>1, <5>2, <4>3, <2>2
      <4> QED BY <4>2, <4>3
    <3> QED BY <3>1, <3>2, <3>3
  <2> QED BY <2>1, <2>2
<1> QED BY <1>2, <1>3 DEF ListNotDeletedHere

LEMMA InitIInv == Init => IInv
BY BoundsAssumption DEF Init, IInv, TableTyped, WindowsTyped, ListNotDeletedHere, SelectionNotDeletedHere, NoRows, Shown

LEMMA TypeKeeps == ASSUME IInv, NEW w \in Windows, NEW x \in Passwords, Type(w, x) PROVE IInv'
BY DEF IInv, TableTyped, WindowsTyped, ListNotDeletedHere, SelectionNotDeletedHere, Type, table, Shown

LEMMA PickKeeps == ASSUME IInv, NEW w \in Windows, NEW r \in Ids, Pick(w, r) PROVE IInv'
<1>1. list[w][r] \in Shown /\ (r \in DOMAIN deletedBy => deletedBy[r] # w)
  BY DEF IInv, Pick, WindowsTyped, ListNotDeletedHere
<1>2. TableTyped' /\ ListNotDeletedHere'
  BY DEF IInv, TableTyped, ListNotDeletedHere, Pick, table
<1>3. WindowsTyped' BY <1>1 DEF IInv, WindowsTyped, Pick
<1>4. SelectionNotDeletedHere'
  BY <1>1 DEF IInv, WindowsTyped, SelectionNotDeletedHere, Pick, table
<1> QED BY <1>2, <1>3, <1>4 DEF IInv

LEMMA PickManualKeeps == ASSUME IInv, NEW w \in Windows, PickManual(w) PROVE IInv'
<1>1. TableTyped' /\ ListNotDeletedHere' /\ WindowsTyped'
  BY DEF IInv, TableTyped, WindowsTyped, ListNotDeletedHere, PickManual, table
<1>2. None \notin DOMAIN deletedBy BY NoneAssumption, BoundsAssumption DEF IInv, TableTyped, Ids
<1>3. SelectionNotDeletedHere'
  BY <1>2 DEF IInv, WindowsTyped, SelectionNotDeletedHere, PickManual, table
<1> QED BY <1>1, <1>3 DEF IInv

LEMMA OpenWindowKeeps == ASSUME IInv, NEW w \in Windows, OpenWindow(w) PROVE IInv'
<1>1. TableTyped' BY DEF IInv, TableTyped, OpenWindow, table
<1>2. UNCHANGED <<lastId, deletedBy, selected, entry>> /\ Refresh(w) BY DEF OpenWindow, table
<1>3. DOMAIN list' = Windows /\ ListNotDeletedHere'
      /\ \A v \in Windows : \A r \in DOMAIN list'[v] : list'[v][r] \in Shown
  BY <1>1, <1>2, RefreshKeepsLists, BoundsAssumption DEF IInv, TableTyped
<1>4. WindowsTyped' /\ SelectionNotDeletedHere'
  BY <1>2, <1>3 DEF IInv, WindowsTyped, SelectionNotDeletedHere
<1> QED BY <1>1, <1>3, <1>4 DEF IInv

LEMMA ReloadKeeps == ASSUME IInv, NEW w \in Windows, Reload(w) PROVE IInv'
<1>1. TableTyped' BY DEF IInv, TableTyped, Reload, table
<1>2. UNCHANGED <<lastId, deletedBy, selected, entry>> /\ Refresh(w) BY DEF Reload, table
<1>3. DOMAIN list' = Windows /\ ListNotDeletedHere'
      /\ \A v \in Windows : \A r \in DOMAIN list'[v] : list'[v][r] \in Shown
  BY <1>1, <1>2, RefreshKeepsLists, BoundsAssumption DEF IInv, TableTyped
<1>4. WindowsTyped' /\ SelectionNotDeletedHere'
  BY <1>2, <1>3 DEF IInv, WindowsTyped, SelectionNotDeletedHere
<1> QED BY <1>1, <1>3, <1>4 DEF IInv

LEMMA GoneKeeps == ASSUME IInv, NEW ws, Gone(ws), UNCHANGED table PROVE IInv'
<1>1. TableTyped' BY DEF IInv, TableTyped, table
<1>2. \A w \in Windows :
        /\ list'[w] = NoRows \/ list'[w] = list[w]
        /\ selected'[w] = None \/ selected'[w] = selected[w]
  BY DEF Gone
<1>3. WindowsTyped' BY DEF IInv, WindowsTyped, Gone, NoRows, Shown
<1>4. ListNotDeletedHere'
  BY <1>2 DEF IInv, ListNotDeletedHere, NoRows, table
<1>5. None \notin DOMAIN deletedBy BY NoneAssumption, BoundsAssumption DEF IInv, TableTyped, Ids
<1>6. SelectionNotDeletedHere'
  BY <1>2, <1>5 DEF IInv, SelectionNotDeletedHere, table
<1> QED BY <1>1, <1>3, <1>4, <1>6 DEF IInv

LEMMA InsertKeeps ==
  ASSUME IInv, NEW w \in Windows, Insert(w, lastId + 1), Refresh(w), UNCHANGED <<deletedBy, entry>>
  PROVE  IInv'
<1>1. lastId \in Nat /\ lastId' = lastId + 1 /\ lastId + 1 \in Ids
  BY BoundsAssumption DEF IInv, TableTyped, Insert
<1>2. lastId + 1 \notin DOMAIN deletedBy BY <1>1 DEF IInv, TableTyped
<1>3. entry[w] \in Shown BY DEF IInv, WindowsTyped
<1>4. /\ DOMAIN rows' = DOMAIN rows \cup {lastId + 1}
      /\ \A r \in DOMAIN rows' : rows'[r].password = entry[w] \/ (r \in DOMAIN rows /\ rows'[r] = rows[r])
  BY DEF Insert
<1>5. TableTyped'
  <2>1. lastId' \in 0..MaxRows BY <1>1, BoundsAssumption DEF Ids
  <2>2. DOMAIN rows' \subseteq 1..lastId' /\ DOMAIN deletedBy' \subseteq 1..lastId'
    BY <1>1, <1>4 DEF IInv, TableTyped
  <2>3. DOMAIN rows' \cap DOMAIN deletedBy' = {} BY <1>2, <1>4 DEF IInv, TableTyped
  <2>4. \A r \in DOMAIN rows' : rows'[r].password \in Shown BY <1>3, <1>4 DEF IInv, TableTyped
  <2> QED BY <2>1, <2>2, <2>3, <2>4 DEF TableTyped
<1>6. DOMAIN list' = Windows /\ ListNotDeletedHere'
      /\ \A v \in Windows : \A r \in DOMAIN list'[v] : list'[v][r] \in Shown
  BY <1>1, <1>5, RefreshKeepsLists
<1>7. selected' = [selected EXCEPT ![w] = lastId + 1] BY DEF Insert
<1>8. WindowsTyped' BY <1>1, <1>6, <1>7 DEF IInv, WindowsTyped
<1>9. SelectionNotDeletedHere'
  BY <1>2, <1>7 DEF IInv, WindowsTyped, SelectionNotDeletedHere
<1> QED BY <1>5, <1>6, <1>8, <1>9 DEF IInv

LEMMA UpdateKeeps ==
  ASSUME IInv, NEW w \in Windows, Update(w), Refresh(w), UNCHANGED <<deletedBy, entry>>
  PROVE  IInv'
<1>1. entry[w] \in Shown BY DEF IInv, WindowsTyped
<1>2. /\ DOMAIN rows' = DOMAIN rows
      /\ \A r \in DOMAIN rows : rows'[r].password = entry[w] \/ rows'[r] = rows[r]
  BY DEF Update
<1>3. TableTyped' BY <1>1, <1>2 DEF IInv, TableTyped, Update
<1>4. DOMAIN list' = Windows /\ ListNotDeletedHere'
      /\ \A v \in Windows : \A r \in DOMAIN list'[v] : list'[v][r] \in Shown
  BY <1>3, RefreshKeepsLists, BoundsAssumption DEF IInv, TableTyped, Update
<1>5. WindowsTyped' /\ SelectionNotDeletedHere'
  BY <1>4 DEF IInv, WindowsTyped, SelectionNotDeletedHere, Update
<1> QED BY <1>3, <1>4, <1>5 DEF IInv

LEMMA DeleteKeeps == ASSUME IInv, NEW w \in Windows, Delete(w) PROVE IInv'
<1> DEFINE s == selected[w]
<1>1. /\ DOMAIN rows' = DOMAIN rows \ {s}
      /\ \A r \in DOMAIN rows' : rows'[r] = rows[r]
      /\ DOMAIN deletedBy' = DOMAIN deletedBy \cup (DOMAIN rows \cap {s})
      /\ \A r \in DOMAIN deletedBy' : deletedBy'[r] = IF r \in DOMAIN rows THEN w ELSE deletedBy[r]
  BY DEF Delete, DeleteRow
<1>2. lastId' = lastId /\ entry' = entry /\ Refresh(w) /\ selected' = [selected EXCEPT ![w] = None]
  BY DEF Delete
<1>3. TableTyped' BY <1>1, <1>2 DEF IInv, TableTyped
<1>4. \A r \in DOMAIN deletedBy : r \in DOMAIN deletedBy' /\ deletedBy'[r] = deletedBy[r]
  BY <1>1 DEF IInv, TableTyped
<1>5. \A r \in DOMAIN deletedBy' : r \in DOMAIN deletedBy \/ deletedBy'[r] = w BY <1>1
<1>6. DOMAIN list' = Windows /\ ListNotDeletedHere'
      /\ \A v \in Windows : \A r \in DOMAIN list'[v] : list'[v][r] \in Shown
  BY <1>2, <1>3, <1>4, <1>5, RefreshKeepsLists, BoundsAssumption DEF IInv, TableTyped
<1>7. WindowsTyped' BY <1>2, <1>6 DEF IInv, WindowsTyped
<1>8. None \notin DOMAIN deletedBy'
  BY <1>3, NoneAssumption, BoundsAssumption DEF TableTyped, Ids
<1>9. SelectionNotDeletedHere'
  <2> SUFFICES ASSUME NEW v \in Windows, selected'[v] \in DOMAIN deletedBy'
               PROVE  deletedBy'[selected'[v]] # v
    BY DEF SelectionNotDeletedHere
  <2>1. v # w BY <1>2, <1>8 DEF IInv, WindowsTyped
  <2>2. selected'[v] = selected[v] BY <1>2, <2>1 DEF IInv, WindowsTyped
  <2>3. CASE selected[v] \in DOMAIN deletedBy
    BY <2>2, <2>3, <1>4 DEF IInv, SelectionNotDeletedHere
  <2>4. CASE deletedBy'[selected[v]] = w BY <2>1, <2>2, <2>4
  <2> QED BY <1>5, <2>2, <2>3, <2>4
<1> QED BY <1>3, <1>6, <1>7, <1>9 DEF IInv
--------------------------------------------------------------------------------
(* Every step keeps the invariant. *)
LEMMA NextKeeps == IInv /\ [Next]_vars => IInv'
<1> SUFFICES ASSUME IInv, [Next]_vars PROVE IInv' OBVIOUS
<1>1. CASE UNCHANGED vars
  BY <1>1 DEF vars, table, window, IInv, TableTyped, WindowsTyped, ListNotDeletedHere,
              SelectionNotDeletedHere
<1>2. CASE \E p \in Procs : Process(p)
  <2> PICK p \in Procs : Process(p) BY <1>2
  <2>1. CASE Crash(p) BY <2>1, GoneKeeps DEF Crash
  <2>2. CASE OpenVault(p) \/ CreateFile(p) \/ WriteKey(p)
    <3>1. UNCHANGED <<table, window>> BY <2>2 DEF OpenVault, CreateFile, WriteKey
    <3> QED
      BY <3>1 DEF table, window, IInv, TableTyped, WindowsTyped, ListNotDeletedHere,
                  SelectionNotDeletedHere
  <2> QED BY <2>1, <2>2 DEF Process
<1>3. CASE \E w \in Windows : User(w)
  <2> PICK w \in Windows : User(w) BY <1>3
  <2>1. CASE OpenWindow(w) BY <2>1, OpenWindowKeeps
  <2>2. CASE CloseWindow(w) BY <2>2, GoneKeeps DEF CloseWindow
  <2>3. CASE \E x \in Passwords : Type(w, x) BY <2>3, TypeKeeps
  <2>4. CASE \E r \in Ids : Pick(w, r) BY <2>4, PickKeeps
  <2>5. CASE PickManual(w) BY <2>5, PickManualKeeps
  <2>6. CASE Save(w) BY <2>6, InsertKeeps, UpdateKeeps DEF Save
  <2>7. CASE Delete(w) BY <2>7, DeleteKeeps
  <2>8. CASE Reload(w) BY <2>8, ReloadKeeps
  <2> QED BY <2>1, <2>2, <2>3, <2>4, <2>5, <2>6, <2>7, <2>8 DEF User
<1> QED BY <1>1, <1>2, <1>3 DEF Next

\* The inductive invariant holds in every reachable state, for any number of
\* processes, windows and rows.
THEOREM Inductive == Spec => []IInv
BY InitIInv, NextKeeps, PTL DEF Spec

\* A window never has a profile selected that it deleted itself.
THEOREM SelectionNotDeletedHereHolds == Spec => []SelectionNotDeletedHere
<1>1. IInv => SelectionNotDeletedHere BY DEF IInv
<1> QED BY <1>1, Inductive, PTL

--------------------------------------------------------------------------------
(* The refinement. *)
LEMMA InitImplements == Init => Store!Init
BY DEF Init, Store!Init, NoRows

LEMMA InsertImplements ==
  ASSUME IInv, NEW w \in Windows, Insert(w, lastId + 1), UNCHANGED deletedBy
  PROVE  Store!Next
<1>1. lastId + 1 \in Ids BY DEF Insert
<1>2. lastId + 1 \notin DOMAIN deletedBy BY BoundsAssumption DEF IInv, TableTyped
<1>3. entry[w] \in Passwords \cup {Blank} BY DEF IInv, WindowsTyped, Shown
<1>4. \A r, x : r = lastId + 1 /\ x = entry[w] => Store!Put(r, x)
  BY <1>2 DEF Store!Put, Insert
<1> QED BY <1>1, <1>3, <1>4 DEF Store!Next

LEMMA UpdateImplements ==
  ASSUME IInv, NEW w \in Windows, Update(w), UNCHANGED deletedBy
  PROVE  [Store!Next]_<<[r \in DOMAIN rows |-> rows[r].password], DOMAIN deletedBy>>
<1>1. CASE selected[w] \in DOMAIN rows
  <2>1. selected[w] \in Ids BY <1>1, BoundsAssumption DEF IInv, TableTyped, WindowsTyped, Update
  <2>2. selected[w] \notin DOMAIN deletedBy BY <1>1 DEF IInv, TableTyped
  <2>3. entry[w] \in Passwords \cup {Blank} BY DEF IInv, WindowsTyped, Shown
  <2>4. \A r, x : r = selected[w] /\ x = entry[w] => Store!Put(r, x)
    BY <1>1, <2>2 DEF Store!Put, Update
  <2> QED BY <2>1, <2>3, <2>4 DEF Store!Next
<1>2. CASE selected[w] \notin DOMAIN rows
  BY <1>2 DEF Update
<1> QED BY <1>1, <1>2

LEMMA DeleteImplements ==
  ASSUME IInv, NEW w \in Windows, Delete(w)
  PROVE  [Store!Next]_<<[r \in DOMAIN rows |-> rows[r].password], DOMAIN deletedBy>>
<1>1. CASE selected[w] \in DOMAIN rows
  <2>1. DOMAIN deletedBy' = DOMAIN deletedBy \cup {selected[w]} BY <1>1 DEF Delete, DeleteRow
  <2>2. \A r : r = selected[w] => Store!Remove(r)
    BY <1>1, <2>1 DEF Store!Remove, Delete, DeleteRow
  <2> QED BY <1>1, <2>2 DEF Store!Next
<1>2. CASE selected[w] \notin DOMAIN rows
  <2>1. DOMAIN rows' = DOMAIN rows /\ \A r \in DOMAIN rows : rows'[r] = rows[r]
    BY <1>2 DEF Delete, DeleteRow
  <2>2. DOMAIN deletedBy' = DOMAIN deletedBy BY <1>2 DEF Delete, DeleteRow
  <2> QED BY <2>1, <2>2
<1> QED BY <1>1, <1>2

LEMMA NextImplements ==
  IInv /\ [Next]_vars
    => [Store!Next]_<<[r \in DOMAIN rows |-> rows[r].password], DOMAIN deletedBy>>
<1> SUFFICES ASSUME IInv, [Next]_vars
             PROVE  [Store!Next]_<<[r \in DOMAIN rows |-> rows[r].password], DOMAIN deletedBy>>
  OBVIOUS
<1>1. CASE UNCHANGED <<rows, deletedBy>> BY <1>1
<1>2. CASE UNCHANGED vars BY <1>1, <1>2 DEF vars, table
<1>3. CASE \E p \in Procs : Process(p)
  BY <1>1, <1>3 DEF Process, OpenVault, CreateFile, WriteKey, Crash, table
<1>4. CASE \E w \in Windows : User(w)
  <2> PICK w \in Windows : User(w) BY <1>4
  <2>1. CASE Save(w) BY <2>1, InsertImplements, UpdateImplements DEF Save
  <2>2. CASE Delete(w) BY <2>2, DeleteImplements
  <2>3. CASE \/ OpenWindow(w) \/ CloseWindow(w) \/ PickManual(w) \/ Reload(w)
            \/ (\E x \in Passwords : Type(w, x)) \/ \E r \in Ids : Pick(w, r)
    BY <1>1, <2>3 DEF OpenWindow, CloseWindow, PickManual, Reload, Type, Pick, table
  <2> QED BY <2>1, <2>2, <2>3 DEF User
<1> QED BY <1>2, <1>3, <1>4 DEF Next

\* The vault implements the password store: whatever windows are open and
\* however stale their lists, a step saves or deletes one profile or nothing,
\* and no deleted profile comes back.
THEOREM Implements == Spec => ImplementsPasswordStore
<1>1. Init => Store!Init BY InitImplements
<1>2. IInv /\ [Next]_vars
        => [Store!Next]_<<[r \in DOMAIN rows |-> rows[r].password], DOMAIN deletedBy>>
  BY NextImplements
<1> QED BY <1>1, <1>2, Inductive, PTL DEF Spec, ImplementsPasswordStore, Store!Spec

--------------------------------------------------------------------------------
(* The key. *)

KeyTyped ==
  /\ keyFile \in Keys \cup {None, Partial} /\ used \subseteq Keys /\ raced \in BOOLEAN
  /\ pc \in [Procs -> {"down", "generate", "write", "up"}]
  /\ key \in [Procs -> Keys \cup {None}]
  /\ \A p \in Procs : pc[p] \in {"write", "up"} => key[p] \in Keys
  /\ open \subseteq {w \in Windows : pc[w[1]] = "up"}
  /\ \A r \in DOMAIN rows : rows[r] \in [key : Keys, password : Shown]
  /\ \A r \in DOMAIN deletedBy : deletedBy[r] \in Windows

\* Unless two processes create the file at a time, a process that is open has
\* the key of the file, and a file without a key means a table without rows.
OneKey ==
  raced \/ /\ \A p, q \in Procs : {pc[p], pc[q]} \subseteq {"generate", "write"} => p = q
           /\ \A p \in Procs : pc[p] = "generate" => keyFile = None
           /\ \A p \in Procs : pc[p] = "write" => keyFile = Partial
           /\ \A p \in Procs : pc[p] = "up" => keyFile \in Keys /\ key[p] = keyFile
           /\ \A r \in DOMAIN rows : keyFile \in Keys /\ rows[r].key = keyFile

KeyInv == KeyTyped /\ OneKey

LEMMA ProcessKeepsKey == ASSUME KeyInv, NEW p \in Procs, Process(p) PROVE KeyInv'
<1> None \notin Keys /\ Partial \notin Keys /\ None # Partial
  BY KeysAssumption
<1> USE DEF KeyInv, KeyTyped, OneKey, table, window
<1>1. CASE OpenVault(p)
  <2>1. CASE keyFile \in Keys /\ key' = [key EXCEPT ![p] = keyFile] /\ pc' = [pc EXCEPT ![p] = "up"] /\ UNCHANGED raced
    BY <1>1, <2>1 DEF OpenVault
  <2>2. CASE keyFile = None /\ Generate(p)
    <3>1. /\ pc' = [pc EXCEPT ![p] = "generate"] /\ UNCHANGED <<key, keyFile, used, table, window>>
          /\ raced' \in BOOLEAN /\ (~raced' => ~raced /\ \A q \in Procs : pc[q] \notin {"generate", "write"})
      BY <1>1, <2>2 DEF OpenVault, Generate
    <3> QED BY <1>1, <2>2, <3>1 DEF OpenVault
  <2> QED BY <1>1, <2>1, <2>2 DEF OpenVault
<1>2. CASE CreateFile(p)
  BY <1>2 DEF CreateFile
<1>3. CASE WriteKey(p)
  BY <1>3 DEF WriteKey
<1>4. CASE Crash(p)
  <2>1. open' = open \ ({p} \X (1..MaxWindows))
    BY <1>4 DEF Crash, Gone
  <2>2. \A w \in open' : w[1] # p
    BY <2>1 DEF Windows
  <2>3. /\ pc' = [pc EXCEPT ![p] = "down"] /\ key' = [key EXCEPT ![p] = None]
        /\ UNCHANGED <<keyFile, used, raced, rows, deletedBy>>
    BY <1>4 DEF Crash
  <2> QED BY <2>1, <2>2, <2>3
<1> QED BY <1>1, <1>2, <1>3, <1>4 DEF Process

LEMMA SaveKeepsKey == ASSUME KeyInv, IInv, NEW w \in Windows, Save(w) PROVE KeyInv'
<1> DEFINE row == [key |-> key[w[1]], password |-> entry[w]]
<1>1. w \in open /\ pc[w[1]] = "up" /\ w[1] \in Procs
  BY DEF Save, KeyInv, KeyTyped, Windows
<1>2. row \in [key : Keys, password : Shown] /\ row.key = key[w[1]]
  BY <1>1 DEF KeyInv, KeyTyped, IInv, WindowsTyped
<1>3. UNCHANGED <<vault, deletedBy, open>>
  BY DEF Save
<1> HIDE DEF row
<1>4. \E r : /\ DOMAIN rows' \subseteq DOMAIN rows \cup {r}
             /\ \A q \in DOMAIN rows' : rows'[q] = row \/ (q \in DOMAIN rows /\ rows'[q] = rows[q])
  <2>1. CASE Insert(w, lastId + 1)
    BY <2>1 DEF Insert, row
  <2>2. CASE Update(w)
    BY <2>2 DEF Update, row
  <2> QED BY <2>1, <2>2 DEF Save
<1>5. \A q \in DOMAIN rows' : rows'[q] \in [key : Keys, password : Shown]
  BY <1>2, <1>4 DEF KeyInv, KeyTyped
<1>6. ~raced => \A q \in DOMAIN rows' : keyFile \in Keys /\ rows'[q].key = keyFile
  BY <1>1, <1>2, <1>4 DEF KeyInv, OneKey
<1> QED BY <1>3, <1>5, <1>6 DEF KeyInv, KeyTyped, OneKey, vault

LEMMA UserKeepsKey == ASSUME KeyInv, IInv, NEW w \in Windows, User(w) PROVE KeyInv'
<1>1. CASE UNCHANGED <<vault, table>> /\ open' \subseteq open \cup {w} /\ (w \in open' => w \in open \/ pc[w[1]] = "up")
  BY <1>1 DEF KeyInv, KeyTyped, OneKey, vault, table
<1>2. CASE Delete(w)
  <2>1. /\ DOMAIN rows' \subseteq DOMAIN rows /\ \A r \in DOMAIN rows' : rows'[r] = rows[r]
        /\ \A r \in DOMAIN deletedBy' : deletedBy'[r] = w \/ (r \in DOMAIN deletedBy /\ deletedBy'[r] = deletedBy[r])
    BY <1>2 DEF Delete, DeleteRow
  <2>2. UNCHANGED <<vault, open>>
    BY <1>2 DEF Delete
  <2> QED BY <2>1, <2>2 DEF KeyInv, KeyTyped, OneKey, vault
<1> QED
  BY <1>1, <1>2, SaveKeepsKey
  DEF User, OpenWindow, CloseWindow, Gone, Type, Pick, PickManual, Reload, table

THEOREM KeyInvHolds == Spec => []KeyInv
<1>1. Init => KeyInv
  BY DEF Init, KeyInv, KeyTyped, OneKey, NoRows
<1>2. IInv /\ KeyInv /\ [Next]_vars => KeyInv'
  <2> SUFFICES ASSUME IInv, KeyInv, [Next]_vars PROVE KeyInv'
    OBVIOUS
  <2>1. CASE UNCHANGED vars
    BY <2>1 DEF vars, vault, table, window, KeyInv, KeyTyped, OneKey
  <2> QED BY <2>1, ProcessKeepsKey, UserKeepsKey DEF Next
<1> QED
  BY <1>1, <1>2, Inductive, PTL DEF Spec

\* Every variable of the vault and of its windows keeps its type.
THEOREM TypeCorrect == Spec => []TypeOK
<1>1. IInv /\ KeyInv => TypeOK
  BY DEF IInv, TableTyped, WindowsTyped, ListNotDeletedHere, KeyInv, KeyTyped, TypeOK, Shown
<1> QED
  BY <1>1, Inductive, KeyInvHolds, PTL

\* A saved password can be read back by every later run of the program,
\* through crashes while the key file is created, unless two processes create
\* it at a time.
THEOREM ReadableHolds == Spec => []Readable
<1>1. KeyInv => Readable
  BY DEF KeyInv, OneKey, Readable
<1> QED
  BY <1>1, KeyInvHolds, PTL
================================================================================
