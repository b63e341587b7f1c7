-------------------------------- MODULE SSHVault -------------------------------
(***************************************************************************)
(* tools/ssh_vault.py with the profile bar of the Remote Server Manager    *)
(* (gui/tools/ssh_remote_window.py): a key file created on first use, a    *)
(* table of encrypted passwords, and windows that each keep a list read    *)
(* from the table, a selection and a password field. Several windows can   *)
(* be open, in one process or in several that start, crash and run side    *)
(* by side. A profile is its password here; the order of the list is left  *)
(* out, and so are the errors of a locked database.                        *)
(***************************************************************************)
EXTENDS Naturals, FiniteSets, FiniteSetsExt

CONSTANTS
  Procs,      \* processes of the program
  MaxWindows, \* windows of each process (a bound)
  Keys,       \* keys that can be generated (a bound)
  Passwords,  \* what the user types
  MaxRows,    \* profiles ever inserted (a bound)
  Blank,      \* the empty password, shown too for a row that does not decrypt
  Partial,    \* a key file that is created and not yet written
  None        \* None, and no key file

Ids == 1..MaxRows
Windows == Procs \X (1..MaxWindows)

ASSUME BoundsAssumption == MaxRows \in Nat /\ MaxWindows \in Nat /\ IsFiniteSet(Procs)
ASSUME KeysAssumption == {None, Partial} \cap Keys = {} /\ None # Partial
ASSUME PasswordsAssumption == Blank \notin Passwords
ASSUME NoneAssumption == None \notin Ids

VARIABLES
  keyFile,   \* content of ssh_vault.key: None, Partial, or a key
  used,      \* keys generated so far
  pc,        \* pc[p]: how far process p has opened the vault
  key,       \* key[p]: the key of p's Fernet
  rows,      \* rows[r]: password of row r and the key that encrypted it
  lastId,    \* ids are AUTOINCREMENT: never used twice
  open,      \* the windows that are open
  list,      \* list[w]: passwords in _profiles of w, by id
  selected,  \* selected[w]: _selected_id of w
  entry,     \* entry[w]: content of w's password field
  deletedBy, \* history: the window that deleted each deleted row
  raced      \* history: two processes were generating a key at a time

vault == <<keyFile, used, pc, key, raced>>
table == <<rows, lastId, deletedBy>>
window == <<open, list, selected, entry>>
vars == <<vault, table, window>>

NoRows == [r \in {} |-> Blank]

Init ==
  /\ keyFile = None /\ used = {} /\ raced = FALSE
  /\ pc = [p \in Procs |-> "down"] /\ key = [p \in Procs |-> None]
  /\ rows = NoRows /\ lastId = 0 /\ deletedBy = NoRows
  /\ open = {} /\ list = [w \in Windows |-> NoRows]
  /\ selected = [w \in Windows |-> None] /\ entry = [w \in Windows |-> Blank]

\* list_profiles of process p on table t: a row that _decrypt refuses is
\* listed with an empty password.
Listed(p, t) == [r \in DOMAIN t |-> IF t[r].key = key[p] THEN t[r].password ELSE Blank]

--------------------------------------------------------------------------------
(* Opening the vault, with the first window of a process. *)

Generate(p) ==
  /\ pc' = [pc EXCEPT ![p] = "generate"]
  /\ raced' = (raced \/ \E q \in Procs : pc[q] \in {"generate", "write"})
  /\ UNCHANGED key

\* Faulty variant: a key is generated although the file is there.
OpenVaultGenerating(p) ==
  /\ pc[p] = "down"
  /\ Generate(p)
  /\ UNCHANGED <<keyFile, used, table, window>>

\* _load_or_create_key tests for the file. A file without a key makes the
\* constructor of Fernet raise, and the next window tries again.
OpenVault(p) ==
  /\ pc[p] = "down"
  /\ \/ /\ keyFile \in Keys
        /\ key' = [key EXCEPT ![p] = keyFile]
        /\ pc' = [pc EXCEPT ![p] = "up"]
        /\ UNCHANGED raced
     \/ keyFile = None /\ Generate(p)
  /\ UNCHANGED <<keyFile, used, table, window>>

\* Fernet.generate_key, and write_bytes creates or truncates the file ...
CreateFile(p) ==
  /\ pc[p] = "generate"
  /\ \E k \in Keys \ used :
       /\ used' = used \cup {k}
       /\ key' = [key EXCEPT ![p] = k]
  /\ keyFile' = Partial
  /\ pc' = [pc EXCEPT ![p] = "write"]
  /\ UNCHANGED <<raced, table, window>>

\* ... and writes the key.
WriteKey(p) ==
  /\ pc[p] = "write"
  /\ keyFile' = key[p]
  /\ pc' = [pc EXCEPT ![p] = "up"]
  /\ UNCHANGED <<used, key, raced, table, window>>

\* The windows of ws show nothing any more.
Gone(ws) ==
  /\ open' = open \ ws
  /\ list' = [w \in Windows |-> IF w \in ws THEN NoRows ELSE list[w]]
  /\ selected' = [w \in Windows |-> IF w \in ws THEN None ELSE selected[w]]
  /\ entry' = [w \in Windows |-> IF w \in ws THEN Blank ELSE entry[w]]

\* The process ends, at any step.
Crash(p) ==
  /\ pc[p] # "down"
  /\ pc' = [pc EXCEPT ![p] = "down"]
  /\ key' = [key EXCEPT ![p] = None]
  /\ Gone({p} \X (1..MaxWindows))
  /\ UNCHANGED <<keyFile, used, raced, table>>

--------------------------------------------------------------------------------
(* The windows. *)

\* _refresh_profiles, on the table the step leaves.
Refresh(w) == list' = [list EXCEPT ![w] = Listed(w[1], rows')]

OpenWindow(w) ==
  /\ pc[w[1]] = "up" /\ w \notin open
  /\ open' = open \cup {w}
  /\ UNCHANGED <<vault, table, selected, entry>>
  /\ Refresh(w)

CloseWindow(w) ==
  /\ w \in open
  /\ Gone({w})
  /\ UNCHANGED <<vault, table>>

Type(w, x) ==
  /\ w \in open
  /\ entry' = [entry EXCEPT ![w] = x]
  /\ UNCHANGED <<vault, table, open, list, selected>>

\* _load_profile, from a list that may be older than the table.
Pick(w, r) ==
  /\ w \in open
  /\ r \in DOMAIN list[w]
  /\ selected' = [selected EXCEPT ![w] = r]
  /\ entry' = [entry EXCEPT ![w] = list[w][r]]
  /\ UNCHANGED <<vault, table, open, list>>

\* The form keeps what it shows.
PickManual(w) ==
  /\ w \in open
  /\ selected' = [selected EXCEPT ![w] = None]
  /\ UNCHANGED <<vault, table, open, list, entry>>

\* SSHVault.save: INSERT as row r, or UPDATE of the rows with that id.
Insert(w, r) ==
  /\ selected[w] = None /\ r \in Ids
  /\ lastId' = r
  /\ rows' = [q \in DOMAIN rows \cup {r} |->
                IF q = r THEN [key |-> key[w[1]], password |-> entry[w]] ELSE rows[q]]
  /\ selected' = [selected EXCEPT ![w] = r]

Update(w) ==
  /\ selected[w] # None
  /\ rows' = [q \in DOMAIN rows |->
                IF q = selected[w] THEN [key |-> key[w[1]], password |-> entry[w]] ELSE rows[q]]
  /\ UNCHANGED <<lastId, selected>>

\* Faulty variant: without AUTOINCREMENT the id of the last row is used again.
SaveReusingIds(w) ==
  /\ w \in open
  /\ Insert(w, Max(DOMAIN rows \cup {0}) + 1) \/ Update(w)
  /\ UNCHANGED <<vault, deletedBy, open, entry>>
  /\ Refresh(w)

\* _save_profile
Save(w) ==
  /\ w \in open
  /\ Insert(w, lastId + 1) \/ Update(w)
  /\ UNCHANGED <<vault, deletedBy, open, entry>>
  /\ Refresh(w)

DeleteRow(w, r) ==
  /\ rows' = [q \in DOMAIN rows \ {r} |-> rows[q]]
  /\ deletedBy' = [q \in DOMAIN deletedBy \cup (DOMAIN rows \cap {r}) |->
                     IF q \in DOMAIN rows THEN w ELSE deletedBy[q]]

\* Faulty variant: the window still points at the row it has deleted.
DeleteKeepingSelection(w) ==
  /\ w \in open
  /\ selected[w] # None
  /\ DeleteRow(w, selected[w])
  /\ UNCHANGED <<vault, lastId, open, selected, entry>>
  /\ Refresh(w)

\* _delete_profile, confirmed.
Delete(w) ==
  /\ w \in open
  /\ selected[w] # None
  /\ DeleteRow(w, selected[w])
  /\ selected' = [selected EXCEPT ![w] = None]
  /\ UNCHANGED <<vault, lastId, open, entry>>
  /\ Refresh(w)

\* The Reload button.
Reload(w) ==
  /\ w \in open
  /\ UNCHANGED <<vault, table, open, selected, entry>>
  /\ Refresh(w)

--------------------------------------------------------------------------------
Process(p) == OpenVault(p) \/ CreateFile(p) \/ WriteKey(p) \/ Crash(p)

User(w) ==
  \/ OpenWindow(w) \/ CloseWindow(w)
  \/ \E x \in Passwords : Type(w, x)
  \/ \E r \in Ids : Pick(w, r)
  \/ PickManual(w) \/ Save(w) \/ Delete(w) \/ Reload(w)

Next == (\E p \in Procs : Process(p)) \/ \E w \in Windows : User(w)

Spec == Init /\ [][Next]_vars

--------------------------------------------------------------------------------
(* Properties. *)

TypeOK ==
  /\ keyFile \in Keys \cup {None, Partial} /\ used \subseteq Keys
  /\ pc \in [Procs -> {"down", "generate", "write", "up"}]
  /\ key \in [Procs -> Keys \cup {None}]
  /\ lastId \in 0..MaxRows
  /\ DOMAIN rows \subseteq 1..lastId
  /\ \A r \in DOMAIN rows : rows[r] \in [key : Keys, password : Passwords \cup {Blank}]
  /\ DOMAIN deletedBy \subseteq 1..lastId /\ \A r \in DOMAIN deletedBy : deletedBy[r] \in Windows
  /\ open \subseteq {w \in Windows : pc[w[1]] = "up"}
  /\ \A w \in Windows : DOMAIN list[w] \subseteq 1..lastId
  /\ selected \in [Windows -> Ids \cup {None}]
  /\ entry \in [Windows -> Passwords \cup {Blank}]
  /\ raced \in BOOLEAN

\* A saved password can be read back by every later run of the program: the
\* rows are encrypted with the key that is in the file, through crashes while
\* the file is created and restarts, unless two processes create it at a time.
Readable == raced \/ \A r \in DOMAIN rows : rows[r].key = keyFile

\* A window never has a profile selected that it deleted itself: the next save
\* makes a new one.
SelectionNotDeletedHere ==
  \A w \in Windows : selected[w] \in DOMAIN deletedBy => deletedBy[selected[w]] # w

\* The vault as its users see it, with every window that is open: what one of
\* them still selects never is another profile with a reused id.
Store == INSTANCE PasswordStore WITH
  Profiles <- Ids,
  Passwords <- Passwords \cup {Blank},
  store <- [r \in DOMAIN rows |-> rows[r].password],
  gone <- DOMAIN deletedBy

ImplementsPasswordStore == Store!Spec
================================================================================
