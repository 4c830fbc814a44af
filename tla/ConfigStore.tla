----------------------------- MODULE ConfigStore -----------------------------
(***************************************************************************)
(* The files of ~/.config/ws1 and the keychain (internal/auth).  No file   *)
(* is locked and none is replaced at once: os.WriteFile empties the file   *)
(* and then fills it, so an operation that writes is two steps, and one    *)
(* that changes what it has read is three.                                 *)
(***************************************************************************)
CONSTANTS Names,    \* profile names
          Clients,  \* OAuth client ids
          OGs       \* organization group ids

CutId == "cut"   \* a client id that lost its end: nobody's
ClientIds == Clients \cup {CutId}

Nobody == [n \in {} |-> n]   \* profiles.yaml that is missing or empty
Torn   == [torn |-> TRUE]    \* profiles.yaml that does not parse
Unset     == "unset"         \* no such file
Truncated == "truncated"     \* the active-profile file, emptied or holding no valid name

VARIABLES
  profiles,  \* profiles.yaml: from the names it lists to their client ids
  secrets,   \* the keychain: from <<name, client>> to whether it is right
  active,    \* the active-profile file
  og         \* the group file, where empty and missing read the same

files == <<profiles, secrets, active, og>>

Upsert(f, k, v) == [x \in DOMAIN f \cup {k} |-> IF x = k THEN v ELSE f[x]]

(* LoadProfiles: a file that does not parse is an error, an empty one none. *)
Readable == profiles # Torn

(* FindProfile. *)
Configured(n) == Readable /\ n \in DOMAIN profiles

(* SaveProfile: the profiles it has read, with one more or one replaced,    *)
(* into a file that is emptied first.                                       *)
TruncateProfiles == profiles' = Nobody /\ UNCHANGED <<secrets, active, og>>

(* A text over one that another process has put there since, and that is    *)
(* longer: its end stays, as entries or as no YAML.                         *)
Overlaid(doc, tail) ==
  [n \in DOMAIN doc \cup tail |-> IF n \in tail THEN profiles[n] ELSE doc[n]]

WriteProfiles(doc) ==
  /\ profiles' \in IF profiles = Nobody THEN {doc}
                   ELSE {doc, Torn} \cup
                        {Overlaid(doc, tail) : tail \in SUBSET (DOMAIN profiles \cap Names)}
  /\ UNCHANGED <<secrets, active, og>>

(* A full disk: what got into the file need not parse, or is some of the    *)
(* entries (their order is not modelled), the last one with its client id   *)
(* whole or short of its end.                                               *)
Begun(doc, whole, last) ==
  [n \in whole \cup last |-> IF n \in last THEN CutId ELSE doc[n]]

CutProfiles(doc) ==
  /\ profiles' \in {Torn} \cup
       {Begun(doc, whole, last) : whole \in SUBSET DOMAIN doc,
                                  last \in {{}} \cup {{n} : n \in DOMAIN doc}}
  /\ UNCHANGED <<secrets, active, og>>

(* SaveClientSecret: the account is the name and the client id together.    *)
StoreSecret(n, c, right) ==
  secrets' = Upsert(secrets, <<n, c>>, right) /\ UNCHANGED <<profiles, active, og>>

(* It fails, or is killed: a keychain has what it had, a file on disk       *)
(* (saveDiskSecret) may be left emptied or cut.                             *)
SpoilSecret(n, c) ==
  /\ secrets' \in {secrets, Upsert(secrets, <<n, c>>, FALSE)}
  /\ UNCHANGED <<profiles, active, og>>

(* SetActive, where the end of another's longer name can stay behind, and   *)
(* SetOG.                                                                   *)
PutActive(a) ==
  /\ active' \in {a} \cup IF active = Truncated THEN {} ELSE {Truncated}
  /\ UNCHANGED <<profiles, secrets, og>>
PutOG(g) == og' = g /\ UNCHANGED <<profiles, secrets, active>>

Accounts == Names \X ClientIds
PartialFunctions(S, T) == UNION {[D -> T] : D \in SUBSET S}

StoreOK ==
  /\ profiles \in PartialFunctions(Names, ClientIds) \cup {Torn}
  /\ secrets \in PartialFunctions(Accounts, BOOLEAN)
  /\ active \in Names \cup {Unset, Truncated}
  /\ og \in OGs \cup {Unset}
=============================================================================
