----------------------------- MODULE SetupProofs -----------------------------
(***************************************************************************)
(* The configuration store for any number of processes, profiles, client   *)
(* ids and faults: what profiles.yaml, the keychain and the active-profile *)
(* file have to do with each other.                                        *)
(***************************************************************************)
EXTENDS Setup, SequenceTheorems, TLAPS

(* Upsert makes a partial function of a partial function, and adds its key. *)
LEMMA UpsertTyped ==
  ASSUME NEW S, NEW T, NEW f \in PartialFunctions(S, T), NEW k \in S, NEW v \in T
  PROVE  Upsert(f, k, v) \in PartialFunctions(S, T)
<1>1. PICK D \in SUBSET S : f \in [D -> T]
  BY DEF PartialFunctions
<1>2. Upsert(f, k, v) \in [D \cup {k} -> T]
  BY <1>1 DEF Upsert
<1>3. D \cup {k} \in SUBSET S
  BY <1>1
<1> QED
  BY <1>2, <1>3 DEF PartialFunctions

LEMMA UpsertAdds ==
  ASSUME NEW f, NEW k, NEW v
  PROVE  DOMAIN Upsert(f, k, v) = DOMAIN f \cup {k}
  BY DEF Upsert

LEMMA NobodyTyped == Nobody \in PartialFunctions(Names, ClientIds) /\ DOMAIN Nobody = {}
<1>1. Nobody \in [{} -> ClientIds]
  BY DEF Nobody
<1> QED
  BY <1>1 DEF PartialFunctions, Nobody

(* What a cut write leaves is part of what was written, but for client ids  *)
(* short of their end.                                                      *)
LEMMA BegunTyped ==
  ASSUME NEW d \in PartialFunctions(Names, ClientIds), NEW whole \in SUBSET DOMAIN d,
         NEW last \in {{}} \cup {{n} : n \in DOMAIN d}
  PROVE  /\ Begun(d, whole, last) \in PartialFunctions(Names, ClientIds)
         /\ \A n \in DOMAIN Begun(d, whole, last) :
              n \in DOMAIN d /\ Begun(d, whole, last)[n] \in {CutId, d[n]}
<1>1. PICK D \in SUBSET Names : d \in [D -> ClientIds]
  BY DEF PartialFunctions
<1>2. last \subseteq D
  BY <1>1
<1>3. Begun(d, whole, last) \in [whole \cup last -> ClientIds]
  BY <1>1, <1>2 DEF Begun, ClientIds
<1>4. \A n \in whole \cup last : n \in DOMAIN d /\ Begun(d, whole, last)[n] \in {CutId, d[n]}
  BY <1>1, <1>2 DEF Begun
<1> QED
  BY <1>1, <1>2, <1>3, <1>4 DEF PartialFunctions

(* What is written over another text is of the one or of the other.         *)
LEMMA OverlaidTyped ==
  ASSUME NEW d \in PartialFunctions(Names, ClientIds),
         profiles \in PartialFunctions(Names, ClientIds) \cup {Torn},
         NEW tail \in SUBSET (DOMAIN profiles \cap Names)
  PROVE  /\ Overlaid(d, tail) \in PartialFunctions(Names, ClientIds)
         /\ \A n \in DOMAIN Overlaid(d, tail) :
              \/ n \in DOMAIN d /\ Overlaid(d, tail)[n] = d[n]
              \/ Readable /\ n \in DOMAIN profiles /\ Overlaid(d, tail)[n] = profiles[n]
<1>1. PICK D \in SUBSET Names : d \in [D -> ClientIds]
  BY DEF PartialFunctions
<1>2. \A n \in tail : Readable /\ profiles[n] \in ClientIds
  <2>1. CASE profiles = Torn
    BY <2>1, SetupAssumption DEF Torn
  <2>2. CASE profiles # Torn
    BY <2>2 DEF Readable, PartialFunctions
  <2> QED
    BY <2>1, <2>2
<1>3. Overlaid(d, tail) \in [D \cup tail -> ClientIds]
  BY <1>1, <1>2 DEF Overlaid
<1>4. \A n \in D \cup tail :
        \/ n \in DOMAIN d /\ Overlaid(d, tail)[n] = d[n]
        \/ n \in tail /\ Overlaid(d, tail)[n] = profiles[n]
  BY <1>1 DEF Overlaid
<1>5. D \cup tail \in SUBSET Names
  BY <1>1
<1> QED
  BY <1>2, <1>3, <1>4, <1>5 DEF PartialFunctions

(* The file after SaveProfile's write, whole or cut.                        *)
LEMMA WrittenTyped ==
  ASSUME NEW d \in PartialFunctions(Names, ClientIds),
         profiles \in PartialFunctions(Names, ClientIds) \cup {Torn},
         WriteProfiles(d)
  PROVE  /\ profiles' \in PartialFunctions(Names, ClientIds) \cup {Torn}
         /\ Readable' => \A n \in DOMAIN profiles' :
              \/ n \in DOMAIN d /\ profiles'[n] = d[n]
              \/ Readable /\ n \in DOMAIN profiles /\ profiles'[n] = profiles[n]
  BY OverlaidTyped DEF WriteProfiles, Readable

LEMMA CutTyped ==
  ASSUME NEW d \in PartialFunctions(Names, ClientIds), CutProfiles(d)
  PROVE  /\ profiles' \in PartialFunctions(Names, ClientIds) \cup {Torn}
         /\ Readable' => \A n \in DOMAIN profiles' :
              n \in DOMAIN d /\ profiles'[n] \in {CutId, d[n]}
<1>1. CASE profiles' = Torn
  BY <1>1 DEF Readable
<1>2. CASE profiles' # Torn
  <2>1. PICK whole \in SUBSET DOMAIN d, last \in {{}} \cup {{n} : n \in DOMAIN d} :
          profiles' = Begun(d, whole, last)
    BY <1>2 DEF CutProfiles
  <2> QED
    BY <2>1, BegunTyped
<1> QED
  BY <1>1, <1>2

(* A process that configures a profile has one left to configure.           *)
AtProfile == {"ask", "load", "truncate", "write", "secret", "validate"}

Busy ==
  \A p \in Procs : /\ pc[p] \in AtProfile => todo[p] # <<>>
                   /\ pc[p] = "start" => todo[p] = cmd[p].names

(* The profile a process prefers is one of its list.                        *)
LEMMA PreferredTyped ==
  ASSUME NEW names \in Seq(Names), names # <<>>
  PROVE  Preferred(names) \in Names
<1>1. \A i \in DOMAIN names : names[i] \in Names
  OBVIOUS
<1>2. names[1] \in Names
  OBVIOUS
<1> QED
  BY <1>1, <1>2 DEF Preferred

Types == TypeOK /\ Busy

LEMMA InitTypes == Init => Types
<1> SUFFICES ASSUME Init PROVE Types
  OBVIOUS
<1>1. profiles \in PartialFunctions(Names, ClientIds)
  BY SetupAssumption DEF Init, PartialFunctions, ClientIds
<1>2. secrets \in PartialFunctions(Accounts, BOOLEAN)
  <2>1. PICK D \in SUBSET Names : profiles \in [D -> ClientIds]
    BY <1>1 DEF PartialFunctions
  <2>2. {<<n, profiles[n]>> : n \in DOMAIN profiles} \in SUBSET Accounts
    BY <2>1 DEF Accounts
  <2>3. secrets \in [{<<n, profiles[n]>> : n \in DOMAIN profiles} -> BOOLEAN]
    BY DEF Init
  <2> QED
    BY <2>2, <2>3 DEF PartialFunctions
<1>3. active \in Names \cup {Unset}
  BY <1>1 DEF Init, PartialFunctions
<1>4. StoreOK
  BY <1>1, <1>2, <1>3 DEF Init, StoreOK
<1>5. (CHOOSE t \in Typed : TRUE) \in Typed
  <2>1. PICK c \in Clients : TRUE
    BY SetupAssumption
  <2>2. [client |-> c, right |-> TRUE] \in Typed
    BY DEF Typed, ClientIds
  <2> QED
    BY <2>2
<1>6. \A p \in Procs : cmd[p].names \in Seq(Names) /\ cmd[p].names # <<>>
  BY SetupAssumption DEF Init, CommandOK
<1>7. todo \in [Procs -> Seq(Names)] /\ Busy
  BY <1>6 DEF Init, Busy, AtProfile
<1>8. /\ cmd \in Runs /\ pc \in [Procs -> Steps] /\ typed \in [Procs -> Typed]
      /\ attempt \in [Procs -> 1..maxAttempts] /\ pick \in [Procs -> OGs \cup {Unset}]
  BY <1>5 DEF Init, Steps, maxAttempts
<1>9. /\ doc \in [Procs -> PartialFunctions(Names, ClientIds)]
      /\ saved \in PartialFunctions(Names, ClientIds)
  BY <1>1, NobodyTyped DEF Init
<1>10. faults \in 0..MaxFaults
  BY SetupAssumption DEF Init
<1>11. /\ ended \in [Procs -> {"no", "ok", "refused", "failed", "exhausted"}]
       /\ half \subseteq Accounts /\ alone \in [Procs -> BOOLEAN]
  BY DEF Init
<1>12. overlap \in BOOLEAN /\ torn \in BOOLEAN
  BY DEF Init
<1> QED
  BY <1>4, <1>7, <1>8, <1>9, <1>10, <1>11, <1>12 DEF Types, TypeOK

(* A process at a profile has its name and its account.                     *)
LEMMA NameTyped ==
  ASSUME Types, NEW p \in Procs, pc[p] \in AtProfile
  PROVE  Name(p) \in Names /\ typed[p].client \in ClientIds /\ Account(p) \in Accounts
<1>1. todo[p] \in Seq(Names) /\ todo[p] # <<>>
  BY DEF Types, TypeOK, Busy
<1>2. Head(todo[p]) \in Names
  BY <1>1
<1>3. typed[p] \in Typed
  BY DEF Types, TypeOK
<1> QED
  BY <1>2, <1>3 DEF Name, Account, Accounts, Typed

(* A step of the program counter keeps it a program counter.                *)
LEMMA GoTyped ==
  ASSUME Types, NEW p \in Procs, NEW from, NEW to \in Steps, Go(p, from, to)
  PROVE  /\ pc' \in [Procs -> Steps]
         /\ ended' \in [Procs -> {"no", "ok", "refused", "failed", "exhausted"}]
         /\ \A q \in Procs : pc'[q] = IF q = p THEN to ELSE pc[q]
  BY DEF Types, TypeOK, Go

LEMMA EndTyped ==
  ASSUME Types, NEW p \in Procs, NEW from,
         NEW how \in {"ok", "refused", "failed", "exhausted"}, End(p, from, how)
  PROVE  /\ pc' \in [Procs -> Steps]
         /\ ended' \in [Procs -> {"no", "ok", "refused", "failed", "exhausted"}]
         /\ \A q \in Procs : pc'[q] = IF q = p THEN "ended" ELSE pc[q]
  BY DEF Types, TypeOK, End, Steps

(* What is left of a list.                                                  *)
LEMMA TailTyped ==
  ASSUME NEW S, NEW s \in Seq(S), s # <<>>
  PROVE  Tail(s) \in Seq(S) /\ (Len(s) # 1 => Tail(s) # <<>>)
<1>1. Tail(s) \in Seq(S)
  OBVIOUS
<1>2. Len(Tail(s)) = Len(s) - 1 /\ Len(s) \in Nat
  OBVIOUS
<1>3. ASSUME Len(s) # 1 PROVE Tail(s) # <<>>
  <2>1. Len(Tail(s)) # 0
    BY <1>2, <1>3
  <2> QED
    BY <2>1, <1>1, EmptySeq
<1> QED
  BY <1>1, <1>3

(* The next profile, or the group.                                          *)
LEMMA ConfigureTyped ==
  ASSUME Types, NEW p \in Procs, NEW from \in AtProfile, Configure(p, from)
  PROVE  /\ pc' \in [Procs -> Steps]
         /\ ended' \in [Procs -> {"no", "ok", "refused", "failed", "exhausted"}]
         /\ todo' \in [Procs -> Seq(Names)] /\ attempt' \in [Procs -> 1..maxAttempts]
         /\ Busy'
<1>1. todo[p] \in Seq(Names) /\ todo[p] # <<>> /\ pc[p] = from
  BY DEF Types, TypeOK, Busy, Configure, Go
<1>2. Tail(todo[p]) \in Seq(Names) /\ (Len(todo[p]) # 1 => Tail(todo[p]) # <<>>)
  BY <1>1, TailTyped
<1> DEFINE next == IF Len(todo[p]) = 1 THEN "og" ELSE "ask"
<1>3. next \in Steps /\ Go(p, from, next)
  BY DEF Configure, Steps
<1> HIDE DEF next
<1>4. /\ pc' \in [Procs -> Steps]
      /\ ended' \in [Procs -> {"no", "ok", "refused", "failed", "exhausted"}]
      /\ \A q \in Procs : pc'[q] = IF q = p THEN next ELSE pc[q]
  BY <1>3, GoTyped
<1>5. todo' \in [Procs -> Seq(Names)] /\ attempt' \in [Procs -> 1..maxAttempts]
  BY <1>2 DEF Types, TypeOK, Configure, maxAttempts
<1>6. Busy'
  <2> SUFFICES ASSUME NEW q \in Procs
               PROVE  /\ pc'[q] \in AtProfile => todo'[q] # <<>>
                      /\ pc'[q] = "start" => todo'[q] = cmd'[q].names
    BY DEF Busy
  <2>1. CASE q = p
    BY <2>1, <1>2, <1>4 DEF next, Configure, AtProfile, Types, TypeOK
  <2>2. CASE q # p
    BY <2>2, <1>4 DEF Configure, Types, TypeOK, Busy
  <2> QED
    BY <2>1, <2>2
<1> QED
  BY <1>4, <1>5, <1>6

(* A step that configures nothing leaves each process a profile to be at.   *)
LEMMA BusyKept ==
  ASSUME Types, NEW p \in Procs, NEW to,
         \A q \in Procs : pc'[q] = IF q = p THEN to ELSE pc[q],
         to # "start", to \in AtProfile => todo[p] # <<>>, UNCHANGED <<cmd, todo>>
  PROVE  Busy'
  BY DEF Types, Busy
-----------------------------------------------------------------------------
(* The types that a process which only moves on can disturb.                *)
LEMMA StartTypes ==
  ASSUME Types, NEW p \in Procs, Start(p)
  PROVE  Types'
<1> DEFINE to == CASE cmd[p].kind \in {"setup", "add"} -> "ask"
                   [] cmd[p].kind = "use" -> "check"
                   [] cmd[p].kind = "og" -> "og"
<1>1. cmd[p].kind \in {"setup", "add", "use", "og"} /\ cmd[p].names # <<>>
  BY SetupAssumption DEF Types, TypeOK, CommandOK
<1>2. to \in {"ask", "check", "og"}
  BY <1>1
<1>3. Go(p, "start", to)
  BY DEF Start
<1> HIDE DEF to
<1>4. todo[p] # <<>>
  BY <1>1, <1>3 DEF Types, Busy, Go
<1>5. alone' \in [Procs -> BOOLEAN]
  BY DEF Start
<1>6. to \in Steps /\ to # "start"
  BY <1>2 DEF Steps
<1>7. Busy'
  BY <1>3, <1>4, <1>6, GoTyped, BusyKept DEF Start, procVars
<1> QED
  BY <1>3, <1>5, <1>6, <1>7, GoTyped DEF Start, Types, TypeOK, StoreOK, files, procVars

LEMMA EndsTypes ==
  ASSUME Types, NEW p \in Procs,
         \/ Refuse(p) \/ AskFails(p) \/ LoadFails(p) \/ WriteCut(p) \/ SecretFails(p) \/ Kill(p)
         \/ SetActive(p)
  PROVE  Types'
<1>1. PICK how \in {"ok", "refused", "failed"}, from \in Steps : End(p, from, how) /\ pc[p] = from
  BY DEF Refuse, AskFails, LoadFails, WriteCut, SecretFails, Kill, SetActive, End, Types, TypeOK, Steps
<1>2. /\ pc' \in [Procs -> Steps]
      /\ ended' \in [Procs -> {"no", "ok", "refused", "failed", "exhausted"}]
      /\ \A q \in Procs : pc'[q] = IF q = p THEN "ended" ELSE pc[q]
  BY <1>1, EndTyped
<1>3. UNCHANGED procVars
  BY DEF Refuse, AskFails, LoadFails, WriteCut, SecretFails, Kill, SetActive
<1>4. Busy'
  BY <1>2, <1>3, BusyKept DEF procVars, AtProfile
<1>5. StoreOK'
  <2> USE DEF Types, TypeOK, StoreOK, files
  <2>1. CASE Refuse(p) \/ AskFails(p) \/ LoadFails(p) \/ (Kill(p) /\ pc[p] # "secret")
    BY <2>1 DEF Refuse, AskFails, LoadFails, Kill
  <2>2. CASE WriteCut(p)
    <3>1. doc[p] \in PartialFunctions(Names, ClientIds) /\ CutProfiles(doc[p])
      BY <2>2 DEF WriteCut
    <3>2. profiles' \in PartialFunctions(Names, ClientIds) \cup {Torn}
      BY <3>1, CutTyped
    <3>3. UNCHANGED <<secrets, active, og>>
      BY <3>1 DEF CutProfiles
    <3> QED
      BY <3>2, <3>3
  <2>3. CASE SecretFails(p) \/ (Kill(p) /\ pc[p] = "secret")
    <3>1. pc[p] = "secret" /\ SpoilSecret(Name(p), typed[p].client)
      BY <2>3 DEF SecretFails, Kill, End
    <3> DEFINE spoilt == Upsert(secrets, <<Name(p), typed[p].client>>, FALSE)
    <3>2. <<Name(p), typed[p].client>> \in Accounts
      BY <3>1, NameTyped DEF AtProfile, Account
    <3>3. spoilt \in PartialFunctions(Accounts, BOOLEAN)
      BY <3>2, UpsertTyped
    <3>4. secrets' \in {secrets, spoilt}
      BY <3>1 DEF SpoilSecret
    <3> HIDE DEF spoilt
    <3>5. secrets' \in PartialFunctions(Accounts, BOOLEAN)
      BY <3>3, <3>4
    <3>6. UNCHANGED <<profiles, active, og>>
      BY <3>1 DEF SpoilSecret
    <3> QED
      BY <3>5, <3>6
  <2>4. CASE SetActive(p)
    <3>1. cmd[p].names \in Seq(Names) /\ cmd[p].names # <<>>
      BY SetupAssumption DEF CommandOK
    <3>2. Preferred(cmd[p].names) \in Names
      BY <3>1, PreferredTyped
    <3> QED
      BY <2>4, <3>2 DEF SetActive, PutActive
  <2> QED
    BY <2>1, <2>2, <2>3, <2>4
<1>6. half' \subseteq Accounts
  <2>1. half \subseteq Accounts
    BY DEF Types, TypeOK
  <2>2. pc[p] \in {"write", "secret"} => Account(p) \in Accounts
    BY NameTyped DEF AtProfile
  <2> QED
    BY <2>1, <2>2 DEF Refuse, AskFails, LoadFails, WriteCut, SecretFails, Kill, SetActive, history, End
<1>7. faults' \in 0..MaxFaults
  BY SetupAssumption
     DEF Refuse, AskFails, LoadFails, WriteCut, SecretFails, Kill, SetActive, history, Fault, Types, TypeOK
<1>8. torn' \in BOOLEAN
  <2>1. torn \in BOOLEAN
    BY DEF Types, TypeOK
  <2> QED
    BY <2>1 DEF Refuse, AskFails, LoadFails, WriteCut, SecretFails, Kill, SetActive, history
<1>9. UNCHANGED <<saved, overlap, alone>>
  BY DEF Refuse, AskFails, LoadFails, WriteCut, SecretFails, Kill, SetActive, history
<1> QED
  BY <1>2, <1>3, <1>4, <1>5, <1>6, <1>7, <1>8, <1>9 DEF Types, TypeOK, procVars

LEMMA AskTypes ==
  ASSUME Types, NEW p \in Procs, NEW t \in Typed, Ask(p, t)
  PROVE  Types'
<1>1. "load" \in Steps /\ "load" # "start" /\ todo[p] # <<>>
  BY DEF Steps, Types, Busy, AtProfile, Ask, Go
<1>2. Busy'
  BY <1>1, GoTyped, BusyKept DEF Ask
<1> QED
  BY <1>1, <1>2, GoTyped DEF Ask, Types, TypeOK, StoreOK, files, history

LEMMA LoadTypes ==
  ASSUME Types, NEW p \in Procs, Load(p)
  PROVE  Types'
<1>1. "truncate" \in Steps /\ "truncate" # "start" /\ todo[p] # <<>> /\ pc[p] \in AtProfile
  BY DEF Steps, Types, Busy, AtProfile, Load, Go
<1>2. Busy'
  BY <1>1, GoTyped, BusyKept DEF Load
<1>3. profiles \in PartialFunctions(Names, ClientIds)
  BY DEF Load, Readable, Types, TypeOK, StoreOK
<1>4. Upsert(profiles, Name(p), typed[p].client) \in PartialFunctions(Names, ClientIds)
  BY <1>1, <1>3, NameTyped, UpsertTyped
<1>5. doc' \in [Procs -> PartialFunctions(Names, ClientIds)]
  BY <1>4 DEF Load, Types, TypeOK
<1>6. overlap' \in BOOLEAN
  BY DEF Load, Types, TypeOK
<1> QED
  BY <1>1, <1>2, <1>5, <1>6, GoTyped DEF Load, Types, TypeOK, StoreOK, files

LEMMA TruncateTypes ==
  ASSUME Types, NEW p \in Procs, Truncate(p)
  PROVE  Types'
<1>1. "write" \in Steps /\ "write" # "start" /\ todo[p] # <<>>
  BY DEF Steps, Types, Busy, AtProfile, Truncate, Go
<1>2. Busy'
  BY <1>1, GoTyped, BusyKept DEF Truncate, procVars
<1> QED
  BY <1>1, <1>2, NobodyTyped, GoTyped
     DEF Truncate, TruncateProfiles, Types, TypeOK, StoreOK, procVars, history

LEMMA WriteTypes ==
  ASSUME Types, NEW p \in Procs, Write(p)
  PROVE  Types'
<1>1. "secret" \in Steps /\ "secret" # "start" /\ todo[p] # <<>> /\ pc[p] \in AtProfile
  BY DEF Steps, Types, Busy, AtProfile, Write, Go
<1>2. Busy'
  BY <1>1, GoTyped, BusyKept DEF Write, procVars
<1>3. saved \in PartialFunctions(Names, ClientIds)
  BY DEF Types, TypeOK
<1>4. Upsert(saved, Name(p), typed[p].client) \in PartialFunctions(Names, ClientIds)
  BY <1>1, <1>3, NameTyped, UpsertTyped
<1>5. profiles' \in PartialFunctions(Names, ClientIds) \cup {Torn}
  BY WrittenTyped DEF Write, Types, TypeOK, StoreOK
<1> QED
  BY <1>1, <1>2, <1>4, <1>5, GoTyped
     DEF Write, WriteProfiles, Types, TypeOK, StoreOK, procVars

LEMMA SaveSecretTypes ==
  ASSUME Types, NEW p \in Procs, SaveSecret(p)
  PROVE  Types'
<1>1. pc[p] = "secret" /\ pc[p] \in AtProfile /\ todo[p] # <<>>
  BY DEF SaveSecret, Types, Busy, AtProfile
<1>2. typed[p].right \in BOOLEAN /\ secrets \in PartialFunctions(Accounts, BOOLEAN)
  BY DEF Types, TypeOK, Typed, StoreOK
<1>3. Upsert(secrets, <<Name(p), typed[p].client>>, typed[p].right) \in PartialFunctions(Accounts, BOOLEAN)
  BY <1>1, <1>2, NameTyped, UpsertTyped DEF Account
<1>4. StoreOK'
  BY <1>3 DEF SaveSecret, StoreSecret, Types, TypeOK, StoreOK
<1>5. CASE End(p, "secret", "ok") /\ UNCHANGED procVars
  <2>1. Busy'
    BY <1>5, EndTyped, BusyKept DEF procVars, AtProfile
  <2> QED
    BY <1>4, <1>5, <2>1, EndTyped DEF SaveSecret, Types, TypeOK, procVars, history
<1>6. CASE Go(p, "secret", "validate") /\ UNCHANGED procVars
  <2>1. "validate" \in Steps /\ "validate" # "start"
    BY DEF Steps
  <2>2. Busy'
    BY <1>1, <1>6, <2>1, GoTyped, BusyKept DEF procVars
  <2> QED
    BY <1>4, <1>6, <2>1, <2>2, GoTyped DEF SaveSecret, Types, TypeOK, procVars, history
<1>7. CASE Configure(p, "secret")
  BY <1>4, <1>7, <1>1, ConfigureTyped DEF SaveSecret, Configure, Types, TypeOK, history
<1> QED
  BY <1>5, <1>6, <1>7 DEF SaveSecret

LEMMA TokenTypes ==
  ASSUME Types, NEW p \in Procs, TokenIssued(p) \/ TokenRefused(p)
  PROVE  Types'
<1>1. CASE TokenIssued(p)
  <2>1. "validate" \in AtProfile
    BY DEF AtProfile
  <2> QED
    BY <1>1, <2>1, ConfigureTyped
       DEF TokenIssued, Configure, Types, TypeOK, StoreOK, files, history
<1>2. CASE TokenRefused(p)
  <2>1. attempt' \in [Procs -> 1..maxAttempts]
    BY <1>2 DEF TokenRefused, Types, TypeOK, maxAttempts
  <2>2. StoreOK'
    BY <1>2 DEF TokenRefused, Types, TypeOK, StoreOK, files
  <2>3. CASE Go(p, "validate", "ask")
    <3>1. "ask" \in Steps /\ "ask" # "start" /\ todo[p] # <<>>
      BY <2>3 DEF Steps, Types, Busy, AtProfile, Go
    <3>2. Busy'
      BY <1>2, <2>3, <3>1, GoTyped, BusyKept DEF TokenRefused
    <3> QED
      BY <1>2, <2>1, <2>2, <2>3, <3>1, <3>2, GoTyped DEF TokenRefused, Types, TypeOK, history
  <2>4. CASE End(p, "validate", "exhausted")
    <3>1. Busy'
      BY <1>2, <2>4, EndTyped, BusyKept DEF TokenRefused, AtProfile
    <3> QED
      BY <1>2, <2>1, <2>2, <2>4, <3>1, EndTyped DEF TokenRefused, Types, TypeOK, history
  <2> QED
    BY <1>2, <2>3, <2>4 DEF TokenRefused
<1> QED
  BY <1>1, <1>2

LEMMA GroupTypes ==
  ASSUME Types, NEW p \in Procs,
         \/ \E g \in OGs \cup {Unset} : PickOG(p, g)
         \/ EmptyOG(p) \/ SetOG(p) \/ Check(p) \/ EmptyActive(p)
  PROVE  Types'
<1>1. StoreOK'
  BY DEF PickOG, EmptyOG, SetOG, Check, EmptyActive, PutOG, PutActive, files, Types, TypeOK, StoreOK
<1>2. pick' \in [Procs -> OGs \cup {Unset}]
  BY DEF PickOG, EmptyOG, SetOG, Check, EmptyActive, procVars, Types, TypeOK
<1>3. UNCHANGED <<cmd, todo, typed, doc, attempt, history>>
  BY DEF PickOG, EmptyOG, SetOG, Check, EmptyActive, procVars
<1>4. \/ \E from \in Steps, to \in {"emptyOG", "putOG", "check", "emptyActive", "putActive"} : Go(p, from, to)
      \/ \E from \in Steps, how \in {"ok", "failed"} : End(p, from, how)
  BY DEF PickOG, EmptyOG, SetOG, Check, EmptyActive, Steps
<1>5. CASE \E from \in Steps, to \in {"emptyOG", "putOG", "check", "emptyActive", "putActive"} : Go(p, from, to)
  <2>1. PICK from \in Steps, to \in {"emptyOG", "putOG", "check", "emptyActive", "putActive"} : Go(p, from, to)
    BY <1>5
  <2>2. to \in Steps /\ to # "start" /\ to \notin AtProfile
    BY DEF Steps, AtProfile
  <2>3. Busy'
    BY <1>3, <2>1, <2>2, GoTyped, BusyKept
  <2> QED
    BY <1>1, <1>2, <1>3, <2>1, <2>2, <2>3, GoTyped DEF Types, TypeOK, history
<1>6. CASE \E from \in Steps, how \in {"ok", "failed"} : End(p, from, how)
  <2>1. PICK from \in Steps, how \in {"ok", "failed"} : End(p, from, how)
    BY <1>6
  <2>2. Busy'
    BY <1>3, <2>1, EndTyped, BusyKept DEF AtProfile
  <2> QED
    BY <1>1, <1>2, <1>3, <2>1, <2>2, EndTyped DEF Types, TypeOK, history
<1> QED
  BY <1>4, <1>5, <1>6

(* Every step keeps the types.                                              *)
LEMMA StepTypes == Types /\ [Next]_vars => Types'
<1> SUFFICES ASSUME Types, [Next]_vars PROVE Types'
  OBVIOUS
<1>1. ASSUME NEW p \in Procs, Answers(p) PROVE Types'
  BY <1>1, AskTypes, GroupTypes DEF Answers
<1>2. ASSUME NEW p \in Procs, Works(p) PROVE Types'
  BY <1>2, LoadTypes, EndsTypes, TruncateTypes, WriteTypes, SaveSecretTypes, TokenTypes, GroupTypes
     DEF Works
<1>3. CASE UNCHANGED vars
  BY <1>3 DEF Types, TypeOK, StoreOK, Busy, vars, files, procVars, history
<1> QED
  BY <1>1, <1>2, <1>3, StartTypes, EndsTypes DEF Next, Finished

(* Type correctness of the store, the processes and the histories.          *)
THEOREM TypeCorrect == Spec => []TypeOK
<1>1. Types => TypeOK
  BY DEF Types
<1> QED
  BY InitTypes, StepTypes, <1>1, PTL DEF Spec
-----------------------------------------------------------------------------
Savers == {"truncate", "write"}

(* As long as calls of SaveProfile have neither overlapped nor been cut, at *)
(* most one is at work, on what was saved before it, and only its write     *)
(* finds the file empty.                                                    *)
Kept ==
  ~overlap /\ ~torn =>
    /\ \A p, q \in Procs : pc[p] \in Savers /\ pc[q] \in Savers => p = q
    /\ profiles = IF Writing THEN Nobody ELSE saved
    /\ \A p \in Procs : pc[p] \in Savers => doc[p] = Upsert(saved, Name(p), typed[p].client)

(* The accounts that have their secret, or a known reason why not.          *)
Vouched ==
  DOMAIN secrets \cup half \cup {Account(p) : p \in {q \in Procs : pc[q] = "secret"}}
    \cup {a \in Accounts : torn /\ a[2] = CutId}

(* What SaveProfile has read is as good as what is in the file.             *)
Backed ==
  /\ Readable => \A n \in DOMAIN profiles : <<n, profiles[n]>> \in Vouched
  /\ \A p \in Procs :
       pc[p] \in Savers =>
         /\ doc[p][Name(p)] = typed[p].client
         /\ \A n \in DOMAIN doc[p] \ {Name(p)} : <<n, doc[p][n]>> \in Vouched

(* A process about to make a profile active has found it configured.        *)
Checked ==
  /\ ~overlap /\ ~torn =>
       /\ active \in Names => active \in DOMAIN saved
       /\ \A p \in Procs :
            pc[p] \in {"emptyActive", "putActive"} => Preferred(cmd[p].names) \in DOMAIN saved
  /\ \A p \in Procs : pc[p] \in {"check", "emptyActive", "putActive"} => cmd[p].interactive

IInv == Types /\ Kept /\ Backed /\ Checked

(* What a step of process p can disturb unless it is SaveProfile's.         *)
Aside(p) ==
  /\ pc[p] \notin Savers /\ pc'[p] \notin Savers
  /\ \A q \in Procs \ {p} : pc'[q] = pc[q] /\ todo'[q] = todo[q] /\ typed'[q] = typed[q]
  /\ UNCHANGED <<profiles, saved, doc, overlap, torn>>

LEMMA StepsAside ==
  ASSUME Types, NEW p \in Procs,
         \/ Start(p) \/ Refuse(p) \/ Answers(p) \/ AskFails(p) \/ LoadFails(p)
         \/ SaveSecret(p) \/ SecretFails(p) \/ TokenIssued(p) \/ TokenRefused(p)
         \/ EmptyOG(p) \/ SetOG(p) \/ Check(p) \/ EmptyActive(p) \/ SetActive(p)
  PROVE  Aside(p)
<1> USE DEF Savers, Aside, Go, End, Types, TypeOK, procVars, history, files
<1>1. CASE Start(p)
  <2>1. cmd[p].kind \in {"setup", "add", "use", "og"}
    BY SetupAssumption DEF CommandOK
  <2> QED
    BY <1>1, <2>1 DEF Start
<1>2. CASE Refuse(p) \/ AskFails(p) \/ LoadFails(p) \/ SecretFails(p)
  BY <1>2 DEF Refuse, AskFails, LoadFails, SecretFails, SpoilSecret
<1>3. CASE Answers(p)
  BY <1>3 DEF Answers, Ask, PickOG
<1>4. CASE SaveSecret(p) \/ TokenIssued(p)
  BY <1>4 DEF SaveSecret, TokenIssued, StoreSecret, Configure
<1>5. CASE TokenRefused(p)
  BY <1>5 DEF TokenRefused
<1>6. CASE EmptyOG(p) \/ SetOG(p) \/ Check(p) \/ EmptyActive(p) \/ SetActive(p)
  BY <1>6 DEF EmptyOG, SetOG, Check, EmptyActive, SetActive, PutOG, PutActive
<1> QED
  BY <1>1, <1>2, <1>3, <1>4, <1>5, <1>6

(* The initial state.                                                       *)
LEMMA InitIInv == Init => IInv
<1> SUFFICES ASSUME Init PROVE IInv
  OBVIOUS
<1>1. Types /\ \A p \in Procs : pc[p] = "start"
  BY InitTypes DEF Init
<1>2. Kept
  BY <1>1 DEF Init, Kept, Savers, Writing
<1>3. \A n \in DOMAIN profiles : <<n, profiles[n]>> \in DOMAIN secrets
  BY DEF Init
<1>4. Backed
  BY <1>1, <1>3 DEF Backed, Vouched, Savers
<1>5. Unset \notin Names
  BY SetupAssumption
<1>6. Checked
  BY <1>1, <1>5 DEF Checked, Init
<1> QED
  BY <1>1, <1>2, <1>4, <1>6 DEF IInv

(* Kept: SaveProfile's own steps, one by one.                               *)
LEMMA StepKept == Types /\ Kept /\ [Next]_vars => Kept'
<1> SUFFICES ASSUME Types, Kept, [Next]_vars PROVE Kept'
  OBVIOUS
<1>1. ASSUME NEW p \in Procs, Aside(p) PROVE Kept'
  <2>1. Writing' = Writing
    BY <1>1 DEF Aside, Writing, Savers
  <2> QED
    BY <1>1, <2>1 DEF Kept, Aside, Name
<1>2. ASSUME NEW p \in Procs, Load(p) PROVE Kept'
  <2> SUFFICES ASSUME ~overlap', ~torn'
               PROVE  /\ \A r, q \in Procs : pc'[r] \in Savers /\ pc'[q] \in Savers => r = q
                      /\ profiles' = IF Writing' THEN Nobody ELSE saved'
                      /\ \A q \in Procs : pc'[q] \in Savers =>
                           doc'[q] = Upsert(saved', Name(q)', typed'[q].client)
    BY DEF Kept
  <2>1. ~overlap /\ ~torn /\ \A q \in Procs : pc[q] \notin Savers
    BY <1>2 DEF Load, Savers
  <2>2. ~Writing /\ ~Writing' /\ profiles = saved
    BY <1>2, <2>1 DEF Writing, Savers, Kept, Load, Go, Types, TypeOK
  <2>3. \A q \in Procs : pc'[q] \in Savers => q = p
    BY <1>2, <2>1 DEF Load, Go, Types, TypeOK
  <2>4. doc'[p] = Upsert(saved', Name(p)', typed'[p].client)
    BY <1>2, <2>2 DEF Load, Types, TypeOK, Name
  <2> QED
    BY <1>2, <2>2, <2>3, <2>4 DEF Load, files
<1>3. ASSUME NEW p \in Procs, Truncate(p) PROVE Kept'
  <2>1. Writing' /\ profiles' = Nobody
    BY <1>3 DEF Truncate, Go, TruncateProfiles, Writing, Types, TypeOK
  <2>2. \A q \in Procs : pc'[q] \in Savers <=> pc[q] \in Savers
    BY <1>3 DEF Truncate, Go, Savers, Types, TypeOK
  <2> QED
    BY <1>3, <2>1, <2>2 DEF Truncate, procVars, history, Kept, Name
<1>4. ASSUME NEW p \in Procs, Write(p) PROVE Kept'
  <2> SUFFICES ASSUME ~overlap', ~torn'
               PROVE  /\ \A q \in Procs : pc'[q] \notin Savers
                      /\ profiles' = saved'
    BY DEF Kept, Writing, Savers
  <2>1. ~overlap /\ ~torn /\ pc[p] = "write"
    BY <1>4 DEF Write, Go
  <2>2. /\ \A q \in Procs : pc[q] \in Savers => q = p
        /\ doc[p] = Upsert(saved, Name(p), typed[p].client) /\ profiles = Nobody
    BY <2>1 DEF Kept, Savers, Writing
  <2> QED
    BY <1>4, <2>2 DEF Write, WriteProfiles, Go, Savers, Types, TypeOK
<1>5. ASSUME NEW p \in Procs, WriteCut(p) PROVE Kept'
  BY <1>5 DEF WriteCut, Kept
<1>6. ASSUME NEW p \in Procs, Kill(p) PROVE Kept'
  <2>1. CASE pc[p] = "write"
    BY <1>6, <2>1 DEF Kill, Kept
  <2>2. CASE pc[p] # "write"
    <3>1. Writing' = Writing
      BY <1>6, <2>2 DEF Kill, End, Writing, Types, TypeOK
    <3>2. \A q \in Procs : pc'[q] \in Savers => pc[q] \in Savers
      BY <1>6 DEF Kill, End, Savers, Types, TypeOK
    <3> QED
      BY <1>6, <2>2, <3>1, <3>2 DEF Kill, SpoilSecret, files, procVars, Kept, Name
  <2> QED
    BY <2>1, <2>2
<1>7. CASE UNCHANGED vars
  BY <1>7 DEF vars, files, procVars, history, Kept, Writing, Name
<1> QED
  BY <1>1, <1>2, <1>3, <1>4, <1>5, <1>6, <1>7, StepsAside DEF Next, Works, Finished

(* SaveClientSecret adds its account and takes none away.                   *)
LEMMA SecretAdded ==
  ASSUME NEW p, SaveSecret(p)
  PROVE  DOMAIN secrets' = DOMAIN secrets \cup {<<Name(p), typed[p].client>>}
<1>1. secrets' = Upsert(secrets, <<Name(p), typed[p].client>>, typed[p].right)
  BY DEF SaveSecret, StoreSecret
<1> QED
  BY <1>1, UpsertAdds

(* What a failed SaveClientSecret leaves has every account there was.       *)
LEMMA SecretSpoilt ==
  ASSUME NEW n, NEW c, SpoilSecret(n, c)
  PROVE  DOMAIN secrets \subseteq DOMAIN secrets'
<1>1. secrets' = secrets \/ secrets' = Upsert(secrets, <<n, c>>, FALSE)
  BY DEF SpoilSecret
<1>2. DOMAIN Upsert(secrets, <<n, c>>, FALSE) = DOMAIN secrets \cup {<<n, c>>}
  BY UpsertAdds
<1> QED
  BY <1>1, <1>2

(* What vouches for a pair stays, whatever the process that stores the      *)
(* secret does.                                                             *)
LEMMA VouchedStays ==
  ASSUME Types, [Next]_vars
  PROVE  Vouched \subseteq Vouched'
<1>1. DOMAIN secrets \subseteq DOMAIN secrets'
  <2>1. ASSUME NEW p \in Procs, SaveSecret(p) PROVE DOMAIN secrets \subseteq DOMAIN secrets'
    BY <2>1, SecretAdded
  <2>2. CASE ~ \E p \in Procs : SaveSecret(p) \/ SecretFails(p) \/ Kill(p)
    <3>1. ASSUME NEW p \in Procs, ~SaveSecret(p), Answers(p) \/ Works(p) PROVE secrets' = secrets
      BY <3>1 DEF Answers, Ask, PickOG, Works, Load, LoadFails, Truncate, TruncateProfiles, Write,
                  WriteProfiles, TokenIssued, TokenRefused, EmptyOG, SetOG, PutOG, Check, EmptyActive,
                  SetActive, PutActive, files
    <3> QED
      BY <2>2, <3>1 DEF Next, Finished, Start, Refuse, AskFails, WriteCut, CutProfiles, vars, files
  <2>3. ASSUME NEW p \in Procs, SecretFails(p) \/ Kill(p) PROVE DOMAIN secrets \subseteq DOMAIN secrets'
    BY <2>3, SecretSpoilt DEF SecretFails, Kill, files
  <2> QED
    BY <2>1, <2>2, <2>3
<1>2. half \subseteq half'
  <2>1. ASSUME NEW p \in Procs, Answers(p) \/ Works(p) PROVE half' = half
    BY <2>1 DEF Answers, Ask, PickOG, Works, Load, LoadFails, Truncate, Write, SaveSecret, TokenIssued,
                TokenRefused, EmptyOG, SetOG, Check, EmptyActive, SetActive, history
  <2> QED
    BY <2>1 DEF Next, Finished, Start, Refuse, AskFails, WriteCut, SecretFails, Kill, vars, history
<1>3. ASSUME NEW p \in Procs, pc[p] = "secret"
      PROVE  Account(p) \in Vouched'
  <2>1. CASE SaveSecret(p)
    BY <2>1, SecretAdded DEF Account, Vouched
  <2>2. CASE SecretFails(p) \/ Kill(p)
    BY <1>3, <2>2 DEF SecretFails, Kill, Vouched
  <2>3. CASE ~ (SaveSecret(p) \/ SecretFails(p) \/ Kill(p))
    <3> DEFINE Stays == pc'[p] = pc[p] /\ todo'[p] = todo[p] /\ typed'[p] = typed[p]
    <3>1. ASSUME UNCHANGED vars PROVE Stays
      BY <3>1 DEF vars, procVars
    <3>2. ASSUME NEW q \in Procs, Aside(q), q # p PROVE Stays
      BY <3>2 DEF Aside
    <3>3. ASSUME NEW q \in Procs, Load(q) \/ Truncate(q) \/ Write(q) \/ WriteCut(q) PROVE Stays
      BY <1>3, <3>3 DEF Load, Truncate, Write, WriteCut, procVars, Types, TypeOK, Go, End
    <3>4. ASSUME NEW q \in Procs, Kill(q) PROVE Stays
      BY <2>3, <3>4 DEF Kill, procVars, Types, TypeOK, End
    <3>5. ~ ( \/ Start(p) \/ Refuse(p) \/ Answers(p) \/ AskFails(p) \/ LoadFails(p)
              \/ TokenIssued(p) \/ TokenRefused(p)
              \/ EmptyOG(p) \/ SetOG(p) \/ Check(p) \/ EmptyActive(p) \/ SetActive(p) )
      BY <1>3 DEF Start, Refuse, Answers, Ask, PickOG, AskFails, LoadFails, TokenIssued, TokenRefused,
                  Configure, EmptyOG, SetOG, Check, EmptyActive, SetActive, Go, End
    <3>6. ASSUME NEW q \in Procs,
                 \/ Start(q) \/ Refuse(q) \/ Answers(q) \/ AskFails(q) \/ SecretFails(q) \/ Works(q)
                 \/ WriteCut(q) \/ Kill(q)
          PROVE  Stays
      <4>1. CASE q = p
        BY <2>3, <3>3, <3>4, <3>5, <3>6, <4>1 DEF Works
      <4>2. CASE q # p
        BY <3>2, <3>3, <3>4, <3>6, <4>2, StepsAside DEF Works
      <4> QED
        BY <4>1, <4>2
    <3>7. Stays
      BY <3>1, <3>6 DEF Next, Finished, vars, procVars
    <3> QED
      BY <1>3, <3>7 DEF Vouched, Account, Name
  <2> QED
    BY <2>1, <2>2, <2>3
<1>4. torn => torn'
  <2>1. ASSUME NEW p \in Procs, Answers(p) \/ Works(p) PROVE torn' = torn
    BY <2>1 DEF Answers, Ask, PickOG, Works, Load, LoadFails, Truncate, Write, SaveSecret, TokenIssued,
                TokenRefused, EmptyOG, SetOG, Check, EmptyActive, SetActive, history
  <2> QED
    BY <2>1 DEF Next, Finished, Start, Refuse, AskFails, WriteCut, SecretFails, Kill, vars, history
<1> QED
  BY <1>1, <1>2, <1>3, <1>4 DEF Vouched

(* Backed: a pair comes into the file with its process about to store the   *)
(* secret, and goes from there into what others read.                       *)
LEMMA StepBacked == Types /\ Backed /\ [Next]_vars => Backed'
<1> SUFFICES ASSUME Types, Backed, [Next]_vars PROVE Backed'
  OBVIOUS
<1>1. ASSUME NEW p \in Procs, Aside(p) PROVE Backed'
  <2>1. \A q \in Procs : pc'[q] \in Savers => pc[q] \in Savers /\ todo'[q] = todo[q] /\ typed'[q] = typed[q]
    BY <1>1 DEF Aside
  <2>2. profiles' = profiles /\ doc' = doc
    BY <1>1 DEF Aside
  <2> QED
    BY <2>1, <2>2, VouchedStays DEF Backed, Readable, Name
<1>2. ASSUME NEW p \in Procs, Load(p) PROVE Backed'
  <2>1. profiles' = profiles /\ Readable
    BY <1>2 DEF Load, files
  <2>2. /\ doc' = [doc EXCEPT ![p] = Upsert(profiles, Name(p), typed[p].client)]
        /\ todo' = todo /\ typed' = typed
    BY <1>2 DEF Load
  <2>3. \A q \in Procs : pc'[q] \in Savers => pc[q] \in Savers \/ q = p
    BY <1>2 DEF Load, Go, Types, TypeOK
  <2>4. /\ doc'[p][Name(p)] = typed[p].client
        /\ \A n \in DOMAIN doc'[p] \ {Name(p)} : n \in DOMAIN profiles /\ doc'[p][n] = profiles[n]
    <3> DEFINE U == Upsert(profiles, Name(p), typed[p].client)
    <3>1. doc'[p] = U
      BY <2>2 DEF Types, TypeOK
    <3>2. /\ DOMAIN U = DOMAIN profiles \cup {Name(p)}
          /\ U[Name(p)] = typed[p].client
          /\ \A n \in DOMAIN profiles : n # Name(p) => U[n] = profiles[n]
      BY DEF Upsert
    <3> HIDE DEF U
    <3> QED
      BY <3>1, <3>2
  <2>5. \A n \in DOMAIN doc'[p] \ {Name(p)} : <<n, doc'[p][n]>> \in Vouched'
    BY <2>1, <2>4, VouchedStays DEF Backed
  <2>6. \A q \in Procs \ {p} : doc'[q] = doc[q]
    BY <2>2 DEF Types, TypeOK
  <2>7. Readable' => \A n \in DOMAIN profiles' : <<n, profiles'[n]>> \in Vouched'
    BY <2>1, VouchedStays DEF Backed
  <2>8. ASSUME NEW q \in Procs, pc'[q] \in Savers
        PROVE  /\ doc'[q][Name(q)'] = typed'[q].client
               /\ \A n \in DOMAIN doc'[q] \ {Name(q)'} : <<n, doc'[q][n]>> \in Vouched'
    <3>1. CASE q = p
      BY <3>1, <2>2, <2>4, <2>5 DEF Name
    <3>2. CASE q # p
      BY <3>2, <2>2, <2>3, <2>6, <2>8, VouchedStays DEF Backed, Name
    <3> QED
      BY <3>1, <3>2
  <2> QED
    BY <2>7, <2>8 DEF Backed
<1>3. ASSUME NEW p \in Procs, Truncate(p) PROVE Backed'
  <2>1. DOMAIN profiles' = {} /\ doc' = doc /\ todo' = todo /\ typed' = typed
    BY <1>3, NobodyTyped DEF Truncate, TruncateProfiles, procVars
  <2>2. \A q \in Procs : pc'[q] \in Savers <=> pc[q] \in Savers
    BY <1>3 DEF Truncate, Go, Savers, Types, TypeOK
  <2> QED
    BY <2>1, <2>2, VouchedStays DEF Backed, Name
<1>4. ASSUME NEW p \in Procs, Write(p) PROVE Backed'
  <2>1. doc' = doc /\ todo' = todo /\ typed' = typed
    BY <1>4 DEF Write, procVars
  <2>2. \A q \in Procs : pc'[q] \in Savers => pc[q] \in Savers
    BY <1>4 DEF Write, Go, Savers, Types, TypeOK
  <2>3. pc[p] \in Savers /\ pc'[p] = "secret"
    BY <1>4 DEF Write, Go, Savers, Types, TypeOK
  <2>4. <<Name(p), typed[p].client>> \in Vouched'
    BY <2>1, <2>3 DEF Vouched, Account, Name
  <2>5. \A n \in DOMAIN doc[p] : <<n, doc[p][n]>> \in Vouched'
    BY <2>3, <2>4, VouchedStays DEF Backed
  <2>6. Readable => \A n \in DOMAIN profiles : <<n, profiles[n]>> \in Vouched'
    BY VouchedStays DEF Backed
  <2>7. Readable' => \A n \in DOMAIN profiles' :
          \/ n \in DOMAIN doc[p] /\ profiles'[n] = doc[p][n]
          \/ Readable /\ n \in DOMAIN profiles /\ profiles'[n] = profiles[n]
    BY <1>4, WrittenTyped DEF Write, Types, TypeOK, StoreOK
  <2>8. Readable' => \A n \in DOMAIN profiles' : <<n, profiles'[n]>> \in Vouched'
    BY <2>5, <2>6, <2>7
  <2> QED
    BY <2>1, <2>2, <2>8, VouchedStays DEF Backed, Name
<1>5. ASSUME NEW p \in Procs, WriteCut(p) PROVE Backed'
  <2>1. doc' = doc /\ todo' = todo /\ typed' = typed
    BY <1>5 DEF WriteCut, procVars
  <2>2. \A q \in Procs : pc'[q] \in Savers => pc[q] \in Savers
    BY <1>5 DEF WriteCut, End, Savers, Types, TypeOK
  <2>3. pc[p] \in Savers /\ pc[p] \in AtProfile /\ Account(p) \in half' /\ torn'
    BY <1>5 DEF WriteCut, End, Savers, AtProfile
  <2>4. \A n \in DOMAIN doc[p] : <<n, doc[p][n]>> \in Vouched'
    <3>1. \A n \in DOMAIN doc[p] \ {Name(p)} : <<n, doc[p][n]>> \in Vouched'
      BY <2>3, VouchedStays DEF Backed
    <3>2. doc[p][Name(p)] = typed[p].client /\ <<Name(p), typed[p].client>> \in Vouched'
      BY <2>3 DEF Backed, Account, Vouched
    <3> QED
      BY <3>1, <3>2
  <2>5. \A n \in Names : <<n, CutId>> \in Vouched'
    <3>1. \A n \in Names : <<n, CutId>> \in Accounts
      BY DEF Accounts, ClientIds
    <3> QED
      BY <2>3, <3>1 DEF Vouched
  <2>6. Readable' => \A n \in DOMAIN profiles' :
          n \in DOMAIN doc[p] /\ profiles'[n] \in {CutId, doc[p][n]}
    BY <1>5, CutTyped DEF WriteCut, Types, TypeOK
  <2>7. DOMAIN doc[p] \subseteq Names
    <3>1. doc[p] \in PartialFunctions(Names, ClientIds)
      BY DEF Types, TypeOK
    <3> QED
      BY <3>1 DEF PartialFunctions
  <2>8. Readable' => \A n \in DOMAIN profiles' : <<n, profiles'[n]>> \in Vouched'
    <3> SUFFICES ASSUME Readable', NEW n \in DOMAIN profiles' PROVE <<n, profiles'[n]>> \in Vouched'
      OBVIOUS
    <3>1. n \in DOMAIN doc[p] /\ n \in Names /\ profiles'[n] \in {CutId, doc[p][n]}
      BY <2>6, <2>7
    <3>2. CASE profiles'[n] = CutId
      BY <2>5, <3>1, <3>2
    <3>3. CASE profiles'[n] = doc[p][n]
      BY <2>4, <3>1, <3>3
    <3> QED
      BY <3>1, <3>2, <3>3
  <2> QED
    BY <2>1, <2>2, <2>8, VouchedStays DEF Backed, Name
<1>6. ASSUME NEW p \in Procs, Kill(p) PROVE Backed'
  <2>1. profiles' = profiles /\ doc' = doc /\ todo' = todo /\ typed' = typed
    BY <1>6 DEF Kill, SpoilSecret, files, procVars
  <2>2. \A q \in Procs : pc'[q] \in Savers => pc[q] \in Savers
    BY <1>6 DEF Kill, End, Savers, Types, TypeOK
  <2> QED
    BY <2>1, <2>2, VouchedStays DEF Backed, Readable, Name
<1>7. CASE UNCHANGED vars
  BY <1>7, VouchedStays DEF vars, files, procVars, Backed, Readable, Name
<1> QED
  BY <1>1, <1>2, <1>3, <1>4, <1>5, <1>6, <1>7, StepsAside DEF Next, Works, Finished

(* Command lines do not change, profiles are saved for good, and a call of  *)
(* SaveProfile that overlapped or was cut is not forgotten.                 *)
LEMMA HistoryGrows ==
  ASSUME Types, [Next]_vars
  PROVE  /\ cmd' = cmd /\ DOMAIN saved \subseteq DOMAIN saved'
         /\ overlap => overlap'
         /\ torn => torn'
<1>1. cmd' = cmd /\ DOMAIN saved \subseteq DOMAIN saved'
  <2>1. ASSUME NEW p \in Procs, Write(p) PROVE <1>1
    <3>1. saved' = Upsert(saved, Name(p), typed[p].client) /\ cmd' = cmd
      BY <2>1 DEF Write, procVars
    <3>2. DOMAIN saved' = DOMAIN saved \cup {Name(p)}
      BY <3>1, UpsertAdds
    <3> QED
      BY <3>1, <3>2
  <2>2. ASSUME NEW p \in Procs, Answers(p) \/ Works(p), ~Write(p) PROVE <1>1
    BY <2>2 DEF Answers, Ask, PickOG, Works, Load, LoadFails, Truncate, SaveSecret, TokenIssued,
                TokenRefused, Configure, EmptyOG, SetOG, Check, EmptyActive, SetActive, procVars, history
  <2> QED
    BY <2>1, <2>2 DEF Next, Finished, Start, Refuse, AskFails, WriteCut, SecretFails, Kill,
                      vars, procVars, history
<1>2. (overlap => overlap') /\ (torn => torn')
  <2> USE DEF history
  <2>1. ASSUME NEW p \in Procs, Load(p) \/ WriteCut(p) \/ Kill(p) PROVE <1>2
    BY <2>1 DEF Load, WriteCut, Kill, Types, TypeOK
  <2>2. ASSUME NEW p \in Procs, Answers(p) \/ Works(p), ~Load(p) PROVE <1>2
    BY <2>2 DEF Answers, Ask, PickOG, Works, LoadFails, Truncate, Write, SaveSecret, TokenIssued,
                TokenRefused, EmptyOG, SetOG, Check, EmptyActive, SetActive
  <2>3. ASSUME NEW p \in Procs, Start(p) \/ Refuse(p) \/ AskFails(p) \/ SecretFails(p) PROVE <1>2
    BY <2>3 DEF Start, Refuse, AskFails, SecretFails
  <2>4. CASE UNCHANGED vars
    BY <2>4 DEF vars
  <2> QED
    BY <2>1, <2>2, <2>3, <2>4 DEF Next, Finished
<1> QED
  BY <1>1, <1>2

(* What is cut short, refused or killed changes no active profile.          *)
LEMMA LossesAside ==
  ASSUME NEW p, WriteCut(p) \/ SecretFails(p) \/ Kill(p)
  PROVE  active' = active
<1>1. CASE WriteCut(p)
  BY <1>1 DEF WriteCut, CutProfiles
<1>2. CASE SecretFails(p)
  BY <1>2 DEF SecretFails, SpoilSecret
<1>3. CASE Kill(p)
  BY <1>3 DEF Kill, SpoilSecret, files
<1> QED
  BY <1>1, <1>2, <1>3

(* Checked: what SwitchActive has found is still saved when it writes.      *)
LEMMA StepChecked == Types /\ Kept /\ Checked /\ [Next]_vars => Checked'
<1> SUFFICES ASSUME Types, Kept, Checked, [Next]_vars PROVE Checked'
  OBVIOUS
<1> DEFINE At == {"emptyActive", "putActive"}
<1>1. ASSUME NEW p \in Procs, Check(p) PROVE Checked'
  <2>1. UNCHANGED <<active, cmd, history>> /\ cmd[p].interactive
    BY <1>1 DEF Check, End, Go, files, procVars, Checked
  <2>2. \A q \in Procs \ {p} : pc'[q] = pc[q]
    BY <1>1 DEF Check, End, Go, Types, TypeOK
  <2>3. ASSUME ~overlap, ~torn, pc'[p] \in At PROVE Preferred(cmd[p].names) \in DOMAIN saved
    <3>1. Preferred(cmd[p].names) \in DOMAIN profiles
      BY <1>1, <2>3 DEF Check, End, Configured, Types, TypeOK
    <3> QED
      BY <2>3, <3>1, NobodyTyped DEF Kept
  <2> QED
    BY <2>1, <2>2, <2>3 DEF Checked, history
<1>2. ASSUME NEW p \in Procs, EmptyActive(p) PROVE Checked'
  <2>1. active' \notin Names /\ UNCHANGED <<cmd, history>>
    BY <1>2, SetupAssumption DEF EmptyActive, PutActive, procVars
  <2>2. pc[p] = "emptyActive" /\ \A q \in Procs \ {p} : pc'[q] = pc[q]
    BY <1>2 DEF EmptyActive, Go, Types, TypeOK
  <2> QED
    BY <2>1, <2>2 DEF Checked, history
<1>3. ASSUME NEW p \in Procs, SetActive(p) PROVE Checked'
  <2>1. /\ active' \in Names => active' = Preferred(cmd[p].names)
        /\ UNCHANGED <<cmd, history>>
    BY <1>3, SetupAssumption DEF SetActive, PutActive, procVars
  <2>2. pc[p] = "putActive" /\ pc'[p] = "ended" /\ \A q \in Procs \ {p} : pc'[q] = pc[q]
    BY <1>3 DEF SetActive, End, Types, TypeOK
  <2> QED
    BY <2>1, <2>2 DEF Checked, history
<1>4. ASSUME active' = active,
             \A q \in Procs : /\ pc'[q] \in At => pc[q] = pc'[q]
                              /\ pc'[q] = "check" => pc[q] = "check" \/ cmd[q].interactive
      PROVE  Checked'
  BY <1>4, HistoryGrows DEF Checked
<1>5. ASSUME NEW p \in Procs, Start(p) PROVE Checked'
  <2>1. cmd[p].kind \in {"setup", "add", "use", "og"}
    BY SetupAssumption DEF CommandOK, Types, TypeOK
  <2>2. pc'[p] \in {"ask", "check", "og"} /\ (pc'[p] = "check" => cmd[p].interactive)
    BY <1>5, <2>1 DEF Start, Go, WantsTerminal, Types, TypeOK
  <2>3. active' = active /\ \A q \in Procs \ {p} : pc'[q] = pc[q]
    BY <1>5 DEF Start, Go, files, Types, TypeOK
  <2> QED
    BY <2>2, <2>3, <1>4
<1>6. ASSUME NEW p \in Procs, SetOG(p) PROVE Checked'
  BY <1>6, <1>4 DEF SetOG, PutOG, Go, End, Types, TypeOK
<1>7. ASSUME NEW p \in Procs,
             \/ Refuse(p) \/ Answers(p) \/ AskFails(p) \/ WriteCut(p) \/ SecretFails(p) \/ Kill(p)
             \/ Load(p) \/ LoadFails(p) \/ Truncate(p) \/ Write(p) \/ SaveSecret(p)
             \/ TokenIssued(p) \/ TokenRefused(p) \/ EmptyOG(p)
      PROVE  Checked'
  <2>1. active' = active
    BY <1>7, LossesAside DEF Refuse, Answers, Ask, PickOG, AskFails, Load, LoadFails, Truncate, TruncateProfiles, Write, WriteProfiles, SaveSecret, StoreSecret,
                TokenIssued, TokenRefused, EmptyOG, PutOG, files
  <2>2. \A q \in Procs : pc'[q] \in At \cup {"check"} => pc[q] = pc'[q]
    BY <1>7 DEF Refuse, Answers, Ask, PickOG, AskFails, WriteCut, SecretFails, Kill,
                Load, LoadFails, Truncate, Write, SaveSecret,
                TokenIssued, TokenRefused, EmptyOG, Configure, Go, End, Types, TypeOK
  <2> QED
    BY <2>1, <2>2, <1>4
<1>8. CASE UNCHANGED vars
  BY <1>8, <1>4 DEF vars, files
<1> QED
  BY <1>1, <1>2, <1>3, <1>5, <1>6, <1>7, <1>8 DEF Next, Works, Finished

(* The invariant of the specification.                                      *)
LEMMA Inductive == Spec => []IInv
<1>1. IInv /\ [Next]_vars => IInv'
  BY StepTypes, StepKept, StepBacked, StepChecked DEF IInv
<1> QED
  BY InitIInv, <1>1, PTL DEF Spec
-----------------------------------------------------------------------------
(* profiles.yaml holds what was saved, call by call, unless two calls       *)
(* overlapped or one was cut in its write.                                  *)
THEOREM Saves == Spec => []SavesAreKept
<1>1. IInv => SavesAreKept
  BY DEF IInv, Kept, SavesAreKept
<1> QED
  BY Inductive, <1>1, PTL

(* A profile whose secret is missing has a process that is still to store   *)
(* it, or that failed to; also when calls overlap.                          *)
THEOREM Secrets == Spec => []SecretBehindProfile
<1>1. IInv => SecretBehindProfile
  BY DEF IInv, Backed, Vouched, SecretBehindProfile
<1> QED
  BY Inductive, <1>1, PTL

(* The active profile is configured, unless profiles were lost.             *)
THEOREM Active == Spec => []ActiveIsConfigured
<1>1. IInv => ActiveIsConfigured
  <2> SUFFICES ASSUME IInv, ~overlap, ~torn, ~Writing, active \in Names PROVE Configured(active)
    BY DEF ActiveIsConfigured
  <2>1. active \in DOMAIN saved /\ profiles = saved
    BY DEF IInv, Checked, Kept
  <2>2. saved # Torn
    <3>1. PICK D \in SUBSET Names : saved \in [D -> ClientIds]
      BY DEF IInv, Types, TypeOK, PartialFunctions
    <3>2. DOMAIN Torn = {"torn"}
      BY DEF Torn
    <3> QED
      BY <3>1, <3>2, SetupAssumption
  <2> QED
    BY <2>1, <2>2 DEF Configured, Readable
<1> QED
  BY Inductive, <1>1, PTL

(* Only a process at a terminal changes the active profile.                 *)
THEOREM Terminal == Spec => OnlyTerminalSwitches
<1>1. IInv /\ [Next]_vars =>
        [active' # active => \E p \in Procs : pc'[p] # pc[p] /\ cmd[p].interactive]_vars
  <2> SUFFICES ASSUME IInv, [Next]_vars, active' # active
               PROVE  \E p \in Procs : pc'[p] # pc[p] /\ cmd[p].interactive
    OBVIOUS
  <2>1. PICK p \in Procs : EmptyActive(p) \/ SetActive(p)
    <3>1. ASSUME NEW p \in Procs,
                 Answers(p) \/ Works(p), ~ (EmptyActive(p) \/ SetActive(p)) PROVE active' = active
      BY <3>1 DEF Answers, Ask, PickOG, Works, Load, LoadFails, Truncate, TruncateProfiles, Write,
                  WriteProfiles, SaveSecret, StoreSecret, TokenIssued, TokenRefused, EmptyOG, SetOG,
                  PutOG, Check, files
    <3> QED
      BY <3>1, LossesAside DEF Next, Finished, Start, Refuse, AskFails, vars, files
  <2>2. pc[p] \in {"emptyActive", "putActive"} /\ pc'[p] # pc[p]
    BY <2>1 DEF EmptyActive, SetActive, Go, End, IInv, Types, TypeOK
  <2> QED
    BY <2>2 DEF IInv, Checked
<1> QED
  BY Inductive, <1>1, PTL DEF Spec, OnlyTerminalSwitches
-----------------------------------------------------------------------------
(* What setup leaves behind.  A process that runs alone can rely on the     *)
(* store as it left it; the second invariant says what that is after each   *)
(* step.  It binds only a setup that has run alone so far.                  *)
Passed(p) == Len(cmd[p].names) - Len(todo[p])
Finishing == {"og", "emptyOG", "putOG", "check", "emptyActive", "putActive"}

(* What is left to configure is the end of the list that was asked for.     *)
Listed(p) ==
  /\ Len(todo[p]) <= Len(cmd[p].names)
  /\ \A j \in 1..Len(todo[p]) : todo[p][j] = cmd[p].names[Passed(p) + j]
  /\ pc[p] \in Finishing /\ cmd[p].kind = "setup" => todo[p] = <<>>

Solo(p) == Running(p) /\ alone[p] => \A q \in Procs \ {p} : ~Running(q)

(* The profiles, where SaveProfile has emptied the file: those it will hold. *)
Text(p) == IF pc[p] = "write" THEN doc[p] ELSE profiles

(* The profiles that have been configured are there, with a right secret.   *)
Usable(p, n) ==
  /\ n \in DOMAIN Text(p)
  /\ cmd[p].validate => <<n, Text(p)[n]>> \in DOMAIN secrets /\ secrets[<<n, Text(p)[n]>>]
Ready(p) == \A k \in 1..Passed(p) : Usable(p, cmd[p].names[k])

(* How far the current one is.                                              *)
Current(p) ==
  /\ pc[p] = "truncate" => doc[p] = Upsert(profiles, Name(p), typed[p].client)
  /\ pc[p] = "write" => /\ Name(p) \in DOMAIN doc[p] /\ doc[p][Name(p)] = typed[p].client
                        /\ profiles = Nobody
  /\ pc[p] \in {"secret", "validate"} =>
       Name(p) \in DOMAIN profiles /\ profiles[Name(p)] = typed[p].client
  /\ pc[p] = "validate" => Account(p) \in DOMAIN secrets
  /\ pc[p] = "putActive" => active = Truncated

Grouped(p) == pc[p] \in {"check", "emptyActive", "putActive"} => og = pick[p]

Alone(p) == cmd[p].kind = "setup" /\ Running(p) /\ alone[p]
Lists  == \A p \in Procs : Listed(p)
Solos  == \A p \in Procs : Solo(p)
Owns   == \A p \in Procs : Alone(p) => Ready(p) /\ Current(p) /\ Grouped(p)
JInv   == Types /\ Lists /\ Solos /\ Owns

(* The command line of a process is one, and it names no profile twice.     *)
LEMMA CommandTyped ==
  ASSUME Types, NEW p \in Procs
  PROVE  /\ cmd[p].kind \in {"setup", "add", "use", "og"}
         /\ cmd[p].names \in Seq(Names) /\ cmd[p].names # <<>>
         /\ \A i, j \in DOMAIN cmd[p].names : cmd[p].names[i] = cmd[p].names[j] => i = j
         /\ todo[p] \in Seq(Names)
         /\ Len(cmd[p].names) \in Nat /\ Len(todo[p]) \in Nat
         /\ DOMAIN cmd[p].names = 1..Len(cmd[p].names)
  BY SetupAssumption DEF Types, TypeOK, CommandOK

LEMMA Remainder ==
  /\ \A n, m \in Nat : n - (m - 1) = (n - m) + 1
  /\ \A n, m \in Nat : m >= 1 /\ m <= n => n - m \in Nat /\ (n - m) + 1 \in 1..n
  OBVIOUS

(* The current profile is the first that has not been passed.               *)
LEMMA NameIsNext ==
  ASSUME Types, Lists, NEW p \in Procs, todo[p] # <<>>
  PROVE  /\ Passed(p) \in Nat /\ Passed(p) + 1 \in DOMAIN cmd[p].names
         /\ Name(p) = cmd[p].names[Passed(p) + 1]
         /\ \A k \in 1..Passed(p) : cmd[p].names[k] # Name(p)
<1>1. Len(todo[p]) \in Nat /\ Len(todo[p]) >= 1
  BY CommandTyped, EmptySeq
<1>2. Passed(p) \in Nat /\ Passed(p) + 1 \in DOMAIN cmd[p].names
  <2>1. Len(cmd[p].names) \in Nat /\ DOMAIN cmd[p].names = 1..Len(cmd[p].names)
    BY CommandTyped
  <2>2. Len(todo[p]) <= Len(cmd[p].names)
    BY DEF Lists, Listed
  <2> QED
    BY <1>1, <2>1, <2>2, Remainder DEF Passed
<1>3. Name(p) = todo[p][1]
  BY CommandTyped DEF Name
<1>4. todo[p][1] = cmd[p].names[Passed(p) + 1]
  BY <1>1 DEF Lists, Listed
<1>5. \A k \in 1..Passed(p) : k \in DOMAIN cmd[p].names /\ k # Passed(p) + 1
  BY <1>2, CommandTyped
<1> QED
  BY <1>2, <1>3, <1>4, <1>5, CommandTyped

(* Who takes a step, and what the step leaves the others.                   *)
StepOf(p) ==
  \/ Start(p) \/ Refuse(p) \/ Answers(p) \/ AskFails(p) \/ Works(p) \/ WriteCut(p)
  \/ SecretFails(p) \/ Kill(p)

LEMMA OthersStay ==
  ASSUME Types, NEW p \in Procs, StepOf(p), NEW q \in Procs, q # p
  PROVE  pc'[q] = pc[q] /\ ended'[q] = ended[q] /\ todo'[q] = todo[q]
<1>1. pc'[q] = pc[q] /\ ended'[q] = ended[q]
  <2>1. \/ \E from, to : Go(p, from, to)
        \/ \E from, how : End(p, from, how)
    BY DEF StepOf, Start, Refuse, Answers, Ask, PickOG, AskFails, Works, Load, LoadFails, Truncate,
           Write, WriteCut, SaveSecret, SecretFails, TokenIssued, TokenRefused, Configure, EmptyOG,
           SetOG, Check, EmptyActive, SetActive, Kill
  <2> QED
    BY <2>1 DEF Go, End, Types, TypeOK
<1>2. todo'[q] = todo[q]
  <2>1. UNCHANGED todo \/ \E from : Configure(p, from)
    BY DEF StepOf, Start, Refuse, Answers, Ask, PickOG, AskFails, Works, Load, LoadFails, Truncate,
           Write, WriteCut, SaveSecret, SecretFails, TokenIssued, TokenRefused, EmptyOG,
           SetOG, Check, EmptyActive, SetActive, Kill, procVars
  <2> QED
    BY <2>1 DEF Configure, Types, TypeOK
<1> QED
  BY <1>1, <1>2

(* Configure passes one profile.                                            *)
LEMMA ConfigurePasses ==
  ASSUME Types, Lists, NEW p \in Procs, NEW from \in AtProfile, Configure(p, from)
  PROVE  /\ Passed(p)' = Passed(p) + 1 /\ Passed(p) \in Nat
         /\ pc'[p] \in {"og", "ask"} /\ Listed(p)'
<1>1. todo[p] # <<>> /\ todo[p] \in Seq(Names) /\ pc[p] = from
  BY DEF Types, TypeOK, Busy, Configure, Go
<1>2. /\ Tail(todo[p]) \in Seq(Names) /\ Len(Tail(todo[p])) = Len(todo[p]) - 1
      /\ \A j \in 1..Len(Tail(todo[p])) : Tail(todo[p])[j] = todo[p][j + 1]
  BY <1>1, HeadTailProperties
<1>3. todo'[p] = Tail(todo[p]) /\ cmd' = cmd
  BY DEF Configure, Types, TypeOK
<1>4. pc'[p] = IF Len(todo[p]) = 1 THEN "og" ELSE "ask"
  BY DEF Configure, Go, Types, TypeOK
<1>5. Passed(p)' = Passed(p) + 1 /\ Passed(p) \in Nat
  <2>1. Len(cmd[p].names) \in Nat /\ Len(todo[p]) \in Nat /\ Passed(p) \in Nat
    BY <1>1, NameIsNext, CommandTyped
  <2>2. Passed(p)' = Len(cmd[p].names) - (Len(todo[p]) - 1)
    BY <1>2, <1>3 DEF Passed
  <2>3. Len(cmd[p].names) - (Len(todo[p]) - 1) = (Len(cmd[p].names) - Len(todo[p])) + 1
    BY <2>1, Remainder
  <2> QED
    BY <2>1, <2>2, <2>3 DEF Passed
<1>6. Len(todo'[p]) \in Nat /\ Len(todo'[p]) <= Len(cmd'[p].names)
  BY <1>2, <1>3, CommandTyped DEF Lists, Listed
<1>7. ASSUME NEW j \in 1..Len(todo'[p]) PROVE todo'[p][j] = cmd'[p].names[Passed(p)' + j]
  <2>1. todo'[p][j] = todo[p][j + 1] /\ j + 1 \in 1..Len(todo[p])
    BY <1>2, <1>3, <1>7, CommandTyped
  <2>2. todo[p][j + 1] = cmd[p].names[Passed(p) + (j + 1)]
    BY <2>1 DEF Lists, Listed
  <2>3. Passed(p) + (j + 1) = Passed(p)' + j
    BY <1>5
  <2> QED
    BY <1>3, <2>1, <2>2, <2>3
<1>8. pc'[p] \in Finishing => todo'[p] = <<>>
  <2>1. pc'[p] \in Finishing => Len(Tail(todo[p])) = 0
    BY <1>2, <1>4 DEF Finishing
  <2> QED
    BY <1>2, <1>3, <2>1, EmptySeq
<1> QED
  BY <1>4, <1>5, <1>6, <1>7, <1>8 DEF Listed

LEMMA StepLists == Types /\ Lists /\ [Next]_vars => Lists'
<1> SUFFICES ASSUME Types, Lists, [Next]_vars, NEW p \in Procs PROVE Listed(p)'
  BY DEF Lists
<1>1. cmd' = cmd
  BY HistoryGrows
<1>2. ASSUME todo'[p] = todo[p],
             pc'[p] \in Finishing => pc[p] \in Finishing \/ cmd[p].kind # "setup"
      PROVE  Listed(p)'
  BY <1>1, <1>2 DEF Lists, Listed, Passed
<1>3. ASSUME NEW q \in Procs, StepOf(q), q # p PROVE Listed(p)'
  BY <1>2, <1>3, OthersStay
<1>4. CASE SaveSecret(p) \/ TokenIssued(p)
  <2>1. {"secret", "validate"} \subseteq AtProfile /\ {"secret", "validate", "ended"} \cap Finishing = {}
    BY DEF AtProfile, Finishing
  <2>2. ASSUME NEW from \in {"secret", "validate"}, Configure(p, from) PROVE Listed(p)'
    BY <2>1, <2>2, ConfigurePasses
  <2>3. CASE \A from \in {"secret", "validate"} : ~Configure(p, from)
    BY <1>2, <1>4, <2>1, <2>3 DEF SaveSecret, TokenIssued, Go, End, procVars, Types, TypeOK
  <2> QED
    BY <2>2, <2>3
<1>5. CASE StepOf(p) /\ ~SaveSecret(p) /\ ~TokenIssued(p)
  <2>1. todo' = todo
    BY <1>5 DEF StepOf, Start, Refuse, Answers, Ask, PickOG, AskFails, Works, Load, LoadFails,
                Truncate, Write, WriteCut, SecretFails, TokenRefused, EmptyOG, SetOG, Check,
                EmptyActive, SetActive, Kill, procVars
  <2>2. ASSUME Start(p), cmd[p].kind = "setup" PROVE pc'[p] = "ask"
    BY <2>2 DEF Start, Go, Types, TypeOK
  <2>3. ASSUME ~Start(p), pc'[p] \in Finishing PROVE pc[p] \in Finishing
    BY <1>5, <2>3 DEF StepOf, Refuse, Answers, Ask, PickOG, AskFails, Works, Load, LoadFails,
                Truncate, Write, WriteCut, SecretFails, TokenRefused, EmptyOG, SetOG, Check,
                EmptyActive, SetActive, Kill, Go, End, Types, TypeOK, Finishing
  <2> QED
    BY <1>2, <2>1, <2>2, <2>3 DEF Finishing
<1>6. CASE UNCHANGED vars
  BY <1>2, <1>6 DEF vars, procVars
<1> QED
  BY <1>3, <1>4, <1>5, <1>6 DEF Next, StepOf, Finished

(* Solo: another process that starts is seen by every one that runs.        *)
LEMMA StepSolos == Types /\ Solos /\ [Next]_vars => Solos'
<1> SUFFICES ASSUME Types, Solos, [Next]_vars PROVE Solos'
  OBVIOUS
<1>1. ASSUME NEW p \in Procs, Start(p) PROVE Solos'
  <2>1. \A q \in Procs \ {p} : pc'[q] = pc[q]
    BY <1>1, OthersStay DEF StepOf
  <2>2. \A q \in Procs : alone'[q] =>
          alone[q] /\ IF q = p THEN \A r \in Procs : ~Running(r) ELSE ~Running(q)
    BY <1>1 DEF Start
  <2>3. ASSUME NEW q \in Procs, Running(q)', alone'[q], NEW r \in Procs \ {q} PROVE ~Running(r)'
    <3>1. q = p
      BY <2>1, <2>2, <2>3 DEF Running
    <3> QED
      BY <2>1, <2>2, <2>3, <3>1 DEF Running
  <2> QED
    BY <2>3 DEF Solos, Solo
<1>2. ASSUME UNCHANGED alone, \A q \in Procs : Running(q)' => Running(q) PROVE Solos'
  BY <1>2 DEF Solos, Solo
<1>3. ASSUME NEW p \in Procs, StepOf(p), ~Start(p) PROVE Solos'
  <2>1. UNCHANGED alone
    BY <1>3 DEF StepOf, Refuse, Answers, Ask, PickOG, AskFails, Works, Load, LoadFails,
                Truncate, Write, WriteCut, SaveSecret, SecretFails, TokenIssued, TokenRefused, EmptyOG,
                SetOG, Check, EmptyActive, SetActive, Kill, history
  <2>2. Running(p)' => Running(p)
    BY <1>3 DEF StepOf, Refuse, Answers, Ask, PickOG, AskFails, Works, Load, LoadFails,
                Truncate, Write, WriteCut, SaveSecret, SecretFails, TokenIssued, TokenRefused, Configure,
                EmptyOG, SetOG, Check, EmptyActive, SetActive, Kill, Go, End, Running, Types, TypeOK
  <2>3. \A q \in Procs \ {p} : pc'[q] = pc[q]
    BY <1>3, OthersStay
  <2> QED
    BY <1>2, <2>1, <2>2, <2>3 DEF Running
<1>4. CASE UNCHANGED vars
  BY <1>2, <1>4 DEF vars, history, Running
<1> QED
  BY <1>1, <1>3, <1>4 DEF Next, StepOf, Finished

(* Of the steps of others, a process that runs alone sees only a refusal.   *)
LEMMA OthersRefuse ==
  ASSUME Types, Solos, NEW p \in Procs, Running(p), alone'[p], NEW q \in Procs, q # p, StepOf(q)
  PROVE  alone[p] /\ UNCHANGED <<files, procVars>>
<1>1. CASE Start(q)
  BY <1>1 DEF Start
<1>2. CASE ~Start(q)
  <2>1. alone[p]
    BY <1>2 DEF StepOf, Refuse, Answers, Ask, PickOG, AskFails, Works, Load, LoadFails, Truncate,
                Write, WriteCut, SaveSecret, SecretFails, TokenIssued, TokenRefused, EmptyOG,
                SetOG, Check, EmptyActive, SetActive, Kill, history
  <2>2. pc[q] \in {"start", "ended"}
    BY <2>1 DEF Solos, Solo, Running
  <2>3. Refuse(q)
    BY <1>2, <2>2 DEF StepOf, Answers, Ask, PickOG, AskFails, Works, Load, LoadFails, Truncate,
                Write, WriteCut, SaveSecret, SecretFails, TokenIssued, TokenRefused, Configure, EmptyOG,
                SetOG, Check, EmptyActive, SetActive, Kill, Running, Go, End
  <2> QED
    BY <2>1, <2>3 DEF Refuse
<1> QED
  BY <1>1, <1>2

(* What was usable stays so, when the text and the keychain stay.           *)
LEMMA ReadyStays ==
  ASSUME NEW p, Ready(p), cmd' = cmd, todo'[p] = todo[p], Text(p)' = Text(p), secrets' = secrets
  PROVE  Ready(p)'
  BY DEF Ready, Usable, Passed

(* The steps of a setup that runs alone.  First SaveProfile's.              *)
LEMMA OwnTruncate ==
  ASSUME Types, Lists, NEW p \in Procs, Ready(p), Current(p), Truncate(p)
  PROVE  Ready(p)' /\ Current(p)'
<1>1. pc[p] = "truncate" /\ pc'[p] = "write" /\ todo[p] # <<>>
  BY DEF Truncate, Go, Types, TypeOK, Busy, AtProfile
<1>2. UNCHANGED <<cmd, todo, typed, doc, secrets>> /\ profiles' = Nobody
  BY DEF Truncate, TruncateProfiles, procVars
<1>3. doc[p] = Upsert(profiles, Name(p), typed[p].client)
  BY <1>1 DEF Current
<1>4. /\ DOMAIN doc[p] = DOMAIN profiles \cup {Name(p)}
      /\ doc[p][Name(p)] = typed[p].client
      /\ \A n \in DOMAIN profiles : n # Name(p) => doc[p][n] = profiles[n]
  BY <1>3 DEF Upsert
<1>5. Text(p) = profiles /\ Text(p)' = doc[p]
  BY <1>1, <1>2 DEF Text
<1>6. \A k \in 1..Passed(p) : cmd[p].names[k] # Name(p)
  BY <1>1, NameIsNext
<1>7. ASSUME NEW k \in 1..Passed(p) PROVE Usable(p, cmd[p].names[k])'
  <2>1. Usable(p, cmd[p].names[k])
    BY DEF Ready
  <2> QED
    BY <1>2, <1>4, <1>5, <1>6, <2>1 DEF Usable
<1>8. Ready(p)'
  BY <1>2, <1>7 DEF Ready, Passed
<1> QED
  BY <1>1, <1>2, <1>4, <1>8 DEF Current, Name

(* SaveClientSecret: one account more, of a profile not counted yet.        *)
LEMMA OwnSecret ==
  ASSUME Types, Lists, NEW p \in Procs, cmd[p].kind = "setup", Ready(p), Current(p), SaveSecret(p)
  PROVE  Ready(p)' /\ Current(p)' /\ pc'[p] \in {"validate", "og", "ask"}
<1>1. pc[p] = "secret" /\ todo[p] # <<>> /\ "secret" \in AtProfile
  BY DEF SaveSecret, Types, Busy, AtProfile
<1>2. UNCHANGED <<cmd, typed, profiles>>
  BY DEF SaveSecret, StoreSecret, procVars, Configure
<1>3. secrets' = Upsert(secrets, <<Name(p), typed[p].client>>, typed[p].right)
  BY DEF SaveSecret, StoreSecret
<1>4. /\ DOMAIN secrets' = DOMAIN secrets \cup {<<Name(p), typed[p].client>>}
      /\ \A a \in DOMAIN secrets : a # <<Name(p), typed[p].client>> => secrets'[a] = secrets[a]
  BY <1>3 DEF Upsert
<1>5. Name(p) \in DOMAIN profiles /\ profiles[Name(p)] = typed[p].client
  BY <1>1 DEF Current
<1>6. /\ Passed(p) \in Nat /\ Name(p) = cmd[p].names[Passed(p) + 1]
      /\ \A k \in 1..Passed(p) : cmd[p].names[k] # Name(p)
  BY <1>1, NameIsNext
<1>7. pc'[p] # "write" => \A k \in 1..Passed(p) : Usable(p, cmd[p].names[k])'
  BY <1>1, <1>2, <1>4, <1>6 DEF Ready, Usable, Text
<1>8. CASE cmd[p].validate
  <2>1. pc'[p] = "validate" /\ todo' = todo
    BY <1>8 DEF SaveSecret, Go, procVars, Types, TypeOK
  <2>2. Ready(p)'
    BY <1>2, <1>7, <2>1 DEF Ready, Passed
  <2>3. Current(p)'
    BY <1>2, <1>4, <1>5, <2>1 DEF Current, Name, Account
  <2> QED
    BY <2>1, <2>2, <2>3
<1>9. CASE ~cmd[p].validate
  <2>1. Configure(p, "secret")
    BY <1>9 DEF SaveSecret
  <2>2. Passed(p)' = Passed(p) + 1 /\ pc'[p] \in {"og", "ask"}
    BY <1>1, <2>1, ConfigurePasses
  <2>3. \A k \in {Passed(p) + 1} : Usable(p, cmd[p].names[k])'
    BY <1>2, <1>5, <1>6, <1>9, <2>2 DEF Usable, Text
  <2>4. \A k \in 1..Passed(p)' : k \in 1..Passed(p) \/ k = Passed(p) + 1
    BY <1>6, <2>2
  <2>5. Ready(p)'
    BY <1>2, <1>7, <2>2, <2>3, <2>4 DEF Ready
  <2> QED
    BY <2>2, <2>5 DEF Current
<1> QED
  BY <1>8, <1>9

(* A token is issued for what the keychain holds: the profile is usable.    *)
LEMMA OwnToken ==
  ASSUME Types, Lists, NEW p \in Procs, Ready(p), Current(p), TokenIssued(p)
  PROVE  Ready(p)' /\ Current(p)' /\ pc'[p] \in {"og", "ask"}
<1>1. pc[p] = "validate" /\ todo[p] # <<>> /\ "validate" \in AtProfile
  BY DEF TokenIssued, Types, Busy, AtProfile
<1>2. UNCHANGED <<cmd, typed, profiles, secrets>>
  BY DEF TokenIssued, Configure, files
<1>3. Name(p) \in DOMAIN profiles /\ profiles[Name(p)] = typed[p].client
  BY <1>1 DEF Current
<1>4. <<Name(p), profiles[Name(p)]>> \in DOMAIN secrets /\ secrets[<<Name(p), profiles[Name(p)]>>]
  BY <1>1, <1>3 DEF Current, TokenIssued, Account
<1>5. Passed(p) \in Nat /\ Name(p) = cmd[p].names[Passed(p) + 1]
  BY <1>1, NameIsNext
<1>6. Passed(p)' = Passed(p) + 1 /\ pc'[p] \in {"og", "ask"}
  BY <1>1, ConfigurePasses DEF TokenIssued
<1>7. \A k \in {Passed(p) + 1} : Usable(p, cmd[p].names[k])'
  BY <1>2, <1>3, <1>4, <1>5, <1>6 DEF Usable, Text
<1>8. \A k \in 1..Passed(p) : Usable(p, cmd[p].names[k])'
  BY <1>1, <1>2, <1>6 DEF Ready, Usable, Text
<1>9. \A k \in 1..Passed(p)' : k \in 1..Passed(p) \/ k = Passed(p) + 1
  BY <1>5, <1>6
<1>10. Ready(p)'
  BY <1>2, <1>7, <1>8, <1>9 DEF Ready
<1> QED
  BY <1>6, <1>10 DEF Current

LEMMA StepOwns == Types /\ Lists /\ Solos /\ Owns /\ [Next]_vars => Owns'
<1> SUFFICES ASSUME Types, Lists, Solos, Owns, [Next]_vars, NEW p \in Procs, Alone(p)'
             PROVE  (Ready(p) /\ Current(p) /\ Grouped(p))'
  BY DEF Owns
<1>1. cmd' = cmd /\ cmd[p].kind = "setup" /\ Running(p)' /\ alone'[p]
  BY HistoryGrows DEF Alone
<1>2. CASE Start(p)
  <2>1. pc[p] = "start" /\ pc'[p] = "ask" /\ todo' = todo
    BY <1>1, <1>2 DEF Start, Go, procVars, Types, TypeOK
  <2>2. Passed(p)' = 0
    BY <1>1, <2>1, CommandTyped DEF Types, Busy, Passed
  <2> QED
    BY <2>1, <2>2 DEF Ready, Current, Grouped
<1>3. ASSUME UNCHANGED <<files, procVars>>, pc'[p] = pc[p], alone[p] PROVE (Ready(p) /\ Current(p) /\ Grouped(p))'
  <2>1. Ready(p) /\ Current(p) /\ Grouped(p)
    BY <1>1, <1>3 DEF Owns, Alone, Running
  <2>2. Ready(p)'
    BY <1>3, <2>1, ReadyStays DEF Text, files, procVars
  <2> QED
    BY <1>3, <2>1, <2>2 DEF Current, Grouped, Name, Account, files, procVars
<1>4. ASSUME NEW q \in Procs, q # p, StepOf(q) PROVE (Ready(p) /\ Current(p) /\ Grouped(p))'
  <2>1. pc'[p] = pc[p]
    BY <1>4, OthersStay
  <2> QED
    BY <1>1, <1>3, <1>4, <2>1, OthersRefuse DEF Running
<1>5. CASE StepOf(p) /\ ~Start(p)
  <2>1. Running(p) /\ alone[p]
    BY <1>1, <1>5 DEF StepOf, Refuse, Answers, Ask, PickOG, AskFails, Works, Load, LoadFails,
                Truncate, Write, WriteCut, SaveSecret, SecretFails, TokenIssued, TokenRefused, Configure,
                EmptyOG, SetOG, Check, EmptyActive, SetActive, Kill, Go, End, Running, Types, TypeOK, history
  <2>2. Ready(p) /\ Current(p) /\ Grouped(p)
    BY <1>1, <2>1 DEF Owns, Alone
  <2>3. CASE Truncate(p)
    BY <2>2, <2>3, OwnTruncate DEF Truncate, Go, Grouped, Types, TypeOK
  <2>4. CASE SaveSecret(p)
    BY <1>1, <2>2, <2>4, OwnSecret DEF Grouped
  <2>5. CASE TokenIssued(p)
    BY <2>2, <2>5, OwnToken DEF Grouped
  <2>6. CASE Write(p)
    <3>1. pc[p] = "write" /\ pc'[p] = "secret" /\ UNCHANGED <<cmd, todo, typed, secrets>> /\ profiles' = doc[p]
      BY <2>2, <2>6 DEF Write, WriteProfiles, Go, procVars, Types, TypeOK, Current
    <3>2. Ready(p)'
      BY <2>2, <3>1, ReadyStays DEF Text
    <3> QED
      BY <2>2, <3>1, <3>2 DEF Current, Grouped, Name
  <2>7. CASE Load(p)
    <3>1. /\ pc[p] = "load" /\ pc'[p] = "truncate" /\ UNCHANGED <<files, cmd, todo, typed>>
          /\ doc'[p] = Upsert(profiles, Name(p), typed[p].client)
      BY <2>7 DEF Load, Go, Types, TypeOK
    <3>2. Ready(p)'
      BY <2>2, <3>1, ReadyStays DEF Text, files
    <3> QED
      BY <3>1, <3>2 DEF Current, Grouped, Name, files
  <2>8. CASE (\E t \in Typed : Ask(p, t)) \/ TokenRefused(p)
    <3>1. pc[p] \in {"ask", "validate"} /\ pc'[p] \in {"load", "ask"} /\ UNCHANGED <<files, cmd, todo>>
      BY <1>1, <2>8 DEF Ask, TokenRefused, Go, End, Running, Types, TypeOK
    <3>2. Ready(p)'
      BY <2>2, <3>1, ReadyStays DEF Text, files
    <3> QED
      BY <3>1, <3>2 DEF Current, Grouped
  <2>9. CASE \/ \E g \in OGs \cup {Unset} : PickOG(p, g)
             \/ EmptyOG(p) \/ SetOG(p) \/ Check(p) \/ EmptyActive(p)
    <3>1. /\ pc[p] \in Finishing /\ pc'[p] \in Finishing
          /\ UNCHANGED <<profiles, secrets, cmd, todo>>
      BY <1>1, <2>9 DEF PickOG, EmptyOG, SetOG, Check, EmptyActive, PutOG, PutActive, Go, End, Running,
                   Finishing, files, procVars, Types, TypeOK
    <3>2. Ready(p)'
      BY <2>2, <3>1, ReadyStays DEF Text, Finishing
    <3>3. Grouped(p)'
      BY <2>2, <2>9 DEF PickOG, EmptyOG, SetOG, Check, EmptyActive, PutOG, PutActive, Go, End,
                   Grouped, files, procVars, Types, TypeOK
    <3>4. pc'[p] = "putActive" => active' = Truncated
      BY <2>9 DEF PickOG, EmptyOG, SetOG, Check, EmptyActive, PutActive, Go, End, Types, TypeOK
    <3> QED
      BY <3>1, <3>2, <3>3, <3>4 DEF Current, Finishing
  <2>10. ~ ( \/ Refuse(p) \/ AskFails(p) \/ LoadFails(p) \/ WriteCut(p) \/ SecretFails(p) \/ Kill(p)
             \/ SetActive(p) )
    BY <1>1 DEF Refuse, AskFails, LoadFails, WriteCut, SecretFails, Kill, SetActive, End, Running,
                Types, TypeOK
  <2> QED
    BY <1>5, <2>3, <2>4, <2>5, <2>6, <2>7, <2>8, <2>9, <2>10 DEF StepOf, Works, Answers
<1>6. CASE UNCHANGED vars
  BY <1>1, <1>3, <1>6 DEF vars, history
<1> QED
  BY <1>2, <1>4, <1>5, <1>6 DEF Next, StepOf, Finished

(* The second invariant of the specification.                               *)
LEMMA SecondInvariance == Spec => []JInv
<1>1. Init => JInv
  <2> SUFFICES ASSUME Init PROVE JInv
    OBVIOUS
  <2>1. Types /\ \A p \in Procs : pc[p] = "start" /\ todo[p] = cmd[p].names
    BY InitTypes DEF Init
  <2>2. \A p \in Procs : ~Running(p)
    BY <2>1 DEF Running
  <2>3. ASSUME NEW p \in Procs PROVE Listed(p)
    <3>1. Len(cmd[p].names) \in Nat /\ todo[p] = cmd[p].names /\ pc[p] = "start"
      BY <2>1, CommandTyped
    <3>2. Passed(p) = 0
      BY <3>1 DEF Passed
    <3>3. pc[p] \notin Finishing
      BY <3>1 DEF Finishing
    <3> QED
      BY <3>1, <3>2, <3>3 DEF Listed
  <2> QED
    BY <2>1, <2>2, <2>3 DEF JInv, Lists, Solos, Solo, Owns, Alone
<1>2. JInv /\ [Next]_vars => JInv'
  BY StepTypes, StepLists, StepSolos, StepOwns DEF JInv
<1> QED
  BY <1>1, <1>2, PTL DEF Spec

(* Setup that ends well, and ran alone, leaves every profile it was asked   *)
(* for in the file, with the secret the endpoint accepted, and the group    *)
(* and the active profile as chosen: however often it asked again.          *)
THEOREM UsableAfterSetup == Spec => SetupLeavesItUsable
<1> DEFINE Leaves ==
      \A p \in Procs :
        cmd[p].kind = "setup" /\ ended[p] = "no" /\ ended'[p] = "ok" /\ alone[p] =>
          /\ \A i \in DOMAIN cmd[p].names :
               LET n == cmd[p].names[i] IN
                 /\ Configured(n)'
                 /\ cmd[p].validate => secrets'[<<n, profiles'[n]>>]
          /\ og' = pick[p]
          /\ cmd[p].interactive => active' = Preferred(cmd[p].names)
<1>1. JInv /\ [Next]_vars => [Leaves]_vars
  <2> SUFFICES ASSUME JInv, [Next]_vars, NEW p \in Procs, cmd[p].kind = "setup",
                      ended[p] = "no", ended'[p] = "ok", alone[p]
               PROVE  /\ \A i \in DOMAIN cmd[p].names :
                           /\ Configured(cmd[p].names[i])'
                           /\ cmd[p].validate =>
                                secrets'[<<cmd[p].names[i], profiles'[cmd[p].names[i]]>>]
                      /\ og' = pick[p]
                      /\ cmd[p].interactive => active' = Preferred(cmd[p].names)
    BY HistoryGrows DEF JInv
  <2> USE DEF JInv
  <2>1. StepOf(p)
    BY OthersStay DEF Next, StepOf, Finished, vars
  <2>2. \/ SetOG(p) /\ ~cmd[p].interactive
        \/ SetActive(p)
    BY <2>1 DEF StepOf, Start, Refuse, Answers, Ask, PickOG, AskFails, Works, Load, LoadFails,
                Truncate, Write, WriteCut, SaveSecret, SecretFails, TokenIssued, TokenRefused, Configure,
                EmptyOG, SetOG, Check, EmptyActive, Kill, Go, End, Types, TypeOK
  <2>3. pc[p] \in {"putOG", "putActive"} /\ UNCHANGED <<profiles, secrets>>
    BY <2>2 DEF SetOG, SetActive, PutOG, PutActive, Go, End
  <2>4. Ready(p) /\ Grouped(p) /\ Current(p)
    BY <2>3 DEF Owns, Alone, Running
  <2>5. Passed(p) = Len(cmd[p].names)
    <3>1. todo[p] = <<>>
      BY <2>3 DEF Lists, Listed, Finishing
    <3>2. Len(todo[p]) = 0 /\ Len(cmd[p].names) \in Nat
      BY <3>1, CommandTyped
    <3> QED
      BY <3>2 DEF Passed
  <2>6. ASSUME NEW i \in DOMAIN cmd[p].names
        PROVE  /\ Configured(cmd[p].names[i])'
               /\ cmd[p].validate =>
                    secrets'[<<cmd[p].names[i], profiles'[cmd[p].names[i]]>>]
    <3>1. cmd' = cmd /\ cmd[p].names[i] \in Names
      BY HistoryGrows, CommandTyped
    <3>2. Usable(p, cmd[p].names[i])
      BY <2>4, <2>5, CommandTyped DEF Ready
    <3>3. /\ cmd[p].names[i] \in DOMAIN profiles
          /\ cmd[p].validate => secrets[<<cmd[p].names[i], profiles[cmd[p].names[i]]>>]
      BY <2>3, <3>2 DEF Usable, Text
    <3>4. profiles # Torn
      BY <3>1, <3>3, SetupAssumption DEF Torn
    <3> QED
      BY <2>3, <3>1, <3>3, <3>4 DEF Configured, Readable
  <2>7. og' = pick[p] /\ (cmd[p].interactive => active' = Preferred(cmd[p].names))
    BY <2>2, <2>4 DEF SetOG, SetActive, PutOG, PutActive, End, Grouped, Current
  <2> QED
    BY <2>6, <2>7
<1>2. (Spec => []JInv) => (Spec => [][Leaves]_vars)
  BY <1>1, PTL DEF Spec
<1> QED
  BY SecondInvariance, <1>2 DEF SetupLeavesItUsable
-----------------------------------------------------------------------------
(* How many steps a process has left.  A refused token sends it back five   *)
(* places and costs it an attempt; the next profile gives the attempts back *)
(* and costs it a profile.                                                  *)
Place == [start |-> 13, ask |-> 12, load |-> 11, truncate |-> 10, write |-> 9, secret |-> 8,
          validate |-> 7, og |-> 6, emptyOG |-> 5, putOG |-> 4, check |-> 3, emptyActive |-> 2,
          putActive |-> 1, ended |-> 0]
Weight(profilesLeft, tried, place) == 18 * profilesLeft + 6 * (maxAttempts - tried) + place
Left(p) == Weight(Len(todo[p]), attempt[p], Place[pc[p]])

LEMMA Weights ==
  ASSUME NEW l \in Nat, NEW a \in 1..3, NEW c \in 0..13
  PROVE  /\ Weight(l, a, c) \in Nat
         /\ \A d \in 0..13 : d < c => Weight(l, a, d) < Weight(l, a, c)
         /\ a < 3 /\ c = 7 => Weight(l, a + 1, 12) < Weight(l, a, c)
         /\ l > 0 /\ c >= 7 => \A d \in 0..12 : Weight(l - 1, 1, d) < Weight(l, a, c)
  BY DEF Weight, maxAttempts

LEMMA LeftTyped ==
  ASSUME Types, NEW p \in Procs
  PROVE  /\ Place[pc[p]] \in 0..13 /\ Len(todo[p]) \in Nat /\ attempt[p] \in 1..3
         /\ Left(p) \in Nat
<1>1. Len(todo[p]) \in Nat
  BY CommandTyped
<1>2. attempt[p] \in 1..3 /\ pc[p] \in Steps
  BY DEF Types, TypeOK, maxAttempts
<1>3. Place[pc[p]] \in 0..13
  BY <1>2 DEF Place, Steps
<1> QED
  BY <1>1, <1>2, <1>3, Weights DEF Left

(* A step that neither retries nor passes a profile moves on.               *)
LEMMA MovesOn ==
  ASSUME Types, NEW p \in Procs, todo'[p] = todo[p], attempt'[p] = attempt[p],
         Place[pc'[p]] < Place[pc[p]], Place[pc'[p]] \in 0..13
  PROVE  Left(p)' < Left(p)
  BY LeftTyped, Weights DEF Left

LEMMA PassingCounts ==
  ASSUME Types, NEW p \in Procs, NEW from \in {"secret", "validate"}, Configure(p, from)
  PROVE  Left(p)' < Left(p)
<1>1. /\ todo[p] # <<>> /\ pc[p] = from /\ todo'[p] = Tail(todo[p]) /\ attempt'[p] = 1
      /\ pc'[p] \in {"og", "ask"}
  BY DEF Configure, Go, Types, TypeOK, Busy, AtProfile
<1>2. Len(Tail(todo[p])) = Len(todo[p]) - 1 /\ Len(todo[p]) > 0
  BY <1>1, CommandTyped, HeadTailProperties, EmptySeq
<1>3. Place[pc'[p]] \in 0..12 /\ Place[pc[p]] >= 7
  BY <1>1 DEF Place
<1>4. Left(p)' = Weight(Len(todo[p]) - 1, 1, Place[pc'[p]])
  BY <1>1, <1>2 DEF Left
<1> QED
  BY <1>2, <1>3, <1>4, LeftTyped, Weights DEF Left

LEMMA RetryCounts ==
  ASSUME Types, NEW p \in Procs, TokenRefused(p)
  PROVE  Left(p)' < Left(p)
<1>1. todo'[p] = todo[p] /\ pc[p] = "validate" /\ attempt[p] \in 1..3
  BY DEF TokenRefused, Go, End, Types, TypeOK, maxAttempts
<1>2. CASE attempt[p] < maxAttempts
  <2>1. attempt'[p] = attempt[p] + 1 /\ pc'[p] = "ask" /\ attempt[p] < 3
    BY <1>2 DEF TokenRefused, Go, Types, TypeOK, maxAttempts
  <2>2. Place[pc'[p]] = 12 /\ Place[pc[p]] = 7
    BY <1>1, <2>1 DEF Place
  <2>3. Left(p)' = Weight(Len(todo[p]), attempt[p] + 1, 12)
    BY <1>1, <2>1, <2>2 DEF Left
  <2> QED
    BY <2>1, <2>2, <2>3, LeftTyped, Weights DEF Left
<1>3. CASE ~(attempt[p] < maxAttempts)
  <2>1. attempt'[p] = attempt[p] /\ pc'[p] = "ended"
    BY <1>1, <1>3 DEF TokenRefused, End, Types, TypeOK, maxAttempts
  <2>2. Place[pc'[p]] = 0 /\ Place[pc[p]] = 7
    BY <1>1, <2>1 DEF Place
  <2> QED
    BY <1>1, <2>1, <2>2, MovesOn
<1> QED
  BY <1>2, <1>3

LEMMA EveryStepCounts ==
  ASSUME Types, NEW p \in Procs, StepOf(p)
  PROVE  Left(p)' < Left(p)
<1>1. CASE TokenRefused(p)
  BY <1>1, RetryCounts
<1>2. CASE \E from \in {"secret", "validate"} : Configure(p, from)
  BY <1>2, PassingCounts
<1>3. CASE ~TokenRefused(p) /\ ~ \E from \in {"secret", "validate"} : Configure(p, from)
  <2>1. ~TokenIssued(p)
    BY <1>3 DEF TokenIssued
  <2>2. UNCHANGED <<todo, attempt>>
    BY <1>3, <2>1 DEF StepOf, Start, Refuse, Answers, Ask, PickOG, AskFails, Works, Load, LoadFails,
                Truncate, Write, WriteCut, SaveSecret, SecretFails, EmptyOG,
                SetOG, Check, EmptyActive, SetActive, Kill, procVars
  <2>3. ASSUME NEW from, NEW how, End(p, from, how), from # "ended" PROVE Left(p)' < Left(p)
    <3>1. pc[p] # "ended" /\ pc[p] \in Steps /\ pc'[p] = "ended"
      BY <2>3 DEF End, Types, TypeOK
    <3>2. Place[pc'[p]] = 0 /\ Place[pc[p]] > 0
      BY <3>1 DEF Place, Steps
    <3> QED
      BY <2>2, <3>2, MovesOn
  <2>4. ASSUME NEW from \in Steps, NEW to \in Steps, Go(p, from, to), Place[to] < Place[from]
        PROVE  Left(p)' < Left(p)
    <3>1. pc[p] = from /\ pc'[p] = to
      BY <2>4 DEF Go, Types, TypeOK
    <3>2. Place[to] \in 0..13
      BY DEF Place, Steps
    <3> QED
      BY <2>2, <2>4, <3>1, <3>2, MovesOn
  <2>5. CASE \/ Refuse(p) \/ AskFails(p) \/ LoadFails(p) \/ WriteCut(p) \/ SecretFails(p) \/ Kill(p)
             \/ SetActive(p)
    BY <2>3, <2>5 DEF Refuse, AskFails, LoadFails, WriteCut, SecretFails, Kill, SetActive, Running
  <2>6. CASE Start(p)
    <3>1. cmd[p].kind \in {"setup", "add", "use", "og"}
      BY CommandTyped
    <3>2. PICK to \in {"ask", "check", "og"} : Go(p, "start", to)
      BY <2>6, <3>1 DEF Start
    <3>3. Place[to] < Place["start"] /\ to \in Steps /\ "start" \in Steps
      BY DEF Place, Steps
    <3> QED
      BY <2>4, <3>2, <3>3
  <2>7. CASE Answers(p)
    <3>1. \/ Go(p, "ask", "load")
          \/ \E to \in {"putOG", "emptyOG"} : Go(p, "og", to)
      BY <2>7 DEF Answers, Ask, PickOG
    <3>2. /\ Place["load"] < Place["ask"]
          /\ \A to \in {"putOG", "emptyOG"} : Place[to] < Place["og"]
          /\ {"ask", "load", "og", "putOG", "emptyOG"} \subseteq Steps
      BY DEF Place, Steps
    <3> QED
      BY <2>4, <3>1, <3>2
  <2>8. CASE Load(p) \/ Truncate(p) \/ Write(p) \/ SaveSecret(p)
    <3>1. \/ Go(p, "load", "truncate") \/ Go(p, "truncate", "write") \/ Go(p, "write", "secret")
          \/ Go(p, "secret", "validate") \/ End(p, "secret", "ok")
      BY <1>3, <2>8 DEF Load, Truncate, Write, SaveSecret
    <3>2. /\ Place["truncate"] < Place["load"] /\ Place["write"] < Place["truncate"]
          /\ Place["secret"] < Place["write"] /\ Place["validate"] < Place["secret"]
          /\ {"load", "truncate", "write", "secret", "validate"} \subseteq Steps
      BY DEF Place, Steps
    <3> QED
      BY <2>3, <2>4, <3>1, <3>2
  <2>9. CASE EmptyOG(p) \/ SetOG(p) \/ Check(p) \/ EmptyActive(p)
    <3>1. \/ Go(p, "emptyOG", "putOG") \/ Go(p, "putOG", "check") \/ End(p, "putOG", "ok")
          \/ Go(p, "check", "emptyActive") \/ End(p, "check", "failed")
          \/ Go(p, "emptyActive", "putActive")
      BY <2>9 DEF EmptyOG, SetOG, Check, EmptyActive
    <3>2. /\ Place["putOG"] < Place["emptyOG"] /\ Place["check"] < Place["putOG"]
          /\ Place["emptyActive"] < Place["check"] /\ Place["putActive"] < Place["emptyActive"]
          /\ {"emptyOG", "putOG", "check", "emptyActive", "putActive"} \subseteq Steps
      BY DEF Place, Steps
    <3> QED
      BY <2>3, <2>4, <3>1, <3>2
  <2> QED
    BY <1>3, <2>1, <2>5, <2>6, <2>7, <2>8, <2>9 DEF StepOf, Works
<1> QED
  BY <1>1, <1>2, <1>3

(* No command goes round for ever: whatever the user types and the endpoint *)
(* refuses, each step of a process leaves it fewer, and none gives another  *)
(* process more.                                                            *)
THEOREM StepsRunOut ==
  Spec => /\ [](\A p \in Procs : Left(p) \in Nat)
          /\ [][/\ \A p \in Procs : Left(p)' <= Left(p)
                /\ \E p \in Procs : Left(p)' < Left(p)]_vars
<1> DEFINE InNat == \A p \in Procs : Left(p) \in Nat
           Down == /\ \A p \in Procs : Left(p)' <= Left(p)
                   /\ \E p \in Procs : Left(p)' < Left(p)
<1>1. Types => InNat
  BY LeftTyped
<1>2. Types /\ InNat /\ InNat' /\ [Next]_vars => [Down]_vars
  <2> SUFFICES ASSUME Types, InNat, InNat', Next, vars' # vars PROVE Down
    OBVIOUS
  <2>1. PICK q \in Procs : StepOf(q)
    BY DEF Next, StepOf, Finished
  <2>2. Left(q)' < Left(q)
    BY <2>1, EveryStepCounts
  <2>3. ASSUME NEW p \in Procs, p # q PROVE Left(p)' = Left(p)
    <3>1. pc'[p] = pc[p] /\ todo'[p] = todo[p]
      BY <2>1, <2>3, OthersStay
    <3>2. attempt'[p] = attempt[p]
      BY <2>1, <2>3 DEF StepOf, Start, Refuse, Answers, Ask, PickOG, AskFails, Works, Load, LoadFails,
           Truncate, Write, WriteCut, SaveSecret, SecretFails, TokenIssued, TokenRefused, Configure,
           EmptyOG, SetOG, Check, EmptyActive, SetActive, Kill, procVars, Types, TypeOK
    <3> QED
      BY <3>1, <3>2 DEF Left
  <2> QED
    BY <2>2, <2>3
<1> HIDE DEF InNat, Down
<1>3. Spec => []InNat /\ [][Down]_vars
  BY InitTypes, StepTypes, <1>1, <1>2, PTL DEF Spec
<1> QED
  BY <1>3 DEF InNat, Down
=============================================================================
