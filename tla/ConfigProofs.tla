---------------------------- MODULE ConfigProofs ----------------------------
(***************************************************************************)
(* What holds of ConfigWatch for all contents of the files and any number of *)
(* writes.                                                                  *)
(***************************************************************************)
EXTENDS ConfigWatch, TLAPS

\* What the two reads of a round, and the import and the start of the loop, have to
\* agree on for KeysMatchLast.
ReadsAgree ==
  /\ up /\ kloop = "loading" /\ ~raced => kfile = kread
  /\ up /\ kloop = "starting" /\ ~raced => keys = KeysIn(kfile)

-----------------------------------------------------------------------------
(* Types *)

\* What validate has accepted is a value of every setting.
LEMMA AppliedType ==
  ASSUME NEW v \in Values \union {Default}, NEW c \in SettingsFiles,
         v = Default => Valid(Applied(v, c))
  PROVE  Applied(v, c) \in Values
<1>1. c.uri \in {"none", "blank", "set"} /\ c.ttl \in Nat
  BY ConfigAssumption DEF ConfigAssumption, SettingsContent
<1>2. v.ttl \in Nat \ {0} /\ v.uri \in {"none", "blank", "set"}
  BY ConfigAssumption DEF ConfigAssumption, Values, Default
<1>3. v.uri = "none" => v = Default
  BY DEF Values, Default
<1>4. Applied(v, c).uri \in {"blank", "set"}
  BY <1>1, <1>2, <1>3 DEF Applied, Valid
<1>5. Applied(v, c).ttl \in Nat \ {0}
  BY <1>1, <1>2 DEF Applied
<1> QED BY <1>4, <1>5 DEF Applied, Values

\* Cutting session_ttl keeps the values and brings it within the maximum.
LEMMA CappedType ==
  ASSUME NEW v \in Values
  PROVE  Capped(v) \in Values /\ Capped(v).ttl <= MaxTtl
BY ConfigAssumption DEF ConfigAssumption, Capped, Values

\* The keys of a file are keys of some file, and a file that is no list has none.
LEMMA KeysType ==
  ASSUME NEW c \in KeyFiles
  PROVE  /\ KeysIn(c) \subseteq UNION {d.keys : d \in KeyFiles}
         /\ c.kind = "absent" => KeysIn(c) = {}
BY ConfigAssumption DEF ConfigAssumption, KeysIn

LEMMA EmptyType == Empty \in KeyFiles /\ KeysIn(Empty) = {}
BY ConfigAssumption DEF ConfigAssumption, KeysIn, Empty

-----------------------------------------------------------------------------
(* Steps *)

LEMMA InitConfig == Init => ConfigTypeOK /\ TtlWithinMaximum /\ KeysMatchLast /\ ReadsAgree
<1> SUFFICES ASSUME Init
             PROVE  ConfigTypeOK /\ TtlWithinMaximum /\ KeysMatchLast /\ ReadsAgree
  OBVIOUS
<1>1. Applied(Default, sfile) \in Values
  BY AppliedType DEF Init, Bootable
<1>2. settings \in Values /\ settings.ttl <= MaxTtl
  BY <1>1, CappedType DEF Init
<1>3. sfile \in SettingsFiles /\ kfile \in KeyFiles
  BY DEF Init
<1>4. keys \subseteq UNION {c.keys : c \in KeyFiles}
  BY <1>3, KeysType DEF Init
<1>5. klast \in KeyFiles /\ kread \in KeyFiles
  BY EmptyType DEF Init
<1>6. writes \in 0 .. MaxWrites
  BY ConfigAssumption DEF ConfigAssumption, Init
<1>7. ConfigTypeOK
  BY <1>2, <1>3, <1>4, <1>5, <1>6 DEF Init, ConfigTypeOK
<1> QED BY <1>2, <1>7 DEF Init, TtlWithinMaximum, KeysMatchLast, ReadsAgree

\* The loop of the settings touches nothing of the keys.
LEMMA SettingsStep ==
  ConfigTypeOK /\ TtlWithinMaximum /\ SettingsPoll => ConfigTypeOK' /\ TtlWithinMaximum'
<1> SUFFICES ASSUME ConfigTypeOK, TtlWithinMaximum, SettingsPoll
             PROVE  ConfigTypeOK' /\ TtlWithinMaximum'
  OBVIOUS
<1>1. CASE sfile.kind # "toml"
  BY <1>1 DEF SettingsPoll, ConfigTypeOK, TtlWithinMaximum
<1>2. CASE sfile.kind = "toml"
  <2> DEFINE v == Applied(settings, sfile)
  <2>1. v \in Values
    <3>1. settings \in Values /\ settings # Default
      BY DEF ConfigTypeOK, Values, Default
    <3> QED BY <3>1, AppliedType DEF ConfigTypeOK
  <2>2. Capped(v) \in Values /\ Capped(v).ttl <= MaxTtl
    BY <2>1, CappedType
  <2>3. /\ settings' \in Values
        /\ sloop' # "dead" => settings'.ttl <= MaxTtl
        /\ last' = sfile /\ sloop' \in {"sleeping", "dead"}
    BY <1>2, <2>1, <2>2 DEF SettingsPoll, ConfigTypeOK
  <2> QED BY <2>3 DEF SettingsPoll, ConfigTypeOK, TtlWithinMaximum
<1> QED BY <1>1, <1>2

\* The loop of the keys: what it compares the file with is what it loaded.
LEMMA KeysStep ==
  ConfigTypeOK /\ TtlWithinMaximum /\ KeysMatchLast /\ ReadsAgree /\ KeysRound
    => ConfigTypeOK' /\ TtlWithinMaximum' /\ KeysMatchLast' /\ ReadsAgree'
<1> SUFFICES ASSUME ConfigTypeOK, TtlWithinMaximum, KeysMatchLast, ReadsAgree, KeysRound
             PROVE  ConfigTypeOK' /\ TtlWithinMaximum' /\ KeysMatchLast' /\ ReadsAgree'
  OBVIOUS
<1> USE DEF ConfigTypeOK, TtlWithinMaximum, KeysMatchLast, ReadsAgree
<1>1. CASE KeysListen
  BY <1>1, KeysType, EmptyType DEF KeysListen
<1>2. CASE KeysGone
  BY <1>2, EmptyType DEF KeysGone
<1>3. CASE KeysPoll
  BY <1>3 DEF KeysPoll
<1>4. CASE KeysLoad
  BY <1>4, KeysType DEF KeysLoad
<1> QED BY <1>1, <1>2, <1>3, <1>4 DEF KeysRound

\* Whoever writes the files, and the process that stops and starts.
LEMMA OutsideStep ==
  ConfigTypeOK /\ TtlWithinMaximum /\ KeysMatchLast /\ ReadsAgree /\ (Write \/ Stop \/ Boot)
    => ConfigTypeOK' /\ TtlWithinMaximum' /\ KeysMatchLast' /\ ReadsAgree'
<1> SUFFICES ASSUME ConfigTypeOK, TtlWithinMaximum, KeysMatchLast, ReadsAgree,
                    Write \/ Stop \/ Boot
             PROVE  ConfigTypeOK' /\ TtlWithinMaximum' /\ KeysMatchLast' /\ ReadsAgree'
  OBVIOUS
<1> USE DEF ConfigTypeOK, TtlWithinMaximum, KeysMatchLast, ReadsAgree
<1>1. CASE Write
  <2>1. writes' \in 0 .. MaxWrites
    BY <1>1, ConfigAssumption DEF Write, ConfigAssumption
  <2> QED BY <1>1, <2>1 DEF Write
<1>2. CASE Stop
  BY <1>2 DEF Stop
<1>3. CASE Boot
  <2>1. Applied(Default, sfile) \in Values
    BY <1>3, AppliedType DEF Boot, Bootable
  <2>2. settings' \in Values /\ settings'.ttl <= MaxTtl
    BY <1>3, <2>1, CappedType DEF Boot, Booted
  <2> QED BY <1>3, <2>2, KeysType, EmptyType DEF Boot, Booted
<1> QED BY <1>1, <1>2, <1>3

-----------------------------------------------------------------------------
(* Theorems *)

ConfigInv == ConfigTypeOK /\ TtlWithinMaximum /\ KeysMatchLast /\ ReadsAgree

LEMMA ConfigStep == ConfigInv /\ [Next]_vars => ConfigInv'
<1> SUFFICES ASSUME ConfigInv, [Next]_vars PROVE ConfigInv'
  OBVIOUS
<1>1. CASE SettingsPoll
  BY <1>1, SettingsStep
  DEF ConfigInv, SettingsPoll, KeysMatchLast, ReadsAgree
<1>2. CASE KeysRound
  BY <1>2, KeysStep DEF ConfigInv
<1>3. CASE Write \/ Stop \/ Boot
  BY <1>3, OutsideStep DEF ConfigInv
<1>4. CASE UNCHANGED vars
  BY <1>4 DEF ConfigInv, vars, ConfigTypeOK, TtlWithinMaximum, KeysMatchLast, ReadsAgree
<1> QED BY <1>1, <1>2, <1>3, <1>4 DEF Next

\* Settings are values of the right kind, whatever the file says and whenever.
THEOREM ConfigTypes == Spec => []ConfigTypeOK
<1>1. Init => ConfigInv
  BY InitConfig DEF ConfigInv
<1>2. ConfigInv => ConfigTypeOK
  BY DEF ConfigInv
<1> QED BY <1>1, <1>2, ConfigStep, PTL DEF Spec

\* session_ttl stays within NVCF's maximum as long as the loop lives.
THEOREM TtlIsCapped == Spec => []TtlWithinMaximum
<1>1. Init => ConfigInv
  BY InitConfig DEF ConfigInv
<1>2. ConfigInv => TtlWithinMaximum
  BY DEF ConfigInv
<1> QED BY <1>1, <1>2, ConfigStep, PTL DEF Spec

\* Between two rounds the keys are those of the content the file is compared with.
THEOREM KeysMatch == Spec => []KeysMatchLast
<1>1. Init => ConfigInv
  BY InitConfig DEF ConfigInv
<1>2. ConfigInv => KeysMatchLast
  BY DEF ConfigInv
<1> QED BY <1>1, <1>2, ConfigStep, PTL DEF Spec

=============================================================================
