------------------------- MODULE EngineConfigProofs -------------------------
(* Proofs about EngineConfig, for every set of bodies and of requests.     *)
EXTENDS EngineConfig, TLAPS

-----------------------------------------------------------------------------
(* Nothing that did not pass validation is ever stored or cached.          *)

LEMMA ConfigTypeInit == ConfigInit => ConfigTypeOK
BY DEF ConfigInit, ConfigTypeOK

LEMMA ConfigTypeStep == ConfigTypeOK /\ [ConfigNext]_cvars => ConfigTypeOK'
<1> SUFFICES ASSUME ConfigTypeOK, [ConfigNext]_cvars PROVE ConfigTypeOK'
    OBVIOUS
<1> USE DEF ConfigTypeOK
<1>1. ASSUME NEW a \in Admins, ConfigPut(a) PROVE ConfigTypeOK'
    BY <1>1 DEF ConfigPut, ValidCfgs
<1>2. ASSUME NEW a \in Admins, ConfigCache(a) PROVE ConfigTypeOK'
    BY <1>2 DEF ConfigCache
<1>3. CASE ConfigRestart
    BY <1>3 DEF ConfigRestart
<1>4. CASE UNCHANGED cvars
    BY <1>4 DEF cvars
<1> QED BY <1>1, <1>2, <1>3, <1>4 DEF ConfigNext, ConfigWrite

\* Type correctness: applyConfig stores and caches validated bodies only.
THEOREM ConfigTypeCorrect == ConfigSpec => []ConfigTypeOK
<1>1. ConfigInit => ConfigTypeOK BY ConfigTypeInit
<1>2. ConfigTypeOK /\ [ConfigNext]_cvars => ConfigTypeOK' BY ConfigTypeStep
<1> QED BY <1>1, <1>2, PTL DEF ConfigSpec

-----------------------------------------------------------------------------
(* With at most one write in flight, cache and storage agree.  That is not  *)
(* inductive alone: between its two steps the write owes the cache exactly  *)
(* what it stored.                                                          *)

SoleWriter == \A a, b \in Admins : a = b

CacheOwed == \A a \in Admins : acfg[a] # NoCfg => acfg[a] = stored

CacheInv == ConfigTypeOK /\ CacheMatchesStore /\ CacheOwed

LEMMA CacheStep ==
    ASSUME SoleWriter, ~LoadMayFail, CacheInv, [ConfigNext]_cvars
    PROVE  CacheInv'
<1>1. ConfigTypeOK' BY ConfigTypeStep DEF CacheInv
<1> USE DEF CacheInv, ConfigTypeOK, CacheMatchesStore, CacheOwed
<1>2. ASSUME NEW a \in Admins, ConfigPut(a) PROVE CacheInv'
    <2>1. PICK c \in CfgInputs :
              Validate(c) /\ stored' = c /\ acfg' = [acfg EXCEPT ![a] = c]
        BY <1>2 DEF ConfigPut
    <2>2. c # NoCfg BY NoCfgAssumption
    <2>3. acfg'[a] = c /\ stored' = c BY <2>1
    <2> QED BY <1>1, <2>2, <2>3 DEF SoleWriter
<1>3. ASSUME NEW a \in Admins, ConfigCache(a) PROVE CacheInv'
    <2>1. config' = stored /\ stored' = stored
        BY <1>3 DEF ConfigCache
    <2>2. acfg'[a] = NoCfg BY <1>3 DEF ConfigCache
    <2> QED BY <1>1, <2>1, <2>2 DEF SoleWriter
<1>4. CASE ConfigRestart
    BY <1>1, <1>4 DEF ConfigRestart
<1>5. CASE UNCHANGED cvars
    BY <1>1, <1>5 DEF cvars
<1> QED BY <1>2, <1>3, <1>4, <1>5 DEF ConfigNext, ConfigWrite

\* Without concurrent writes, and with a storage that answers the read made at
\* mount time, the cached configuration is the stored one whenever no write is
\* in flight, across any number of writes and restarts.
THEOREM CacheCoherent ==
    ASSUME SoleWriter, ~LoadMayFail
    PROVE  ConfigSpec => []CacheMatchesStore
<1>1. ConfigInit => CacheInv
    BY ConfigTypeInit DEF ConfigInit, CacheInv, CacheMatchesStore, CacheOwed
<1>2. CacheInv /\ [ConfigNext]_cvars => CacheInv'
    BY CacheStep
<1>3. CacheInv => CacheMatchesStore BY DEF CacheInv
<1> QED BY <1>1, <1>2, <1>3, PTL DEF ConfigSpec
=============================================================================
