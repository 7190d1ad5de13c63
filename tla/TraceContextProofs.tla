------------------------- MODULE TraceContextProofs -------------------------
(***************************************************************************)
(* Proofs about TraceContext, for every limit, every length of chain and   *)
(* all headers that may arrive: what one service accepts the next one      *)
(* accepts, and the parsers accept exactly the legal states.  The parsers  *)
(* test keys by positions of characters, the grammars join texts, so the   *)
(* second part first shows that the two agree on every key.                *)
(***************************************************************************)
EXTENDS TraceContext, SequenceTheorems, TLAPS

USE DEF Lower, Digit, Sign, At, Other

(***************************************************************************)
(* What ParseTraceState returns, and that it accepts it again.             *)
(***************************************************************************)
Parsed(s, l) ==
    /\ s \in Seq(Members)
    /\ s # <<>> /\ Len(s) <= MaxMembers
    /\ \A i \in DOMAIN s : /\ Trimmed(s[i]) = s[i]
                           /\ IsEmpty(s[i]) \/ IsValidMember(s[i], l)
    /\ \A i, j \in DOMAIN s : ~Duplicated(s, i, j)

LEMMA TrimmedMember ==
    ASSUME NEW m \in Members
    PROVE  /\ Trimmed(m) \in Members
           /\ Trimmed(Trimmed(m)) = Trimmed(m)
BY DEF Members, Trimmed, Values

LEMMA ParseYieldsParsed ==
    ASSUME NEW h \in StateHeaders, NEW l \in Levels,
           ParseTraceState(h, l) # None
    PROVE  Parsed(ParseTraceState(h, l), l)
<1> DEFINE s == [i \in DOMAIN h.members |-> Trimmed(h.members[i])]
<1>1. h.members \in Seq(Members)
  BY DEF StateHeaders
<1>2. /\ s \in Seq(Members)
      /\ \A i \in DOMAIN s : Trimmed(s[i]) = s[i]
  <2>1. \A i \in DOMAIN h.members : h.members[i] \in Members
    BY <1>1
  <2>2. \A i \in DOMAIN h.members : s[i] \in Members /\ Trimmed(s[i]) = s[i]
    BY <2>1, TrimmedMember
  <2>3. DOMAIN h.members = 1..Len(h.members) /\ Len(h.members) \in Nat
    BY <1>1
  <2>4. s \in [1..Len(h.members) -> Members]
    BY <2>2, <2>3
  <2>5. s \in Seq(Members)
    <3> HIDE DEF s
    <3> QED BY <2>3, <2>4
  <2> QED BY <2>2, <2>5
<1>3. ParseTraceState(h, l) = s
  BY DEF ParseTraceState
<1>4. /\ s # <<>> /\ Len(s) <= MaxMembers
      /\ \A i \in DOMAIN s : IsEmpty(s[i]) \/ IsValidMember(s[i], l)
      /\ \A i, j \in DOMAIN s : ~Duplicated(s, i, j)
  BY DEF ParseTraceState
<1> HIDE DEF s
<1> QED BY <1>2, <1>3, <1>4 DEF Parsed

LEMMA TrimmedParts ==
    ASSUME NEW m \in Members
    PROVE  /\ Trimmed(m).key = m.key /\ Trimmed(m).equals = m.equals
           /\ ~Trimmed(m).padded
           /\ Trimmed(m).value = IF m.value = "blank" THEN "empty" ELSE m.value
BY DEF Members, Trimmed

\* Every key of level 1 is a key of level 2.
LEMMA LevelOneKeysAreLevelTwoKeys ==
    ASSUME NEW key \in Keys, IsValidKey(key, 1)
    PROVE  IsValidKey(key, 2)
<1>1. Len(key) \in 1..MaxKey /\ IsLevelOneKey(key)
  BY DEF IsValidKey
<1>2. DOMAIN key = 1..Len(key) /\ Len(key) \in Nat
  BY DEF Keys
<1>3. IsLevelTwoKey(key)
  <2>1. CASE key[1] = Lower /\ \A i \in DOMAIN key : key[i] \in KeyChars
    BY <2>1 DEF IsLevelTwoKey
  <2>2. ASSUME NEW at \in DOMAIN key, WithTenant(key, at)
        PROVE  IsLevelTwoKey(key)
    <3>1. \A i \in DOMAIN key : i \in 1..(at - 1) \/ i = at \/ i \in (at + 1)..Len(key)
      BY <1>2
    <3> QED BY <2>2, <3>1 DEF WithTenant, IsLevelTwoKey
  <2> QED BY <1>1, <2>1, <2>2 DEF IsLevelOneKey
<1> QED BY <1>1, <1>3 DEF IsValidKey

(***************************************************************************)
(* is_valid_key accepts the keys of the grammar: the texts that the        *)
(* positions of a key describe are those that concatenation generates.     *)
(***************************************************************************)
LEMMA TextsAreShort ==
    ASSUME NEW chars, NEW n \in Nat, NEW s
    PROVE  s \in Texts(chars, n) <=> s \in Seq(chars) /\ Len(s) <= n
<1>1. ASSUME s \in Texts(chars, n)
      PROVE  s \in Seq(chars) /\ Len(s) <= n
  <2>1. PICK i \in 0..n : s \in [1..i -> chars]
    BY <1>1 DEF Texts
  <2>2. s \in Seq(chars) /\ Len(s) = i
    BY <2>1
  <2> QED BY <2>2
<1>2. ASSUME s \in Seq(chars), Len(s) <= n
      PROVE  s \in Texts(chars, n)
  <2>1. Len(s) \in 0..n /\ s \in [1..Len(s) -> chars]
    BY <1>2
  <2> QED BY <2>1 DEF Texts
<1> QED BY <1>1, <1>2

LEMMA KeyCharsAreTexts == {Lower, Digit} \subseteq KeyChars /\ KeyChars \subseteq KeyTexts
BY DEF KeyChars, KeyTexts

\* The part of a text after position m and up to n.
Part(s, m, n) == [i \in 1..(n - m) |-> s[i + m]]

LEMMA PartOf ==
    ASSUME NEW s, NEW m \in Nat, NEW n \in Nat, m <= n
    PROVE  /\ Len(Part(s, m, n)) = n - m
           /\ \A i \in 1..(n - m) : Part(s, m, n)[i] = s[i + m]
<1> DEFINE t == Part(s, m, n)
           chars == {s[i + m] : i \in 1..(n - m)}
<1>1. t \in [1..(n - m) -> chars] /\ n - m \in Nat
  BY DEF Part
<1>2. \A i \in 1..(n - m) : t[i] = s[i + m]
  BY DEF Part
<1> HIDE DEF t, chars
<1>3. Len(t) = n - m
  BY <1>1
<1> QED BY <1>2, <1>3 DEF t

LEMMA PartChars ==
    ASSUME NEW chars, NEW s, NEW m \in Nat, NEW n \in Nat, m <= n,
           \A i \in (m + 1)..n : s[i] \in chars
    PROVE  Part(s, m, n) \in Seq(chars)
<1> DEFINE t == Part(s, m, n)
<1>1. t \in [1..(n - m) -> chars] /\ n - m \in Nat
  BY DEF Part
<1> HIDE DEF t
<1>2. t \in Seq(chars)
  BY <1>1
<1> QED BY <1>2 DEF t

\* A text whose first character is of a set of its own.
LEMMA HeadedTexts ==
    ASSUME NEW first \in SUBSET KeyTexts, NEW chars \in SUBSET KeyTexts,
           NEW n \in Nat \ {0}, NEW key \in Keys
    PROVE  (\E c \in first, rest \in Texts(chars, n - 1) : key = <<c>> \o rest) <=>
               /\ Len(key) \in 1..n
               /\ key[1] \in first
               /\ \A i \in 2..Len(key) : key[i] \in chars
<1>1. ASSUME NEW c \in first, NEW rest \in Texts(chars, n - 1), key = <<c>> \o rest
      PROVE  /\ Len(key) \in 1..n
             /\ key[1] \in first
             /\ \A i \in 2..Len(key) : key[i] \in chars
  <2>1. rest \in Seq(chars) /\ Len(rest) <= n - 1 /\ Len(rest) \in Nat
    BY TextsAreShort
  <2>2. rest \in Seq(KeyTexts) /\ <<c>> \in Seq(KeyTexts) /\ Len(<<c>>) = 1
    BY <2>1
  <2>3. /\ Len(key) = 1 + Len(rest)
        /\ \A i \in 1..(1 + Len(rest)) : key[i] = IF i <= 1 THEN <<c>>[i] ELSE rest[i - 1]
    BY <1>1, <2>2, ConcatProperties
  <2>4. key[1] = c
    BY <2>1, <2>3
  <2>5. \A i \in 2..Len(key) : key[i] \in chars
    BY <2>1, <2>3
  <2> QED BY <2>1, <2>3, <2>4, <2>5
<1>2. ASSUME Len(key) \in 1..n, key[1] \in first,
             \A i \in 2..Len(key) : key[i] \in chars
      PROVE  \E c \in first, rest \in Texts(chars, n - 1) : key = <<c>> \o rest
  <2> DEFINE rest == Part(key, 1, Len(key))
  <2>1. /\ rest \in Seq(chars) /\ Len(rest) = Len(key) - 1
        /\ \A i \in 1..(Len(key) - 1) : rest[i] = key[i + 1]
    <3>1. 1 \in Nat /\ Len(key) \in Nat /\ 1 <= Len(key)
          /\ \A i \in (1 + 1)..Len(key) : key[i] \in chars
      BY <1>2
    <3>2. rest \in Seq(chars)
      BY <3>1, PartChars
    <3>3. Len(rest) = Len(key) - 1 /\ \A i \in 1..(Len(key) - 1) : rest[i] = key[i + 1]
      BY <3>1, PartOf
    <3> QED BY <3>2, <3>3
  <2> HIDE DEF rest
  <2>2. rest \in Texts(chars, n - 1)
    BY <1>2, <2>1, TextsAreShort
  <2>3. rest \in Seq(KeyTexts) /\ <<key[1]>> \in Seq(KeyTexts) /\ Len(<<key[1]>>) = 1
    BY <1>2, <2>1
  <2>4. /\ <<key[1]>> \o rest \in Seq(KeyTexts)
        /\ Len(<<key[1]>> \o rest) = Len(key)
        /\ \A i \in 1..Len(key) : (<<key[1]>> \o rest)[i] =
               IF i <= 1 THEN <<key[1]>>[i] ELSE rest[i - 1]
    BY <1>2, <2>1, <2>3, ConcatProperties
  <2>5. \A i \in 1..Len(key) : (<<key[1]>> \o rest)[i] = key[i]
    BY <1>2, <2>1, <2>4
  <2>6. key = <<key[1]>> \o rest
    BY <2>4, <2>5, SeqEqual DEF Keys
  <2> QED BY <1>2, <2>2, <2>6
<1> QED BY <1>1, <1>2

\* Keys without a tenant.
LEMMA SimpleKeys ==
    ASSUME NEW key \in Keys
    PROVE  key \in Simple <=> /\ Len(key) \in 1..MaxKey
                              /\ key[1] = Lower /\ \A i \in DOMAIN key : key[i] \in KeyChars
<1>1. {Lower} \subseteq KeyTexts /\ KeyChars \subseteq KeyTexts /\ Lower \in KeyChars
  BY DEF KeyTexts, KeyChars
<1>2. key \in Simple <=> \E c \in {Lower}, rest \in Texts(KeyChars, MaxKey - 1) : key = <<c>> \o rest
  BY DEF Simple
<1>3. MaxKey \in Nat \ {0}
  BY LimitsAssumption
<1>4. key \in Simple <=> /\ Len(key) \in 1..MaxKey
                         /\ key[1] \in {Lower}
                         /\ \A i \in 2..Len(key) : key[i] \in KeyChars
  <2> DEFINE first == {Lower}
  <2>1. first \in SUBSET KeyTexts /\ KeyChars \in SUBSET KeyTexts
    BY <1>1
  <2> HIDE DEF first
  <2>2. (\E c \in first, rest \in Texts(KeyChars, MaxKey - 1) : key = <<c>> \o rest) <=>
            /\ Len(key) \in 1..MaxKey
            /\ key[1] \in first
            /\ \A i \in 2..Len(key) : key[i] \in KeyChars
    BY <1>3, <2>1, HeadedTexts
  <2> QED BY <1>2, <2>2 DEF first
<1>5. DOMAIN key = 1..Len(key) /\ Len(key) \in Nat
  BY DEF Keys
<1>6. ASSUME key[1] = Lower
      PROVE  (\A i \in 2..Len(key) : key[i] \in KeyChars)
                 <=> (\A i \in DOMAIN key : key[i] \in KeyChars)
  BY <1>1, <1>5, <1>6
<1> QED BY <1>4, <1>6

\* A tenant, an at sign and a system, joined.
LEMMA Joined ==
    ASSUME NEW tenant \in Keys, NEW system \in Keys
    PROVE  LET key == tenant \o <<At>> \o system
           IN  /\ key \in Keys
               /\ Len(key) = Len(tenant) + 1 + Len(system)
               /\ \A i \in 1..Len(tenant) : key[i] = tenant[i]
               /\ key[Len(tenant) + 1] = At
               /\ \A i \in 1..Len(system) : key[Len(tenant) + 1 + i] = system[i]
<1> DEFINE left == tenant \o <<At>>
           key  == left \o system
<1>1. <<At>> \in Seq(KeyTexts) /\ Len(<<At>>) = 1 /\ <<At>>[1] = At
  BY DEF KeyTexts
<1>2. Len(tenant) \in Nat /\ Len(system) \in Nat
  BY DEF Keys
<1>3. /\ left \in Seq(KeyTexts) /\ Len(left) = Len(tenant) + 1
      /\ \A i \in 1..(Len(tenant) + 1) :
             left[i] = IF i <= Len(tenant) THEN tenant[i] ELSE <<At>>[i - Len(tenant)]
  BY <1>1, ConcatProperties DEF Keys
<1> HIDE DEF left
<1>4. \A i \in 1..Len(tenant) : left[i] = tenant[i]
  BY <1>2, <1>3
<1>5. left[Len(tenant) + 1] = At
  BY <1>1, <1>2, <1>3
<1>6. /\ key \in Seq(KeyTexts) /\ Len(key) = Len(left) + Len(system)
      /\ \A i \in 1..(Len(left) + Len(system)) :
             key[i] = IF i <= Len(left) THEN left[i] ELSE system[i - Len(left)]
  <2>1. left \in Seq(KeyTexts) /\ system \in Seq(KeyTexts)
    BY <1>3 DEF Keys
  <2> QED  BY <2>1, ConcatProperties
<1> HIDE DEF key
<1>7. \A i \in 1..(Len(tenant) + 1) : key[i] = left[i]
  BY <1>2, <1>3, <1>6
<1>8. ASSUME NEW i \in 1..Len(system)
      PROVE  key[Len(tenant) + 1 + i] = system[i]
  <2>1. /\ Len(tenant) + 1 + i \in 1..(Len(left) + Len(system))
        /\ ~(Len(tenant) + 1 + i <= Len(left))
        /\ Len(tenant) + 1 + i - Len(left) = i
    BY <1>2, <1>3
  <2> QED BY <1>6, <2>1
<1>9. /\ key \in Keys
      /\ Len(key) = Len(tenant) + 1 + Len(system)
      /\ \A i \in 1..Len(tenant) : key[i] = tenant[i]
      /\ key[Len(tenant) + 1] = At
      /\ \A i \in 1..Len(system) : key[Len(tenant) + 1 + i] = system[i]
  BY <1>2, <1>3, <1>4, <1>5, <1>6, <1>7, <1>8 DEF Keys
<1> QED BY <1>9 DEF key, left

LEMMA TenantTexts ==
    ASSUME NEW t \in Keys
    PROVE  t \in Tenants <=> /\ Len(t) \in 1..MaxTenant
                             /\ t[1] \in {Lower, Digit}
                             /\ \A i \in 2..Len(t) : t[i] \in KeyChars
<1> DEFINE first == {Lower, Digit}
<1>1. first \in SUBSET KeyTexts /\ KeyChars \in SUBSET KeyTexts /\ MaxTenant \in Nat \ {0}
  BY LimitsAssumption DEF KeyTexts, KeyChars
<1>2. t \in Tenants <=> \E c \in first, rest \in Texts(KeyChars, MaxTenant - 1) : t = <<c>> \o rest
  BY DEF Tenants
<1> HIDE DEF first
<1>3. (\E c \in first, rest \in Texts(KeyChars, MaxTenant - 1) : t = <<c>> \o rest) <=>
          /\ Len(t) \in 1..MaxTenant
          /\ t[1] \in first
          /\ \A i \in 2..Len(t) : t[i] \in KeyChars
  BY <1>1, HeadedTexts
<1> QED BY <1>2, <1>3 DEF first

LEMMA SystemTexts ==
    ASSUME NEW t \in Keys
    PROVE  t \in Systems <=> /\ Len(t) \in 1..MaxSystem
                             /\ t[1] = Lower
                             /\ \A i \in 2..Len(t) : t[i] \in KeyChars
<1> DEFINE first == {Lower}
<1>1. first \in SUBSET KeyTexts /\ KeyChars \in SUBSET KeyTexts /\ MaxSystem \in Nat \ {0}
  BY LimitsAssumption DEF KeyTexts, KeyChars
<1>2. t \in Systems <=> \E c \in first, rest \in Texts(KeyChars, MaxSystem - 1) : t = <<c>> \o rest
  BY DEF Systems
<1> HIDE DEF first
<1>3. (\E c \in first, rest \in Texts(KeyChars, MaxSystem - 1) : t = <<c>> \o rest) <=>
          /\ Len(t) \in 1..MaxSystem
          /\ t[1] \in first
          /\ \A i \in 2..Len(t) : t[i] \in KeyChars
  BY <1>1, HeadedTexts
<1> QED BY <1>2, <1>3 DEF first

\* Tenants and systems are texts of key characters.
LEMMA PartsAreKeys == Tenants \subseteq Keys /\ Systems \subseteq Keys
<1>1. ASSUME NEW c \in KeyChars, NEW n \in Nat, NEW rest \in Texts(KeyChars, n)
      PROVE  <<c>> \o rest \in Keys
  <2>1. rest \in Seq(KeyChars)
    BY TextsAreShort
  <2>2. rest \in Seq(KeyTexts) /\ <<c>> \in Seq(KeyTexts)
    BY <2>1, KeyCharsAreTexts
  <2> QED BY <2>2, ConcatProperties DEF Keys
<1>2. MaxTenant - 1 \in Nat /\ MaxSystem - 1 \in Nat
  BY LimitsAssumption
<1>3. ASSUME NEW t \in Tenants PROVE t \in Keys
  <2> DEFINE Text(c, rest) == <<c>> \o rest
  <2>0. Tenants = {Text(c, rest) : c \in {Lower, Digit}, rest \in Texts(KeyChars, MaxTenant - 1)}
    BY DEF Tenants
  <2> HIDE DEF Text
  <2>1. PICK c \in {Lower, Digit}, rest \in Texts(KeyChars, MaxTenant - 1) : t = Text(c, rest)
    BY <2>0
  <2>2. c \in KeyChars
    BY KeyCharsAreTexts
  <2> QED BY <1>1, <1>2, <2>1, <2>2 DEF Text
<1>4. ASSUME NEW t \in Systems PROVE t \in Keys
  <2>1. PICK rest \in Texts(KeyChars, MaxSystem - 1) : t = <<Lower>> \o rest
    BY DEF Systems
  <2>2. Lower \in KeyChars
    BY KeyCharsAreTexts
  <2> QED BY <1>1, <1>2, <2>1, <2>2
<1> QED BY <1>3, <1>4

\* Keys with a tenant: the at sign is where the tenant ends.
LEMMA MultiTenantKeys ==
    ASSUME NEW key \in Keys
    PROVE  key \in MultiTenant <=> \E at \in DOMAIN key : WithTenant(key, at)
<1>1. DOMAIN key = 1..Len(key) /\ Len(key) \in Nat
  BY DEF Keys
<1>2. ASSUME NEW tenant \in Tenants, NEW system \in Systems,
             key = tenant \o <<At>> \o system
      PROVE  \E at \in DOMAIN key : WithTenant(key, at)
  <2> DEFINE at == Len(tenant) + 1
  <2>1. tenant \in Keys /\ system \in Keys /\ Len(tenant) \in Nat /\ Len(system) \in Nat
    BY PartsAreKeys DEF Keys
  <2>2. /\ Len(tenant) \in 1..MaxTenant /\ tenant[1] \in {Lower, Digit}
        /\ \A i \in 2..Len(tenant) : tenant[i] \in KeyChars
    BY <2>1, TenantTexts
  <2>3. /\ Len(system) \in 1..MaxSystem /\ system[1] = Lower
        /\ \A i \in 2..Len(system) : system[i] \in KeyChars
    BY <2>1, SystemTexts
  <2>4. /\ Len(key) = at + Len(system)
        /\ \A i \in 1..Len(tenant) : key[i] = tenant[i]
        /\ key[at] = At
        /\ \A i \in 1..Len(system) : key[at + i] = system[i]
    <3> DEFINE k == tenant \o <<At>> \o system
    <3>1. /\ Len(k) = Len(tenant) + 1 + Len(system)
          /\ \A i \in 1..Len(tenant) : k[i] = tenant[i]
          /\ k[Len(tenant) + 1] = At
          /\ \A i \in 1..Len(system) : k[Len(tenant) + 1 + i] = system[i]
      BY <2>1, Joined
    <3>2. k = key
      BY <1>2
    <3> HIDE DEF k
    <3> QED  BY <3>1, <3>2
  <2>5. key[1] \in {Lower, Digit} /\ key[at + 1] = Lower
    BY <2>1, <2>2, <2>3, <2>4
  <2>6. ASSUME NEW i \in 1..(at - 1) PROVE key[i] \in KeyChars
    <3>1. i \in 1..Len(tenant) /\ (i = 1 \/ i \in 2..Len(tenant))
      BY <2>1
    <3>2. tenant[i] \in KeyChars
      BY <2>2, <3>1, KeyCharsAreTexts
    <3> QED BY <2>4, <3>1, <3>2
  <2>7. ASSUME NEW i \in (at + 1)..Len(key) PROVE key[i] \in KeyChars
    <3>1. i - at \in 1..Len(system) /\ at + (i - at) = i
      BY <2>1, <2>4
    <3>2. key[at + (i - at)] = system[i - at]
      BY <2>4, <3>1
    <3>3. i - at = 1 \/ i - at \in 2..Len(system)
      BY <2>1, <3>1
    <3>4. system[i - at] \in KeyChars
      BY <2>3, <3>3, KeyCharsAreTexts
    <3> QED BY <3>1, <3>2, <3>4
  <2>8. at \in DOMAIN key /\ at - 1 \in 1..MaxTenant /\ Len(key) - at \in 1..MaxSystem
    BY <1>1, <2>1, <2>2, <2>3, <2>4
  <2> HIDE DEF at
  <2> QED BY <2>4, <2>5, <2>6, <2>7, <2>8 DEF WithTenant
<1>3. ASSUME NEW at \in DOMAIN key, WithTenant(key, at)
      PROVE  \E tenant \in Tenants, system \in Systems : key = tenant \o <<At>> \o system
  <2> DEFINE tenant == Part(key, 0, at - 1)
             system == Part(key, at, Len(key))
  <2>1. /\ at \in Nat /\ at - 1 \in Nat /\ at <= Len(key) /\ 0 <= at - 1
        /\ at - 1 \in 1..MaxTenant /\ Len(key) - at \in 1..MaxSystem
    BY <1>1, <1>3 DEF WithTenant
  <2>2. /\ tenant \in Seq(KeyChars) /\ Len(tenant) = at - 1
        /\ \A i \in 1..(at - 1) : tenant[i] = key[i]
    <3>1. \A i \in (0 + 1)..(at - 1) : key[i] \in KeyChars
      BY <1>3 DEF WithTenant
    <3>2. /\ tenant \in Seq(KeyChars) /\ Len(tenant) = at - 1 - 0
          /\ \A i \in 1..(at - 1 - 0) : tenant[i] = key[i + 0]
      BY <2>1, <3>1, PartOf, PartChars
    <3> QED BY <2>1, <3>2
  <2>3. /\ system \in Seq(KeyChars) /\ Len(system) = Len(key) - at
        /\ \A i \in 1..(Len(key) - at) : system[i] = key[i + at]
    <3>1. \A i \in (at + 1)..Len(key) : key[i] \in KeyChars
      BY <1>3 DEF WithTenant
    <3>2. Len(key) \in Nat
      BY <1>1
    <3> QED BY <2>1, <3>1, <3>2, PartOf, PartChars
  <2> HIDE DEF tenant, system
  <2>4. tenant \in Keys /\ system \in Keys
    BY <2>2, <2>3, KeyCharsAreTexts DEF Keys
  <2>5. tenant \in Tenants
    <3>1. tenant[1] \in {Lower, Digit}
      BY <1>3, <2>1, <2>2 DEF WithTenant
    <3>2. \A i \in 2..Len(tenant) : tenant[i] \in KeyChars
      BY <2>2
    <3> QED BY <2>1, <2>2, <2>4, <3>1, <3>2, TenantTexts
  <2>6. system \in Systems
    <3>1. system[1] = key[1 + at] /\ 1 + at = at + 1
      BY <1>1, <2>1, <2>3
    <3>2. system[1] = Lower
      BY <1>3, <3>1 DEF WithTenant
    <3>3. \A i \in 2..Len(system) : system[i] \in KeyChars
      BY <2>3
    <3> QED BY <2>1, <2>3, <2>4, <3>2, <3>3, SystemTexts
  <2> DEFINE joined == tenant \o <<At>> \o system
  <2>7. /\ joined \in Keys
        /\ Len(joined) = at + Len(system)
        /\ \A i \in 1..Len(tenant) : joined[i] = tenant[i]
        /\ joined[at] = At
        /\ \A i \in 1..Len(system) : joined[at + i] = system[i]
    <3>1. Len(tenant) + 1 = at
      BY <2>1, <2>2
    <3> QED BY <2>4, <3>1, Joined
  <2> HIDE DEF joined
  <2>8. Len(joined) = Len(key)
    BY <1>1, <2>1, <2>3, <2>7
  <2>9. ASSUME NEW i \in 1..Len(key) PROVE joined[i] = key[i]
    <3>1. CASE i \in 1..(at - 1)
      BY <2>2, <2>7, <3>1
    <3>2. CASE i = at
      BY <1>3, <2>7, <3>2 DEF WithTenant
    <3>3. CASE i \in (at + 1)..Len(key)
      <4>1. i - at \in 1..(Len(key) - at) /\ at + (i - at) = i /\ (i - at) + at = i
        BY <1>1, <2>1, <3>3
      <4>2. joined[i] = system[i - at] /\ system[i - at] = key[i]
        BY <2>3, <2>7, <4>1
      <4> QED BY <4>2
    <3> QED BY <1>1, <2>1, <3>1, <3>2, <3>3
  <2>10. key = joined
    BY <2>7, <2>8, <2>9, SeqEqual DEF Keys
  <2> QED BY <2>5, <2>6, <2>10 DEF joined
<1>4. key \in MultiTenant <=>
          \E tenant \in Tenants, system \in Systems : key = tenant \o <<At>> \o system
  <2> DEFINE Key(tenant, system) == tenant \o <<At>> \o system
  <2>1. MultiTenant = {Key(tenant, system) : tenant \in Tenants, system \in Systems}
    BY DEF MultiTenant
  <2> HIDE DEF Key
  <2>2. key \in MultiTenant <=> \E tenant \in Tenants, system \in Systems : key = Key(tenant, system)
    BY <2>1
  <2> QED BY <2>2 DEF Key
<1> QED BY <1>2, <1>3, <1>4

LEMMA LevelTwoTexts ==
    ASSUME NEW key \in Keys
    PROVE  key \in LevelTwoKeys <=> Len(key) \in 1..MaxKey /\ IsLevelTwoKey(key)
<1> DEFINE first == {Lower, Digit}
           chars == KeyChars \cup {At}
<1>1. /\ first \in SUBSET KeyTexts /\ chars \in SUBSET KeyTexts /\ MaxKey \in Nat \ {0}
      /\ first \subseteq chars
  BY LimitsAssumption DEF KeyTexts, KeyChars
<1>2. key \in LevelTwoKeys <=> \E c \in first, rest \in Texts(chars, MaxKey - 1) : key = <<c>> \o rest
  BY DEF LevelTwoKeys
<1>3. DOMAIN key = 1..Len(key) /\ Len(key) \in Nat
  BY DEF Keys
<1>4. IsLevelTwoKey(key) <=> key[1] \in first /\ \A i \in DOMAIN key : key[i] \in chars
  BY DEF IsLevelTwoKey
<1> HIDE DEF first, chars
<1>5. (\E c \in first, rest \in Texts(chars, MaxKey - 1) : key = <<c>> \o rest) <=>
          /\ Len(key) \in 1..MaxKey
          /\ key[1] \in first
          /\ \A i \in 2..Len(key) : key[i] \in chars
  BY <1>1, HeadedTexts
<1>6. key[1] \in first =>
          ((\A i \in 2..Len(key) : key[i] \in chars) <=> \A i \in DOMAIN key : key[i] \in chars)
  BY <1>1, <1>3
<1> QED BY <1>2, <1>4, <1>5, <1>6

\* is_valid_key accepts exactly the keys of the grammar of its level.  A key with a
\* tenant needs no limit of its own: its parts bound it below MaxKey.
LEMMA ValidKeysAreLegal ==
    ASSUME NEW key \in Keys, NEW l \in Levels
    PROVE  IsValidKey(key, l) <=> key \in LegalKeys[l]
<1>1. CASE l = 1
  <2>1. LegalKeys[l] = Simple \cup MultiTenant
    BY <1>1 DEF LegalKeys
  <2>2. ASSUME NEW at \in DOMAIN key, WithTenant(key, at)
        PROVE  Len(key) \in 1..MaxKey
    <3>1. at \in Nat /\ Len(key) \in Nat /\ at - 1 <= MaxTenant /\ Len(key) - at <= MaxSystem
          /\ 1 <= Len(key)
      BY <2>2 DEF WithTenant, Keys
    <3> QED BY <3>1, LimitsAssumption
  <2>3. key \in MultiTenant => Len(key) \in 1..MaxKey
    BY <2>2, MultiTenantKeys
  <2>4. IsLevelOneKey(key) <=> \/ key[1] = Lower /\ \A i \in DOMAIN key : key[i] \in KeyChars
                               \/ key \in MultiTenant
    BY MultiTenantKeys DEF IsLevelOneKey
  <2> QED BY <1>1, <2>1, <2>3, <2>4, SimpleKeys DEF IsValidKey
<1>2. CASE l = 2
  <2>1. LegalKeys[l] = LevelTwoKeys
    BY <1>2 DEF LegalKeys, Levels
  <2> QED BY <1>2, <2>1, LevelTwoTexts DEF IsValidKey
<1> QED BY <1>1, <1>2 DEF Levels

\* A parsed state, sent on in one header line, is accepted unchanged at the same
\* or a higher level; at a lower one it is accepted unchanged or not at all.
LEMMA ParsedAgain ==
    ASSUME NEW s, NEW l \in Levels, Parsed(s, l),
           NEW l2 \in Levels, NEW b
    PROVE  LET again == ParseTraceState([members |-> s, starts |-> b], l2)
           IN  again = s \/ (l2 < l /\ again = None)
<1> DEFINE h == [members |-> s, starts |-> b]
           t == [i \in DOMAIN h.members |-> Trimmed(h.members[i])]
<1>1. t = s
  <2>1. t = [i \in DOMAIN s |-> s[i]]
    BY DEF Parsed
  <2>2. s = [i \in DOMAIN s |-> s[i]]
    BY DEF Parsed
  <2> QED BY <2>1, <2>2
<1>2. /\ s # <<>> /\ Len(s) <= MaxMembers
      /\ \A i, j \in DOMAIN s : ~Duplicated(s, i, j)
  BY DEF Parsed
<1>3. l2 >= l => \A i \in DOMAIN s : IsEmpty(s[i]) \/ IsValidMember(s[i], l2)
  <2>1. CASE l2 = l
    BY <2>1 DEF Parsed
  <2>2. CASE l = 1 /\ l2 = 2
    <3>1. ASSUME NEW i \in DOMAIN s, IsValidMember(s[i], 1)
          PROVE  IsValidMember(s[i], 2)
      <4>1. s[i].key \in Keys
        BY DEF Parsed, Members
      <4> QED BY <3>1, <4>1, LevelOneKeysAreLevelTwoKeys DEF IsValidMember
    <3> QED BY <2>2, <3>1 DEF Parsed
  <2> QED BY <2>1, <2>2 DEF Levels
<1>4. ParseTraceState(h, l2) =
        IF /\ t # <<>> /\ Len(t) <= MaxMembers
           /\ \A i \in DOMAIN t : IsEmpty(t[i]) \/ IsValidMember(t[i], l2)
           /\ \A i, j \in DOMAIN t : ~Duplicated(t, i, j)
        THEN t ELSE None
  BY DEF ParseTraceState
<1>5. ParseTraceState(h, l2) = s \/ (l2 < l /\ ParseTraceState(h, l2) = None)
  <2> HIDE DEF t
  <2> QED BY <1>1, <1>2, <1>3, <1>4 DEF Levels
<1> QED BY <1>5

(***************************************************************************)
(* The invariant: a context is what the headers say, and the headers of a  *)
(* service with a predecessor are those its predecessor sent on.           *)
(***************************************************************************)
Accepted(c) ==
    /\ c \in Contexts
    /\ ValidParent(c.raw)
    /\ c.state # None => Parsed(c.state, c.level)

IInv ==
    /\ TypeOK
    /\ context # Pending => context = SelectTraceContext(headers, level)
    /\ sender # None => Accepted(sender) /\ headers = HeadersOf(sender)

OneValidParent(h) == Len(h.parents) = 1 /\ ValidParent(h.parents[1])

LEMMA SelectAccepts ==
    ASSUME NEW h \in Headers, NEW l \in Levels
    PROVE  LET c == SelectTraceContext(h, l)
           IN  IF OneValidParent(h) THEN Accepted(c) ELSE c = None
<1> DEFINE st == ParseTraceState(h.states, l)
<1>1. h.states \in StateHeaders /\ h.parents \in Seq(Parent)
  BY DEF Headers
<1>2. st # None => Parsed(st, l)
  BY <1>1, ParseYieldsParsed
<1>3. st \in Seq(Members) \cup {None}
  BY <1>2 DEF Parsed
<1> HIDE DEF st
<1>4. CASE OneValidParent(h)
  <2>1. SelectTraceContext(h, l) = [raw |-> h.parents[1], level |-> l, state |-> st]
    BY <1>4 DEF SelectTraceContext, OneValidParent, st
  <2>2. h.parents[1] \in Parent
    BY <1>1, <1>4 DEF OneValidParent
  <2> QED BY <1>2, <1>3, <1>4, <2>1, <2>2 DEF Accepted, Contexts, OneValidParent
<1>5. CASE ~OneValidParent(h)
  BY <1>5 DEF SelectTraceContext, OneValidParent
<1> QED BY <1>4, <1>5

LEMMA HeadersOfAccepted ==
    ASSUME NEW c, Accepted(c)
    PROVE  HeadersOf(c) \in Headers
<1>1. c.raw \in Parent /\ c.state \in Seq(Members) \cup {None}
  BY DEF Accepted, Contexts
<1>2. <<c.raw>> \in Seq(Parent)
  BY <1>1
<1>3. <<>> \in Seq(Members)
  OBVIOUS
<1> QED BY <1>1, <1>2, <1>3 DEF HeadersOf, Headers, StateHeaders

LEMMA TypesOfInit == Init => IInv
BY ArrivalsAssumption, LimitsAssumption, MarkersAssumption
   DEF Init, IInv, TypeOK

LEMMA Step ==
    ASSUME IInv, [Next]_vars
    PROVE  IInv'
<1>1. CASE Receive
  <2>1. context' = None \/ Accepted(context')
    BY <1>1, SelectAccepts DEF Receive, IInv, TypeOK
  <2>2. TypeOK'
    BY <1>1, <2>1 DEF Receive, IInv, TypeOK, Accepted
  <2> QED BY <1>1, <2>2 DEF Receive, IInv
<1>2. CASE Forward
  <2>1. Accepted(context)
    BY <1>2, SelectAccepts DEF Forward, IInv, TypeOK
  <2>2. headers' \in Headers /\ sender' \in Contexts
    BY <1>2, <2>1, HeadersOfAccepted DEF Forward, Accepted
  <2>3. TypeOK'
    BY <1>2, <2>2, LimitsAssumption DEF Forward, IInv, TypeOK
  <2> QED BY <1>2, <2>1, <2>3 DEF Forward, IInv
<1>3. CASE UNCHANGED vars
  BY <1>3 DEF IInv, TypeOK, vars
<1> QED BY <1>1, <1>2, <1>3 DEF Next, Done

\* The variables keep their types: what is selected is a context of the service's
\* level, with a tracestate of members.
THEOREM TypeCorrect == Spec => []TypeOK
<1>1. IInv => TypeOK
  BY DEF IInv
<1> QED BY TypesOfInit, Step, <1>1, PTL DEF Spec

\* README.md "The crate can propagate": what one instrumented service accepted, the
\* next one accepts, with the same identifiers, flags and, unless the level drops,
\* tracestate.
THEOREM ContextArrives == Spec => []ForwardedContextArrives
<1>1. IInv => ForwardedContextArrives
  <2> SUFFICES ASSUME IInv, sender # None, context # Pending
               PROVE  /\ context # None
                      /\ context.raw = sender.raw
                      /\ \/ context.state = sender.state
                         \/ level < sender.level /\ context.state = None
                      /\ level = sender.level =>
                           TraceIdRandom(context) = TraceIdRandom(sender)
    BY DEF ForwardedContextArrives
  <2> DEFINE h == HeadersOf(sender)
             st == ParseTraceState(h.states, level)
  <2>1. /\ Accepted(sender) /\ sender \in Contexts
        /\ context = SelectTraceContext(h, level)
        /\ level \in Levels
    BY DEF IInv, TypeOK, Accepted
  <2>2. h.parents = <<sender.raw>> /\ ValidParent(sender.raw)
    BY <2>1 DEF HeadersOf, Accepted
  <2>3. context = [raw |-> sender.raw, level |-> level, state |-> st]
    BY <2>1, <2>2 DEF SelectTraceContext
  <2>4. st = sender.state \/ (level < sender.level /\ st = None)
    <3>1. CASE sender.state = None
      <4>1. h.states.members = <<>>
        BY <3>1 DEF HeadersOf
      <4>2. st = None
        BY <4>1 DEF ParseTraceState
      <4> QED BY <3>1, <4>2
    <3>2. CASE sender.state # None
      <4>1. h.states = [members |-> sender.state, starts |-> {1}]
        BY <3>2 DEF HeadersOf
      <4>2. Parsed(sender.state, sender.level) /\ sender.level \in Levels
        BY <2>1, <3>2 DEF Accepted, Contexts
      <4> QED BY <2>1, <4>1, <4>2, ParsedAgain
    <3> QED BY <3>1, <3>2
  <2> HIDE DEF h, st
  <2>5. context \in Contexts
    <3>1. context # None
      BY <2>3, <2>4, MarkersAssumption, <2>1 DEF Contexts
    <3> QED BY <3>1 DEF IInv, TypeOK
  <2> QED BY <2>1, <2>3, <2>4, <2>5, MarkersAssumption DEF TraceIdRandom
<1> QED BY TypesOfInit, Step, <1>1, PTL DEF Spec

\* README.md "An invalid `tracestate` is discarded without invalidating a valid
\* `traceparent`".
THEOREM StateNeverCosts == Spec => []BadStateKeepsParent
<1>1. IInv => BadStateKeepsParent
  <2> SUFFICES ASSUME IInv, context = None
               PROVE  ~OneValidParent(headers)
    BY DEF BadStateKeepsParent, SelectTraceContext, OneValidParent
  <2>1. context = SelectTraceContext(headers, level)
    BY MarkersAssumption DEF IInv
  <2> QED BY <2>1, SelectAccepts, MarkersAssumption DEF IInv, TypeOK, Accepted
<1> QED BY TypesOfInit, Step, <1>1, PTL DEF Spec

\* An accepted tracestate has all members received, in wire order, with legal and
\* distinct keys (parse_tracestate_with_level), for any limits and any key.
THEOREM StateIsTheReceived == Spec => []StateAsReceived
<1>1. ASSUME NEW h \in StateHeaders, NEW l \in Levels, ParseTraceState(h, l) # None
      PROVE  LET s == ParseTraceState(h, l)
                 w == h.members
             IN  /\ Len(s) = Len(w) /\ Len(s) \in 1..MaxMembers
                 /\ \A i \in DOMAIN s :
                        /\ s[i].key = w[i].key
                        /\ ~s[i].padded /\ (s[i].value # "blank")
                        /\ s[i].key # <<>> => /\ s[i].key \in LegalKeys[l]
                                              /\ s[i].equals = 1 /\ s[i].value = w[i].value
                        /\ \A j \in DOMAIN s : s[i].key = s[j].key => i = j \/ IsEmpty(s[i])
  <2> DEFINE s == ParseTraceState(h, l)
             w == h.members
  <2>1. s = [i \in DOMAIN w |-> Trimmed(w[i])]
    BY <1>1 DEF ParseTraceState
  <2>2. Parsed(s, l)
    BY <1>1, ParseYieldsParsed
  <2>3. w \in Seq(Members)
    BY DEF StateHeaders
  <2> HIDE DEF s, w
  <2>4. s \in Seq(Members) /\ s # <<>> /\ Len(s) <= MaxMembers
    BY <2>2 DEF Parsed
  <2>5. DOMAIN s = DOMAIN w /\ Len(s) = Len(w) /\ Len(s) \in 1..MaxMembers
    <3>1. DOMAIN s = DOMAIN w
      BY <2>1
    <3>2. DOMAIN w = 1..Len(w) /\ Len(s) \in Nat /\ Len(w) \in Nat
      BY <2>3, <2>4
    <3>3. Len(s) = Len(w)
      <4>1. s \in [1..Len(w) -> Members]
        BY <2>4, <3>1, <3>2
      <4> QED BY <3>2, <4>1
    <3>4. Len(s) # 0
      BY <2>4
    <3> QED BY <2>4, <3>1, <3>2, <3>3, <3>4, LimitsAssumption
  <2>6. ASSUME NEW i \in DOMAIN s
        PROVE  /\ s[i].key = w[i].key
               /\ ~s[i].padded /\ (s[i].value # "blank")
               /\ s[i].key # <<>> => /\ s[i].key \in LegalKeys[l]
                                     /\ s[i].equals = 1 /\ s[i].value = w[i].value
    <3>1. s[i] = Trimmed(w[i]) /\ w[i] \in Members /\ s[i] \in Members
      BY <2>1, <2>3, <2>4, <2>5
    <3>2. /\ s[i].key = w[i].key /\ ~s[i].padded
          /\ s[i].value = IF w[i].value = "blank" THEN "empty" ELSE w[i].value
      BY <3>1, TrimmedParts
    <3>3. s[i].key # <<>> => IsValidMember(s[i], l)
      BY <2>2 DEF Parsed, IsEmpty
    <3>4. s[i].key \in Keys
      BY <3>1 DEF Members
    <3>5. s[i].key # <<>> => s[i].key \in LegalKeys[l] /\ s[i].equals = 1
      BY <3>3, <3>4, ValidKeysAreLegal DEF IsValidMember
    <3>6. s[i].key # <<>> => s[i].value \in {"word", "spaced"}
      BY <3>3 DEF IsValidMember, IsValidValue
    <3> QED BY <3>2, <3>5, <3>6
  <2>7. ASSUME NEW i \in DOMAIN s, NEW j \in DOMAIN s, s[i].key = s[j].key
        PROVE  i = j \/ IsEmpty(s[i])
    <3>1. i = j \/ IsEmpty(s[i]) \/ IsEmpty(s[j])
      BY <2>2, <2>7 DEF Parsed, Duplicated
    <3>2. IsEmpty(s[i]) \/ Len(s[i].key) \in 1..MaxKey
      BY <2>2 DEF Parsed, IsValidMember, IsValidKey
    <3>3. IsEmpty(s[j]) => Len(s[i].key) = 0
      BY <2>7 DEF IsEmpty
    <3> QED BY <3>1, <3>2, <3>3
  <2>8. /\ Len(s) = Len(w) /\ Len(s) \in 1..MaxMembers
        /\ \A i \in DOMAIN s :
               /\ s[i].key = w[i].key
               /\ ~s[i].padded /\ (s[i].value # "blank")
               /\ s[i].key # <<>> => /\ s[i].key \in LegalKeys[l]
                                     /\ s[i].equals = 1 /\ s[i].value = w[i].value
               /\ \A j \in DOMAIN s : s[i].key = s[j].key => i = j \/ IsEmpty(s[i])
    BY <2>5, <2>6, <2>7
  <2> QED BY <2>8 DEF s, w
<1>2. IInv => StateAsReceived
  <2> SUFFICES ASSUME IInv, context \notin {None, Pending}, context.state # None
               PROVE  StateAsReceived
    BY DEF StateAsReceived
  <2>1. /\ context = SelectTraceContext(headers, level) /\ level \in Levels
        /\ headers.states \in StateHeaders
    BY DEF IInv, TypeOK, Headers
  <2>2. context.state = ParseTraceState(headers.states, level)
    BY <2>1 DEF SelectTraceContext
  <2> QED BY <1>1, <2>1, <2>2 DEF StateAsReceived
<1> QED BY TypesOfInit, Step, <1>2, PTL DEF Spec

\* The converse: the parser drops no tracestate that is legal, so together the two
\* say that it accepts exactly the legal ones.
THEOREM NoLegalStateIsLost == Spec => []LegalStateIsKept
<1>1. ASSUME NEW h \in StateHeaders, NEW l \in Levels, ParseTraceState(h, l) = None
      PROVE  LET w == h.members
                 Keyed == {i \in DOMAIN w : w[i].key # <<>> \/ w[i].equals # 0}
             IN  \/ Len(w) \notin 1..MaxMembers
                 \/ \E i \in Keyed : w[i].key \notin LegalKeys[l]
                                   \/ w[i].equals # 1 \/ w[i].value \notin {"word", "spaced"}
                 \/ \E i, j \in Keyed : i # j /\ w[i].key = w[j].key
  <2> DEFINE w == h.members
             Keyed == {i \in DOMAIN w : w[i].key # <<>> \/ w[i].equals # 0}
             s == [i \in DOMAIN w |-> Trimmed(w[i])]
  <2> SUFFICES ASSUME /\ Len(w) \in 1..MaxMembers
                      /\ \A i \in Keyed : /\ w[i].key \in LegalKeys[l]
                                          /\ w[i].equals = 1 /\ w[i].value \in {"word", "spaced"}
                      /\ \A i, j \in Keyed : w[i].key = w[j].key => i = j
               PROVE  FALSE
    OBVIOUS
  <2>1. w \in Seq(Members)
    BY DEF StateHeaders
  <2>2. \A i \in DOMAIN w : /\ w[i] \in Members
                            /\ s[i].key = w[i].key /\ s[i].equals = w[i].equals
                            /\ w[i].value # "blank" => s[i].value = w[i].value
    <3>1. \A i \in DOMAIN w : w[i] \in Members /\ s[i] = Trimmed(w[i])
      BY <2>1
    <3> HIDE DEF s
    <3> QED BY <3>1, TrimmedParts
  <2>3. s \in Seq(Members) /\ Len(s) = Len(w)
    <3>1. \A i \in DOMAIN w : Trimmed(w[i]) \in Members
      BY <2>2, TrimmedMember
    <3>2. DOMAIN w = 1..Len(w) /\ Len(w) \in Nat
      BY <2>1
    <3>3. s \in [1..Len(w) -> Members]
      BY <3>1, <3>2
    <3> HIDE DEF s
    <3> QED BY <3>2, <3>3
  <2>4. DOMAIN s = DOMAIN w
    OBVIOUS
  <2>5. ASSUME NEW i \in DOMAIN w
        PROVE  IsEmpty(s[i]) <=> i \notin Keyed
    BY <2>2 DEF IsEmpty
  <2>6. ParseTraceState(h, l) =
          IF /\ s # <<>> /\ Len(s) <= MaxMembers
             /\ \A i \in DOMAIN s : IsEmpty(s[i]) \/ IsValidMember(s[i], l)
             /\ \A i, j \in DOMAIN s : ~Duplicated(s, i, j)
          THEN s ELSE None
    BY DEF ParseTraceState
  <2> HIDE DEF s
  <2>7. ASSUME NEW i \in Keyed
        PROVE  IsValidMember(s[i], l)
    <3>1. s[i].key \in LegalKeys[l] /\ s[i].equals = 1 /\ s[i].value \in {"word", "spaced"}
      BY <2>2
    <3>2. s[i].key \in Keys
      BY <2>2 DEF Members
    <3> QED BY <3>1, <3>2, ValidKeysAreLegal DEF IsValidMember, IsValidValue
  <2>8. ASSUME NEW i \in DOMAIN w, NEW j \in DOMAIN w
        PROVE  ~Duplicated(s, i, j)
    BY <2>2, <2>5 DEF Duplicated
  <2>9. s # <<>> /\ Len(s) <= MaxMembers
    <3>1. Len(s) >= 1 /\ Len(s) <= MaxMembers
      BY <2>3, LimitsAssumption
    <3> QED BY <3>1
  <2>10. \A i \in DOMAIN s : IsEmpty(s[i]) \/ IsValidMember(s[i], l)
    BY <2>4, <2>5, <2>7
  <2>11. ParseTraceState(h, l) = s
    BY <2>4, <2>6, <2>8, <2>9, <2>10
  <2> QED BY <1>1, <2>3, <2>11, MarkersAssumption
<1>2. IInv => LegalStateIsKept
  <2> SUFFICES ASSUME IInv, context \notin {None, Pending}, context.state = None
               PROVE  LegalStateIsKept
    BY DEF LegalStateIsKept
  <2>1. /\ context = SelectTraceContext(headers, level) /\ level \in Levels
        /\ headers.states \in StateHeaders
    BY DEF IInv, TypeOK, Headers
  <2>2. ParseTraceState(headers.states, level) = None
    BY <2>1 DEF SelectTraceContext
  <2> QED BY <1>1, <2>1, <2>2 DEF LegalStateIsKept
<1> QED BY TypesOfInit, Step, <1>2, PTL DEF Spec
=============================================================================
