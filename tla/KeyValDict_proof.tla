--------------------------- MODULE KeyValDict_proof ---------------------------
(***************************************************************************)
(* Dictionaries, for any messages, any actions' values and any sequence of *)
(* passes and calls.  has_key and get_value agree, because ordered_keys_   *)
(* and values_ only ever grow together.  The loop of set_message begins    *)
(* every pass where a line begins, and never starts over.  An action that  *)
(* is printed is one line behind the other, at known positions; each pass  *)
(* of its receiver reads the next of these lines, so it arrives as it was  *)
(* built.  Of any other message, a pass reads the next line that has a     *)
(* separator, so the keys are these lines' and the first with a key gives  *)
(* its value; and printing them gives the message again exactly if nothing *)
(* is behind the last of them and lines with the same key agree.           *)
(***************************************************************************)
EXTENDS KeyValDict, SequenceTheorems, FiniteSetTheorems, WellFoundedInduction, TLAPS

(* ordered_keys_ is a sequence, of whatever the keys are.                  *)
KeysAreSeq == ordered_keys_ \in Seq(Range(ordered_keys_))

(* Appending an element to a sequence adds it to the range.                *)
LEMMA RangeOfAppend ==
    ASSUME NEW s, s \in Seq(Range(s)), NEW x
    PROVE  /\ Range(Append(s, x)) = Range(s) \cup {x}
           /\ Append(s, x) \in Seq(Range(Append(s, x)))
<1> DEFINE S == Range(s) \cup {x}
<1>1. s \in Seq(S) /\ x \in S
  <2>1. Seq(Range(s)) \subseteq Seq(S)
    BY SeqDef
  <2>2. QED
    BY <2>1
<1>2. /\ Append(s, x) \in Seq(S)
      /\ Len(s) \in Nat
      /\ DOMAIN s = 1 .. Len(s)
      /\ DOMAIN Append(s, x) = 1 .. Len(s) + 1
      /\ \A i \in 1 .. Len(s) : Append(s, x)[i] = s[i]
      /\ Append(s, x)[Len(s) + 1] = x
  <2>1. /\ Append(s, x) \in Seq(S)
        /\ Len(Append(s, x)) = Len(s) + 1
        /\ \A i \in 1 .. Len(s) : Append(s, x)[i] = s[i]
        /\ Append(s, x)[Len(s) + 1] = x
    BY <1>1, AppendProperties
  <2>2. Len(s) \in Nat /\ DOMAIN s = 1 .. Len(s)
    BY <1>1, LenProperties
  <2>3. DOMAIN Append(s, x) = 1 .. Len(Append(s, x))
    BY <2>1, LenProperties
  <2>4. QED
    BY <2>1, <2>2, <2>3
<1>3. Range(Append(s, x)) = S
  BY <1>2 DEF Range
<1>4. QED
  BY <1>2, <1>3

(* What a constructor makes: its keys are single words, none of which is   *)
(* one of the two that Action prints itself, and the keys that have values *)
(* are among them.  A Value is a text on one line.                         *)
OneWord     == {<<w>> : w \in Word}
DeclaredKey == OneWord \ {ActionKey, ActionIDKey}
Value       == {v \in Text : EOR \notin Range(v)}

Declared(a) == /\ a \in [action : OneWord, keys : Seq(DeclaredKey), values : {a.values}]
               /\ DOMAIN a.values \subseteq Range(a.keys)
               /\ \A k \in DOMAIN a.values : a.values[k] \in Text

Name == Word \ {"Action", "ActionID"}

LEMMA WordsAreValues ==
    OneWord \subseteq Value /\ <<>> \in Value /\ Value \subseteq Text /\ Values \subseteq Text
<1>1. ASSUME NEW w \in Word PROVE <<w>> \in Value
  <2>1. w \in Token /\ w # EOR
    BY WordAssumption DEF Token
  <2>2. <<w>> \in Text /\ Range(<<w>>) = {w}
    <3>1. <<w>> \in Seq(Token) /\ Len(<<w>>) = 1 /\ <<w>>[1] = w /\ DOMAIN <<w>> = 1 .. 1
      BY <2>1
    <3>2. QED
      BY <3>1 DEF Text, Range
  <2>3. QED
    BY <2>1, <2>2 DEF Value
<1>2. <<>> \in Value
  BY DEF Value, Text, Range
<1>3. QED
  BY <1>1, <1>2, ValuesAssumption DEF OneWord, Value

LEMMA NewActionDeclared ==
    ASSUME NEW name \in Word, NEW keys \in Seq(Name)
    PROVE  /\ Declared(ActionOf(name, keys))
           /\ \A i \in 1 .. Len(keys) : <<keys[i]>> \in Range(ActionOf(name, keys).keys)
<1> DEFINE a == ActionOf(name, keys)
<1>1. /\ a = [action |-> <<name>>, keys |-> [i \in DOMAIN keys |-> <<keys[i]>>], values |-> NoValues]
      /\ DOMAIN keys = 1 .. Len(keys) /\ Len(keys) \in Nat /\ \A i \in 1 .. Len(keys) : keys[i] \in Name
  BY LenProperties, ElementOfSeq DEF ActionOf
<1>2. a.keys = [i \in 1 .. Len(keys) |-> <<keys[i]>>]
  BY <1>1
<1>3. \A i \in 1 .. Len(keys) : <<keys[i]>> \in Range(a.keys)
  BY <1>2 DEF Range
<1>4. a.keys \in Seq(DeclaredKey)
  <2>1. \A i \in 1 .. Len(keys) : <<keys[i]>> \in DeclaredKey
    BY <1>1 DEF DeclaredKey, OneWord, Name, ActionKey, ActionIDKey
  <2>2. QED
    BY <1>1, <1>2, <2>1, SeqDef
<1>5. DOMAIN a.values = {}
  BY <1>1 DEF NoValues
<1>6. a.action \in OneWord
  BY <1>1 DEF OneWord
<1>7. QED
  BY <1>1, <1>3, <1>4, <1>5, <1>6 DEF Declared

LEMMA WithDeclared ==
    ASSUME NEW a, NEW key, NEW val \in Text, Declared(a), <<key>> \in Range(a.keys)
    PROVE  Declared(With(a, key, val)) /\ With(a, key, val).keys = a.keys
<1>1. /\ With(a, key, val).keys = a.keys
      /\ With(a, key, val).values = Put(a.values, <<key>>, val)
      /\ With(a, key, val).action = a.action
      /\ With(a, key, val) \in [action : OneWord, keys : Seq(DeclaredKey),
                               values : {Put(a.values, <<key>>, val)}]
  BY DEF With, Declared
<1>2. /\ DOMAIN Put(a.values, <<key>>, val) = DOMAIN a.values \cup {<<key>>}
      /\ \A k \in DOMAIN Put(a.values, <<key>>, val) : Put(a.values, <<key>>, val)[k] \in Text
  BY DEF Put, Declared
<1>3. QED
  BY <1>1, <1>2 DEF Declared

(* Every class declares the keys its constructors set.                     *)
LEMMA ActionsDeclareTheirKeys == \A a \in Actions : Declared(a)
<1>1. ASSUME NEW name \in Word, NEW keys \in Seq(Name) PROVE Declared(ActionOf(name, keys))
  BY NewActionDeclared
<1>2. ASSUME NEW name \in Word, NEW keys \in Seq(Name), NEW i \in 1 .. Len(keys), NEW val \in Text
      PROVE  /\ Declared(With(ActionOf(name, keys), keys[i], val))
             /\ \A j \in 1 .. Len(keys) : \A w \in Text :
                    Declared(With(With(ActionOf(name, keys), keys[i], val), keys[j], w))
  <2>1. /\ Declared(With(ActionOf(name, keys), keys[i], val))
        /\ With(ActionOf(name, keys), keys[i], val).keys = ActionOf(name, keys).keys
    BY NewActionDeclared, WithDeclared
  <2>2. QED
    BY <2>1, NewActionDeclared, WithDeclared
<1>3. \A a \in DeviceStateList \cup ExtensionState \cup Getvar \cup ListCommands \cup {EmptyLogin}
                \cup Logoff \cup ParkedCalls \cup Parkinglots \cup Ping \cup VoicemailRefresh :
         Declared(a)
  <2>1. \A name \in Word : \A k, l \in Name :
            /\ Declared(ActionOf(name, <<>>))
            /\ Declared(ActionOf(name, <<k>>))
            /\ Declared(ActionOf(name, <<k, l>>))
    <3>1. \A k, l \in Name : <<>> \in Seq(Name) /\ <<k>> \in Seq(Name) /\ <<k, l>> \in Seq(Name)
      OBVIOUS
    <3>2. QED
      BY <1>1, <3>1
  <2>2. Declared(EmptyLogin)
    <3>1. <<"Username", "AuthType", "Secret", "Key", "Events">> \in Seq(Name)
      BY WordAssumption DEF Name, LibraryWords
    <3>2. QED
      BY <1>1, <3>1, WordAssumption DEF EmptyLogin, LibraryWords
  <2>3. /\ {"DeviceStateList", "ListCommands", "Logoff", "Parkinglots", "Ping"} \subseteq Word
        /\ {"ExtensionState", "Getvar", "ParkedCalls", "VoicemailRefresh"} \subseteq Word
    BY WordAssumption DEF LibraryWords
  <2>4. {"Exten", "Context", "Channel", "Variable", "ParkingLot", "Mailbox"} \subseteq Name
    BY WordAssumption DEF Name, LibraryWords
  <2>5. \A a \in DeviceStateList \cup ListCommands \cup {EmptyLogin} \cup Logoff \cup Parkinglots
                \cup Ping : Declared(a)
    BY <2>1, <2>2, <2>3, <2>4 DEF DeviceStateList, ListCommands, Logoff, Parkinglots, Ping
  <2>6. \A a \in ExtensionState \cup Getvar \cup ParkedCalls \cup VoicemailRefresh : Declared(a)
    BY <2>1, <2>3, <2>4 DEF ExtensionState, Getvar, ParkedCalls, VoicemailRefresh
  <2>7. QED
    BY <2>5, <2>6
<1>4. \A a \in Challenge \cup Events \cup MailboxCount \cup MailboxStatus : Declared(a)
  <2>1. ASSUME NEW name \in Word, NEW key \in Name, NEW val \in Text
        PROVE  Declared(With(ActionOf(name, <<key>>), key, val))
    <3>1. <<key>> \in Seq(Name) /\ Len(<<key>>) = 1 /\ <<key>>[1] = key
      OBVIOUS
    <3>2. Declared(With(ActionOf(name, <<key>>), <<key>>[1], val))
      <4>1. 1 \in 1 .. Len(<<key>>)
        BY <3>1
      <4>2. QED
        BY <1>2, <3>1, <4>1, Zenon
    <3>3. QED
      BY <3>1, <3>2
  <2>2. <<"MD5">> \in Text /\ <<"on">> \in Text /\ Values \subseteq Text
    BY WordsAreValues, WordAssumption DEF OneWord, LibraryWords
  <2>3. QED
    BY <2>1, <2>2, WordAssumption DEF Name, LibraryWords, Challenge, Events, MailboxCount, MailboxStatus
<1>5. \A a \in Login : Declared(a)
  <2> DEFINE keys == <<"Username", "AuthType", "Secret", "Key", "Events">>
  <2>1. /\ keys \in Seq(Name) /\ Len(keys) = 5
        /\ keys[1] = "Username" /\ keys[3] = "Secret" /\ "Login" \in Word
    BY WordAssumption DEF Name, LibraryWords
  <2>2. ASSUME NEW u \in Text, NEW s \in Text
        PROVE Declared(With(With(EmptyLogin, "Username", u), "Secret", s))
    <3>1. 1 \in 1 .. Len(keys) /\ 3 \in 1 .. Len(keys)
      BY <2>1
    <3>2. Declared(With(With(ActionOf("Login", keys), keys[1], u), keys[3], s))
      BY <1>2, <2>1, <3>1, Zenon
    <3>3. QED
      BY <2>1, <3>2 DEF EmptyLogin
  <2>3. QED
    BY <2>2, WordsAreValues DEF Login
<1>6. \A a \in VoicemailBoxSummary : Declared(a)
  <2> DEFINE keys == <<"Context", "Mailbox">>
  <2>1. /\ keys \in Seq(Name) /\ Len(keys) = 2
        /\ keys[1] = "Context" /\ keys[2] = "Mailbox" /\ "VoicemailBoxSummary" \in Word
    BY WordAssumption DEF Name, LibraryWords
  <2>2. ASSUME NEW c \in Text, NEW m \in Text
        PROVE  Declared(With(With(ActionOf("VoicemailBoxSummary", keys), "Context", c), "Mailbox", m))
    <3>1. 1 \in 1 .. Len(keys) /\ 2 \in 1 .. Len(keys)
      BY <2>1
    <3>2. Declared(With(With(ActionOf("VoicemailBoxSummary", keys), keys[1], c), keys[2], m))
      BY <1>2, <2>1, <3>1, Zenon
    <3>3. QED
      BY <2>1, <3>2
  <2>3. QED
    BY <2>2, WordsAreValues DEF VoicemailBoxSummary
<1>7. QED
  BY <1>3, <1>4, <1>5, <1>6 DEF Actions

(* A dictionary whose keys are a sequence answers both lookups alike.      *)
LEMMA StepKeepsLookups == KeysAreSeq /\ LookupsAgree /\ [Next]_vars => (KeysAreSeq /\ LookupsAgree)'
<1> SUFFICES ASSUME KeysAreSeq, LookupsAgree, [Next]_vars PROVE KeysAreSeq' /\ LookupsAgree'
  OBVIOUS
<1>1. CASE ParseLine
  <2>1. PICK key, val :
           /\ ordered_keys_' = Append(ordered_keys_, key)
           /\ values_' = Emplace(values_, key, val)
           /\ doing = "parsing"
    BY <1>1 DEF ParseLine
  <2>2. DOMAIN values_' = DOMAIN values_ \cup {key}
    BY <2>1 DEF Emplace, Put
  <2>3. /\ Range(ordered_keys_') = Range(ordered_keys_) \cup {key}
        /\ ordered_keys_' \in Seq(Range(ordered_keys_'))
    BY <2>1, RangeOfAppend DEF KeysAreSeq
  <2>4. QED
    BY <2>1, <2>2, <2>3 DEF KeysAreSeq, LookupsAgree
<1>2. CASE ParseEnd
  BY <1>2 DEF ParseEnd, KeysAreSeq, LookupsAgree
<1>3. ASSUME NEW key, NEW val, SetValue(key, val) PROVE KeysAreSeq' /\ LookupsAgree'
  BY <1>3 DEF SetValue, HasKey, Put, KeysAreSeq, LookupsAgree
<1>4. ASSUME NEW key, Subscript(key) PROVE KeysAreSeq' /\ LookupsAgree'
  BY <1>4 DEF Subscript, HasKey, Put, KeysAreSeq, LookupsAgree
<1>5. CASE Send
  <2>1. ordered_keys_' = <<>> /\ values_' = NoValues
    BY <1>5 DEF Send
  <2>2. QED
    BY <2>1 DEF NoValues, Range, KeysAreSeq, LookupsAgree
<1>6. CASE UNCHANGED vars
  BY <1>6 DEF vars, KeysAreSeq, LookupsAgree
<1>7. QED
  BY <1>1, <1>2, <1>3, <1>4, <1>5, <1>6 DEF Next

LEMMA InitLookups == Init => KeysAreSeq /\ LookupsAgree
<1> SUFFICES ASSUME Init PROVE KeysAreSeq /\ LookupsAgree
  OBVIOUS
<1>1. CASE ordered_keys_ = <<>> /\ values_ = NoValues
  BY <1>1 DEF NoValues, Range, KeysAreSeq, LookupsAgree
<1>2. ASSUME NEW a \in Actions, doing = "building", ordered_keys_ = a.keys, values_ = a.values
      PROVE  KeysAreSeq /\ LookupsAgree
  <2>1. Declared(a)
    BY ActionsDeclareTheirKeys
  <2>2. a.keys \in Seq(Range(a.keys))
    <3>1. a.keys \in Seq(DeclaredKey)
      BY <2>1 DEF Declared
    <3>2. \A i \in 1 .. Len(a.keys) : a.keys[i] \in Range(a.keys)
      BY <3>1, LenProperties DEF Range
    <3>3. QED
      BY <3>1, <3>2, SeqDef
  <2>3. QED
    BY <1>2, <2>1, <2>2 DEF Declared, KeysAreSeq, LookupsAgree
<1>3. QED
  BY <1>1, <1>2 DEF Init

(* dispatch_event and the reactions may ask for a key with has_key or with *)
(* get_value: the two agree on every message, and no dictionary has a      *)
(* value it would not print.                                               *)
THEOREM Lookups == Spec => []LookupsAgree
  BY InitLookups, StepKeepsLookups, PTL DEF Spec

-----------------------------------------------------------------------------
(* Finding and printing.  A set of numbers has a least element, which is   *)
(* how induction over a text is done here.                                 *)
LEMMA LeastOf ==
    ASSUME NEW S \in SUBSET Nat, S # {}
    PROVE  \E m \in S : \A n \in S : m <= n
<1>1. IsWellFoundedOn({ss \in Nat \X Nat : ss[1] < ss[2]}, Nat)
  BY NatLessThanWellFounded DEF OpToRel
<1>2. PICK m \in S : \A n \in S : ~(<<n, m>> \in {ss \in Nat \X Nat : ss[1] < ss[2]})
  BY <1>1, WFMin
<1>3. \A n \in S : ~(n < m)
  BY <1>2
<1>4. QED
  BY <1>3

LEMMA Finds ==
    ASSUME text \in Text, NEW token, NEW from \in Nat \ {0}
    PROVE  /\ Len(text) \in Nat /\ Find(token, from) \in {NPos} \cup from .. Len(text)
           /\ Find(token, from) = NPos => \A i \in from .. Len(text) : text[i] # token
           /\ Find(token, from) # NPos =>
                  /\ text[Find(token, from)] = token
                  /\ \A i \in from .. Len(text) : text[i] = token => Find(token, from) <= i
<1> DEFINE found == {i \in from .. Len(text) : text[i] = token}
<1>1. Len(text) \in Nat
  BY LenProperties DEF Text
<1>2. CASE found = {}
  BY <1>1, <1>2 DEF Find
<1>3. CASE found # {}
  <2>1. found \in SUBSET Nat
    BY <1>1
  <2>2. \E i \in found : \A j \in found : i <= j
    BY <1>3, <2>1, LeastOf
  <2>3. Find(token, from) = CHOOSE i \in found : \A j \in found : i <= j
    BY <1>3 DEF Find
  <2>4. Find(token, from) \in found /\ \A j \in found : Find(token, from) <= j
    BY <2>2, <2>3
  <2>5. Find(token, from) # NPos
    BY <1>1, <2>4 DEF NPos
  <2>6. QED
    BY <1>1, <2>4, <2>5
<1>4. QED
  BY <1>2, <1>3

LEMMA FindIs ==
    ASSUME text \in Text, NEW token, NEW from \in Nat \ {0}, NEW i \in from .. Len(text),
           text[i] = token, \A j \in from .. i - 1 : text[j] # token
    PROVE  Find(token, from) = i
<1> DEFINE e == Find(token, from)
<1>1. /\ Len(text) \in Nat /\ e \in {NPos} \cup from .. Len(text)
      /\ e = NPos => \A j \in from .. Len(text) : text[j] # token
      /\ e # NPos => text[e] = token /\ \A j \in from .. Len(text) : text[j] = token => e <= j
  BY Finds
<1> HIDE DEF e
<1>2. e # NPos
  BY <1>1
<1>3. e <= i /\ e \in from .. Len(text) /\ text[e] = token
  BY <1>1, <1>2
<1>4. e \notin from .. i - 1
  BY <1>3
<1>5. e = i
  BY <1>1, <1>3, <1>4
<1>6. QED
  BY <1>5 DEF e

(* One line: a key of one word, the separator, a value and the line's end. *)
LEMMA LineIs ==
    ASSUME NEW k \in OneWord, NEW v \in Text
    PROVE  /\ Line(k, v) \in Text /\ Len(Line(k, v)) = Len(v) + 3 /\ Len(v) \in Nat
           /\ Line(k, v)[1] = k[1] /\ k[1] \in Word /\ k = <<k[1]>>
           /\ Line(k, v)[2] = SEP
           /\ \A j \in 1 .. Len(v) : Line(k, v)[2 + j] = v[j]
           /\ Line(k, v)[Len(v) + 3] = EOR
<1>1. PICK w \in Word : k = <<w>>
  BY DEF OneWord
<1> DEFINE a == k \o <<SEP>>
           b == a \o v
           c == b \o <<EOR>>
<1>2. /\ k \in Seq(Token) /\ <<SEP>> \in Seq(Token) /\ <<EOR>> \in Seq(Token) /\ v \in Seq(Token)
      /\ Len(k) = 1 /\ Len(<<SEP>>) = 1 /\ Len(<<EOR>>) = 1 /\ k[1] = w
      /\ <<SEP>>[1] = SEP /\ <<EOR>>[1] = EOR
  <2>1. w \in Token /\ SEP \in Token /\ EOR \in Token
    BY DEF Token
  <2>2. QED
    BY <1>1, <2>1 DEF Text
<1>3. Len(v) \in Nat
  BY <1>2, LenProperties
<1>4. /\ a \in Seq(Token) /\ Len(a) = 2 /\ a[1] = w /\ a[2] = SEP
  <2>1. /\ a \in Seq(Token) /\ Len(a) = Len(k) + Len(<<SEP>>)
        /\ \A i \in 1 .. Len(k) + Len(<<SEP>>) :
               a[i] = IF i <= Len(k) THEN k[i] ELSE <<SEP>>[i - Len(k)]
    BY <1>2, ConcatProperties
  <2>2. QED
    BY <1>2, <2>1
<1> HIDE DEF a
<1>5. /\ b \in Seq(Token) /\ Len(b) = 2 + Len(v) /\ b[1] = w /\ b[2] = SEP
      /\ \A j \in 1 .. Len(v) : b[2 + j] = v[j]
  <2>1. /\ b \in Seq(Token) /\ Len(b) = Len(a) + Len(v)
        /\ \A i \in 1 .. Len(a) + Len(v) : b[i] = IF i <= Len(a) THEN a[i] ELSE v[i - Len(a)]
    BY <1>2, <1>4, ConcatProperties
  <2>2. QED
    BY <1>3, <1>4, <2>1
<1> HIDE DEF b
<1>6. /\ c \in Seq(Token) /\ Len(c) = 3 + Len(v) /\ c[1] = w /\ c[2] = SEP
      /\ \A j \in 1 .. Len(v) : c[2 + j] = v[j]
      /\ c[3 + Len(v)] = EOR
  <2>1. /\ c \in Seq(Token) /\ Len(c) = Len(b) + Len(<<EOR>>)
        /\ \A i \in 1 .. Len(b) + Len(<<EOR>>) :
               c[i] = IF i <= Len(b) THEN b[i] ELSE <<EOR>>[i - Len(b)]
    BY <1>2, <1>5, ConcatProperties
  <2>2. QED
    BY <1>2, <1>3, <1>5, <2>1
<1>7. Line(k, v) = c
  BY DEF Line, a, b, c
<1> HIDE DEF c
<1>8. QED
  BY <1>1, <1>2, <1>3, <1>6, <1>7 DEF Text

(* The lines of an action, one behind the other: the recursion of ToString *)
(* is a function, and its values are texts.                                *)
UpTo(f, p, k) == f = [n \in 0 .. k |-> IF n = 0 THEN <<>> ELSE f[n - 1] \o p[n]]
Lines(f, p)   == UpTo(f, p, Len(p))

Stepwise(f, p, k) == f[0] = <<>> /\ \A n \in 1 .. k : f[n] = f[n - 1] \o p[n]

LEMMA UpToIs ==
    ASSUME NEW f, NEW p, NEW k \in Nat, UpTo(f, p, k)
    PROVE  Stepwise(f, p, k)
<1>1. \A n \in 0 .. k : f[n] = IF n = 0 THEN <<>> ELSE f[n - 1] \o p[n]
  BY DEF UpTo
<1>2. 0 \in 0 .. k /\ \A n \in 1 .. k : n \in 0 .. k /\ n # 0
  OBVIOUS
<1>3. QED
  BY <1>1, <1>2 DEF Stepwise

LEMMA OneMoreLine ==
    ASSUME NEW p, NEW k \in Nat \ {0}, NEW f, UpTo(f, p, k - 1)
    PROVE  \E g : UpTo(g, p, k)
<1> DEFINE g == [n \in 0 .. k |-> IF n = k THEN f[k - 1] \o p[k] ELSE f[n]]
<1>1. f[0] = <<>> /\ \A n \in 1 .. k - 1 : f[n] = f[n - 1] \o p[n]
  <2>1. k - 1 \in Nat
    OBVIOUS
  <2>2. Stepwise(f, p, k - 1)
    BY <2>1, UpToIs
  <2>3. QED
    BY <2>2 DEF Stepwise
<1>2. /\ g = [n \in 0 .. k |-> g[n]] /\ g[k] = f[k - 1] \o p[k]
      /\ \A n \in 0 .. k - 1 : g[n] = f[n]
  <2>1. g = [n \in 0 .. k |-> g[n]]
    OBVIOUS
  <2>2. k \in 0 .. k /\ \A n \in 0 .. k - 1 : n \in 0 .. k /\ n # k
    OBVIOUS
  <2>3. QED
    BY <2>1, <2>2
<1> HIDE DEF g
<1>3. ASSUME NEW n \in 0 .. k PROVE g[n] = IF n = 0 THEN <<>> ELSE g[n - 1] \o p[n]
  <2>1. CASE n = 0
    <3>1. n \in 0 .. k - 1
      BY <2>1
    <3>2. QED
      BY <1>1, <1>2, <2>1, <3>1
  <2>2. CASE n = k
    <3>1. k - 1 \in 0 .. k - 1 /\ n # 0
      BY <2>2
    <3>2. g[k - 1] = f[k - 1]
      BY <1>2, <3>1
    <3>3. QED
      BY <1>2, <2>2, <3>1, <3>2
  <2>3. CASE n # 0 /\ n # k
    <3>1. n \in 1 .. k - 1 /\ n \in 0 .. k - 1 /\ n - 1 \in 0 .. k - 1
      BY <2>3
    <3>2. g[n] = f[n] /\ g[n - 1] = f[n - 1] /\ f[n] = f[n - 1] \o p[n]
      BY <1>1, <1>2, <3>1
    <3>3. QED
      BY <2>3, <3>2
  <2>4. QED
    BY <2>1, <2>2, <2>3
<1>4. g = [n \in 0 .. k |-> IF n = 0 THEN <<>> ELSE g[n - 1] \o p[n]]
  BY <1>2, <1>3
<1>5. QED
  BY <1>4 DEF UpTo

LEMMA LinesExist ==
    ASSUME NEW p \in Seq(Text)
    PROVE  \E f : Lines(f, p)
<1>1. Len(p) \in Nat
  BY LenProperties
<1> DEFINE bad == {k \in 0 .. Len(p) : ~\E f : UpTo(f, p, k)}
<1>2. ASSUME bad # {} PROVE FALSE
  <2>1. bad \in SUBSET Nat
    BY <1>1
  <2>2. PICK k \in bad : \A n \in bad : k <= n
    BY <1>2, <2>1, LeastOf
  <2>3. k \in 0 .. Len(p) /\ k \in Nat /\ ~\E f : UpTo(f, p, k)
    BY <1>1, <2>2
  <2>4. CASE k = 0
    <3> DEFINE g == [n \in 0 .. 0 |-> <<>>]
    <3>1. g = [n \in 0 .. 0 |-> IF n = 0 THEN <<>> ELSE g[n - 1] \o p[n]]
      <4>1. \A n \in 0 .. 0 : n = 0
        OBVIOUS
      <4>2. QED
        BY <4>1
    <3> HIDE DEF g
    <3>2. UpTo(g, p, 0)
      BY <3>1 DEF UpTo
    <3>3. QED
      BY <2>3, <2>4, <3>2
  <2>5. CASE k # 0
    <3>1. k \in Nat \ {0} /\ k - 1 \in 0 .. Len(p) /\ ~(k <= k - 1)
      BY <1>1, <2>3, <2>5
    <3>2. k - 1 \notin bad
      BY <2>2, <3>1
    <3>3. PICK f : UpTo(f, p, k - 1)
      BY <3>1, <3>2
    <3>4. \E g : UpTo(g, p, k)
      BY <3>1, <3>3, OneMoreLine
    <3>5. QED
      BY <2>3, <3>4
  <2>6. QED
    BY <2>4, <2>5
<1>3. \E f : UpTo(f, p, Len(p))
  <2>1. Len(p) \in 0 .. Len(p)
    BY <1>1
  <2>2. Len(p) \notin bad
    BY <1>2
  <2>3. QED
    BY <2>1, <2>2
<1>4. QED
  BY <1>3 DEF Lines

LEMMA LinesAre ==
    ASSUME NEW p \in Seq(Text), NEW f, Lines(f, p)
    PROVE  /\ f[0] = <<>> /\ \A n \in 1 .. Len(p) : f[n] = f[n - 1] \o p[n]
           /\ \A n \in 0 .. Len(p) : f[n] \in Text
<1>1. Len(p) \in Nat /\ \A n \in 1 .. Len(p) : p[n] \in Text
  BY LenProperties, ElementOfSeq
<1>2. f[0] = <<>> /\ \A n \in 1 .. Len(p) : f[n] = f[n - 1] \o p[n]
  BY <1>1, UpToIs DEF Lines, Stepwise
<1> DEFINE bad == {n \in 0 .. Len(p) : f[n] \notin Text}
<1>3. ASSUME bad # {} PROVE FALSE
  <2>1. bad \in SUBSET Nat
    BY <1>1
  <2>2. PICK k \in bad : \A n \in bad : k <= n
    BY <1>3, <2>1, LeastOf
  <2>3. k \in 0 .. Len(p) /\ f[k] \notin Text /\ k \in Nat
    BY <1>1, <2>2
  <2>4. k # 0
    <3>1. f[0] \in Text
      BY <1>2, EmptySeq DEF Text
    <3>2. QED
      BY <2>3, <3>1
  <2>5. k \in 1 .. Len(p) /\ k - 1 \in 0 .. Len(p) /\ ~(k <= k - 1)
    BY <1>1, <2>3, <2>4
  <2>6. k - 1 \notin bad
    BY <2>2, <2>5
  <2>7. f[k - 1] \in Text /\ p[k] \in Text /\ f[k] = f[k - 1] \o p[k]
    BY <1>1, <1>2, <2>5, <2>6
  <2>8. f[k] \in Text
    BY <2>7, ConcatProperties DEF Text
  <2>9. QED
    BY <2>3, <2>8
<1>4. QED
  BY <1>2, <1>3

(* Printing: the lines of the keys in order, then the empty one.           *)
Printed == [n \in 1 .. Len(ordered_keys_) |-> Line(ordered_keys_[n], At(ordered_keys_[n]))]

LEMMA LineTyping ==
    ASSUME NEW k \in Text, NEW v \in Text
    PROVE  Line(k, v) \in Text
<1>1. <<SEP>> \in Text /\ <<EOR>> \in Text
  BY DEF Text, Token
<1>2. k \o <<SEP>> \in Text
  BY <1>1, ConcatProperties DEF Text
<1>3. k \o <<SEP>> \o v \in Text
  BY <1>2, ConcatProperties DEF Text
<1>4. k \o <<SEP>> \o v \o <<EOR>> \in Text
  BY <1>1, <1>3, ConcatProperties DEF Text
<1>5. QED
  BY <1>4 DEF Line

LEMMA PrintedTyping ==
    ASSUME TypeOK
    PROVE  /\ Printed \in Seq(Text) /\ Len(Printed) = Len(ordered_keys_)
           /\ Len(ordered_keys_) \in Nat /\ DOMAIN ordered_keys_ = 1 .. Len(ordered_keys_)
           /\ \A n \in 1 .. Len(ordered_keys_) :
                 /\ ordered_keys_[n] \in Text /\ At(ordered_keys_[n]) \in Text
                 /\ Printed[n] = Line(ordered_keys_[n], At(ordered_keys_[n]))
<1>1. /\ Len(ordered_keys_) \in Nat /\ DOMAIN ordered_keys_ = 1 .. Len(ordered_keys_)
      /\ \A n \in 1 .. Len(ordered_keys_) : ordered_keys_[n] \in Text
  BY LenProperties, ElementOfSeq DEF TypeOK
<1>2. \A n \in 1 .. Len(ordered_keys_) : At(ordered_keys_[n]) \in Text
  BY WordsAreValues DEF TypeOK, At, Value
<1>3. \A n \in 1 .. Len(ordered_keys_) : Printed[n] = Line(ordered_keys_[n], At(ordered_keys_[n]))
  BY DEF Printed
<1>4. \A n \in 1 .. Len(ordered_keys_) : Printed[n] \in Text
  BY <1>1, <1>2, <1>3, LineTyping
<1>5. Printed = [n \in 1 .. Len(ordered_keys_) |-> Printed[n]]
  BY DEF Printed
<1>6. Printed \in Seq(Text)
  BY <1>1, <1>4, <1>5, SeqDef
<1>7. Len(Printed) = Len(ordered_keys_)
  <2>1. DOMAIN Printed = 1 .. Len(ordered_keys_)
    BY DEF Printed
  <2>2. DOMAIN Printed = 1 .. Len(Printed) /\ Len(Printed) \in Nat
    BY <1>6, LenProperties
  <2>3. QED
    BY <1>1, <2>1, <2>2
<1>8. QED
  BY <1>1, <1>2, <1>3, <1>6, <1>7

LEMMA ToStringIs ==
    ASSUME TypeOK
    PROVE  \E f : Lines(f, Printed) /\ ToString = f[Len(Printed)] \o <<EOR>>
<1> DEFINE L == Len(ordered_keys_)
           Rec(f) == f = [n \in 0 .. L |->
                             IF n = 0 THEN <<>>
                             ELSE f[n - 1] \o Line(ordered_keys_[n], At(ordered_keys_[n]))]
           g == CHOOSE f : Rec(f)
<1>1. L \in Nat /\ Len(Printed) = L /\ Printed \in Seq(Text)
      /\ \A n \in 1 .. L : Printed[n] = Line(ordered_keys_[n], At(ordered_keys_[n]))
  BY PrintedTyping
<1>2. ToString = g[L] \o <<EOR>>
  BY DEF ToString
<1>3. ASSUME NEW f PROVE Rec(f) <=> Lines(f, Printed)
  <2>1. \A n \in 0 .. L : (IF n = 0 THEN <<>> ELSE f[n - 1] \o Printed[n])
            = IF n = 0 THEN <<>> ELSE f[n - 1] \o Line(ordered_keys_[n], At(ordered_keys_[n]))
    BY <1>1
  <2>2. [n \in 0 .. L |-> IF n = 0 THEN <<>> ELSE f[n - 1] \o Printed[n]]
            = [n \in 0 .. L |-> IF n = 0 THEN <<>>
                                ELSE f[n - 1] \o Line(ordered_keys_[n], At(ordered_keys_[n]))]
    BY <2>1
  <2>3. QED
    BY <1>1, <2>2 DEF Lines, UpTo
<1> HIDE DEF Rec
<1>4. \E f : Rec(f)
  BY <1>1, <1>3, LinesExist
<1>5. Rec(g)
  BY <1>4
<1>6. QED
  BY <1>1, <1>2, <1>3, <1>5

(* Every message ends with the end of a line.                              *)
EndsWithEOR(t) == Len(t) \in Nat \ {0} /\ t[Len(t)] = EOR

LEMMA ConcatEnds ==
    ASSUME NEW s \in Text, NEW t \in Text, EndsWithEOR(t)
    PROVE  s \o t \in Text /\ EndsWithEOR(s \o t)
<1>1. /\ s \o t \in Text /\ Len(s \o t) = Len(s) + Len(t)
      /\ \A i \in 1 .. Len(s) + Len(t) :
             (s \o t)[i] = IF i <= Len(s) THEN s[i] ELSE t[i - Len(s)]
  BY ConcatProperties DEF Text
<1>2. Len(s) \in Nat /\ Len(t) \in Nat \ {0} /\ t[Len(t)] = EOR
  BY LenProperties DEF Text, EndsWithEOR
<1>3. Len(s) + Len(t) \in 1 .. Len(s) + Len(t) /\ ~(Len(s) + Len(t) <= Len(s))
      /\ Len(s) + Len(t) - Len(s) = Len(t)
  BY <1>2
<1>4. (s \o t)[Len(s) + Len(t)] = EOR
  BY <1>1, <1>2, <1>3
<1>5. QED
  BY <1>1, <1>2, <1>3, <1>4 DEF EndsWithEOR

LEMMA EORIsText == <<EOR>> \in Text /\ EOM \in Text /\ EndsWithEOR(<<EOR>>) /\ EndsWithEOR(EOM)
<1>1. <<EOR>> \in Text /\ EOM \in Text
  BY DEF Text, Token, EOM
<1>2. EndsWithEOR(<<EOR>>) /\ EndsWithEOR(EOM)
  BY DEF EndsWithEOR, EOM
<1>3. QED
  BY <1>1, <1>2

LEMMA ActionPrints ==
    ASSUME TypeOK
    PROVE  ActionToString \in Text /\ EndsWithEOR(ActionToString)
<1>1. PICK f : Lines(f, Printed) /\ ToString = f[Len(Printed)] \o <<EOR>>
  BY ToStringIs
<1>2. f[Len(Printed)] \in Text
  <2>1. Len(Printed) \in 0 .. Len(Printed) /\ Printed \in Seq(Text)
    BY PrintedTyping
  <2>2. QED
    BY <1>1, <2>1, LinesAre
<1>3. ToString \in Text /\ EndsWithEOR(ToString)
  BY <1>1, <1>2, EORIsText, ConcatEnds
<1>4. ActionKey \in Text /\ ActionIDKey \in Text /\ create_uuid \in Text
  <2>1. {"Action", "ActionID", "uuid"} \subseteq Token
    BY WordAssumption DEF LibraryWords, Token
  <2>2. QED
    BY <2>1 DEF Text, ActionKey, ActionIDKey, create_uuid
<1>5. Line(ActionKey, action_) \in Text /\ Line(ActionIDKey, create_uuid) \in Text
  BY <1>4, LineTyping DEF TypeOK
<1>6. Line(ActionKey, action_) \o Line(ActionIDKey, create_uuid) \in Text
  BY <1>5, ConcatProperties DEF Text
<1>7. QED
  BY <1>3, <1>6, ConcatEnds DEF ActionToString

-----------------------------------------------------------------------------
(* The loop of set_message stands at the end of a line whenever it begins  *)
(* a pass, because the text ends with one: key_beg never starts over.      *)
TextEnds == doing \in {"parsing", "parsed"} => EndsWithEOR(text)

ParseInv == TypeOK /\ TextEnds /\ doing # "endless"

LEMMA InitParse == Init => ParseInv
<1> SUFFICES ASSUME Init PROVE ParseInv
  OBVIOUS
<1>1. CASE doing = "parsing"
  <2>1. /\ text \in UNION {Dispatched(lines) : lines \in Received}
        /\ ordered_keys_ = <<>> /\ values_ = NoValues /\ action_ = <<>> /\ key_beg = 1
    BY <1>1 DEF Init
  <2>2. PICK lines \in Received : text = lines \o EOM
    BY <2>1 DEF Dispatched
  <2>3. text \in Text /\ EndsWithEOR(text)
    BY <2>2, ReceivedAssumption, EORIsText, ConcatEnds
  <2>4. <<>> \in Text /\ <<>> \in Seq(Text)
    BY DEF Text
  <2>5. DOMAIN values_ = {}
    BY <2>1 DEF NoValues
  <2>6. key_beg \in 1 .. Len(text) + 1 /\ ~(key_beg > 1)
    BY <2>1, <2>3 DEF EndsWithEOR
  <2>7. QED
    BY <1>1, <2>1, <2>3, <2>4, <2>5, <2>6 DEF ParseInv, TypeOK, TextEnds
<1>2. CASE doing # "parsing"
  <2>1. PICK a \in Actions :
           /\ doing = "building" /\ text = <<>> /\ key_beg = 1
           /\ ordered_keys_ = a.keys /\ values_ = a.values /\ action_ = a.action
    BY <1>2 DEF Init
  <2>2. Declared(a)
    BY ActionsDeclareTheirKeys
  <2>3. OneWord \subseteq Text /\ Value \subseteq Text /\ <<>> \in Text
    BY WordsAreValues DEF Value
  <2>4. a.keys \in Seq(DeclaredKey) /\ a.action \in Text
    BY <2>2, <2>3 DEF Declared
  <2>5. a.keys \in Seq(Text)
    <3>1. DeclaredKey \subseteq Text
      BY <2>3 DEF DeclaredKey
    <3>2. QED
      BY <2>4, <3>1, SeqDef
  <2>6. \A k \in DOMAIN a.values : k \in Text /\ a.values[k] \in Text
    <3>1. Range(a.keys) \subseteq Text
      BY <2>5, LenProperties, ElementOfSeq DEF Range
    <3>2. QED
      BY <2>2, <2>3, <3>1 DEF Declared
  <2>7. key_beg \in 1 .. Len(text) + 1 /\ ~(key_beg > 1)
    BY <2>1
  <2>8. QED
    BY <2>1, <2>3, <2>4, <2>5, <2>6, <2>7 DEF ParseInv, TypeOK, TextEnds
<1>3. QED
  BY <1>1, <1>2

LEMMA PutTyping ==
    ASSUME TypeOK, NEW key \in Text, NEW val \in Text
    PROVE  \A k \in DOMAIN Put(values_, key, val) : k \in Text /\ Put(values_, key, val)[k] \in Text
BY DEF TypeOK, Put

(* A pass takes a key and a value out of the text and goes on behind the   *)
(* end of the value's line.                                                *)
LEMMA PassGoesOn ==
    ASSUME ParseInv, ParseLine
    PROVE  /\ Find(EOR, Find(SEP, key_beg) + 1) \in key_beg + 1 .. Len(text)
           /\ text[Find(EOR, Find(SEP, key_beg) + 1)] = EOR
<1> DEFINE key_end == Find(SEP, key_beg)
           val_end == Find(EOR, key_end + 1)
<1>1. /\ key_beg \in Nat \ {0} /\ key_end # NPos /\ text \in Text
      /\ EndsWithEOR(text)
  BY DEF ParseInv, TypeOK, TextEnds, ParseLine
<1>2. Len(text) \in Nat /\ key_end \in key_beg .. Len(text) /\ text[key_end] = SEP
  BY <1>1, Finds
<1> HIDE DEF key_end
<1>3. key_end + 1 \in Nat \ {0}
  BY <1>1, <1>2
<1>4. /\ val_end \in {NPos} \cup key_end + 1 .. Len(text)
      /\ val_end = NPos => \A i \in key_end + 1 .. Len(text) : text[i] # EOR
      /\ val_end # NPos => text[val_end] = EOR
  BY <1>1, <1>3, Finds
<1> HIDE DEF val_end
<1>5. val_end # NPos
  <2>1. Len(text) # key_end /\ text[Len(text)] = EOR /\ Len(text) \in Nat \ {0}
    BY <1>1, <1>2, DelimiterAssumption DEF EndsWithEOR
  <2>2. Len(text) \in key_end + 1 .. Len(text)
    BY <1>1, <1>2, <2>1
  <2>3. QED
    BY <1>4, <2>1, <2>2
<1>6. QED
  BY <1>1, <1>2, <1>4, <1>5 DEF key_end, val_end

LEMMA StepKeepsParse == ParseInv /\ [Next]_vars => ParseInv'
<1> SUFFICES ASSUME ParseInv, [Next]_vars PROVE ParseInv'
  OBVIOUS
<1>1. CASE ParseLine
  <2> DEFINE key_end == Find(SEP, key_beg)
             val_end == Find(EOR, key_end + 1)
             key     == SubSeq(text, key_beg, key_end - 1)
             val     == SubSeq(text, key_end + 1, val_end - 1)
  <2>1. /\ val_end \in key_beg + 1 .. Len(text) /\ text[val_end] = EOR
        /\ key_beg \in Nat \ {0} /\ text \in Text /\ Len(text) \in Nat
        /\ key_end \in key_beg .. Len(text)
    <3>1. key_beg \in Nat \ {0} /\ text \in Text /\ key_end # NPos
      BY <1>1 DEF ParseInv, TypeOK, ParseLine
    <3>2. QED
      BY <1>1, <3>1, PassGoesOn, Finds
  <2>2. val_end # NPos
    BY <2>1 DEF NPos
  <2>3. /\ ordered_keys_' = Append(ordered_keys_, key)
        /\ values_' = Emplace(values_, key, val)
        /\ key_beg' = val_end + 1
        /\ doing' = doing /\ doing = "parsing" /\ text' = text /\ action_' = action_
    BY <1>1, <2>2 DEF ParseLine
  <2>4. key \in Text /\ val \in Text
    <3>1. key_beg \in 1 .. Len(text) + 1 /\ key_end + 1 \in 1 .. Len(text) + 1
          /\ key_end - 1 \in key_beg - 1 .. Len(text)
      BY <2>1
    <3>2. val_end - 1 \in key_end .. Len(text)
      <4>1. /\ key_end + 1 \in Nat \ {0}
            /\ val_end \in {NPos} \cup key_end + 1 .. Len(text)
        <5>1. key_end + 1 \in Nat \ {0}
          BY <2>1
        <5>2. QED
          BY <2>1, <5>1, Finds
      <4>2. QED
        BY <2>1, <2>2, <4>1
    <3> HIDE DEF key_end, val_end
    <3>3. \A i \in key_beg .. key_end - 1 : text[i] \in Token
      BY <2>1, <3>1, ElementOfSeq DEF Text
    <3>4. \A i \in key_end + 1 .. val_end - 1 : text[i] \in Token
      BY <2>1, <3>1, <3>2, ElementOfSeq DEF Text
    <3>5. QED
      BY <2>1, <3>1, <3>2, <3>3, <3>4, SubSeqProperties DEF Text
  <2> HIDE DEF key, val, key_end, val_end
  <2>5. ordered_keys_' \in Seq(Text)
    BY <2>3, <2>4, AppendProperties DEF ParseInv, TypeOK
  <2>6. \A k \in DOMAIN values_' : k \in Text /\ values_'[k] \in Text
    <3>1. TypeOK
      BY DEF ParseInv
    <3>2. CASE key \in DOMAIN values_
      BY <2>3, <3>1, <3>2 DEF Emplace, TypeOK
    <3>3. CASE key \notin DOMAIN values_
      BY <2>3, <2>4, <3>1, <3>3, PutTyping DEF Emplace
    <3>4. QED
      BY <3>2, <3>3
  <2>7. key_beg' \in 1 .. Len(text') + 1 /\ text'[key_beg' - 1] = EOR
    BY <2>1, <2>3
  <2>8. QED
    BY <2>3, <2>5, <2>6, <2>7 DEF ParseInv, TypeOK, TextEnds
<1>2. CASE ParseEnd
  BY <1>2 DEF ParseEnd, ParseInv, TypeOK, TextEnds
<1>3. ASSUME NEW key, NEW val \in Text, doing = "building",
             values_' = IF HasKey(key) THEN Put(values_, key, val) ELSE values_,
             UNCHANGED <<doing, text, key_beg, ordered_keys_, action_>>
      PROVE  ParseInv'
  <2>1. TypeOK
    BY DEF ParseInv
  <2>2. \A k \in DOMAIN values_' : k \in Text /\ values_'[k] \in Text
    <3>1. CASE HasKey(key)
      <4>1. key \in Text
        BY <2>1, <3>1, LenProperties, ElementOfSeq DEF TypeOK, HasKey, Range
      <4>2. QED
        BY <1>3, <2>1, <3>1, <4>1, PutTyping
    <3>2. CASE ~HasKey(key)
      BY <1>3, <2>1, <3>2 DEF TypeOK
    <3>3. QED
      BY <3>1, <3>2
  <2>3. QED
    BY <1>3, <2>2 DEF ParseInv, TypeOK, TextEnds
<1>4. ASSUME NEW key, NEW val \in Values, SetValue(key, val) PROVE ParseInv'
  BY <1>3, <1>4, ValuesAssumption DEF SetValue
<1>5. ASSUME NEW key, Subscript(key) PROVE ParseInv'
  <2>1. At(key) \in Text
    BY WordsAreValues DEF ParseInv, TypeOK, At, Value
  <2>2. QED
    BY <1>3, <1>5, <2>1 DEF Subscript
<1>6. CASE Send
  <2>1. /\ doing' = "parsing" /\ text' = ActionToString /\ key_beg' = 1
        /\ ordered_keys_' = <<>> /\ values_' = NoValues /\ action_' = <<>>
    BY <1>6 DEF Send
  <2>2. text' \in Text /\ EndsWithEOR(text')
    BY <2>1, ActionPrints DEF ParseInv
  <2>3. <<>> \in Text /\ <<>> \in Seq(Text) /\ DOMAIN NoValues = {}
    BY DEF Text, NoValues
  <2>4. key_beg' \in 1 .. Len(text') + 1 /\ ~(key_beg' > 1)
    BY <2>1, <2>2 DEF EndsWithEOR
  <2>5. TypeOK'
    BY <2>1, <2>2, <2>3, <2>4 DEF TypeOK
  <2>6. QED
    BY <2>1, <2>2, <2>5 DEF ParseInv, TextEnds
<1>7. CASE UNCHANGED vars
  BY <1>7 DEF vars, ParseInv, TypeOK, TextEnds
<1>8. QED
  BY <1>1, <1>2, <1>4, <1>5, <1>6, <1>7 DEF Next

LEMMA Parses == Spec => []ParseInv
  BY InitParse, StepKeepsParse, PTL DEF Spec

(* The types, and that set_message begins every pass where a line begins,  *)
(* for all messages and all values.                                        *)
THEOREM Typing == Spec => []TypeOK
<1>1. ParseInv => TypeOK
  BY DEF ParseInv
<1>2. QED
  BY <1>1, Parses, PTL

(* No message makes the loop of set_message start over: npos + 2 is never  *)
(* computed, because what is dispatched and what is printed ends a line.   *)
THEOREM NeverStartsOver == Spec => [](doing # "endless")
<1>1. ParseInv => doing # "endless"
  BY DEF ParseInv
<1>2. QED
  BY <1>1, Parses, PTL

-----------------------------------------------------------------------------
(* A text of lines, one behind the other, that ends with an empty line:    *)
(* line n has the key ks[n] and the value vs[n] and ends at at[n].         *)
LineAt(t, k, v, from, to) ==
    /\ to = from + Len(v) + 3
    /\ t[from + 1] = k[1] /\ t[from + 2] = SEP
    /\ \A j \in 1 .. Len(v) : t[from + 2 + j] = v[j]
    /\ t[to] = EOR

LaidOut(t, ks, vs, at) ==
    /\ at \in [0 .. Len(ks) -> Nat] /\ at[0] = 0
    /\ \A n \in 1 .. Len(ks) : LineAt(t, ks[n], vs[n], at[n - 1], at[n])
    /\ Len(t) = at[Len(ks)] + 1 /\ t[Len(t)] = EOR

KeysAndValues(ks, vs) ==
    /\ Len(ks) \in Nat \ {0}
    /\ \A n \in 1 .. Len(ks) : ks[n] \in OneWord /\ vs[n] \in Text

OneLiners(ks, vs) == \A n \in 1 .. Len(ks) : vs[n] \in Value

LEMMA LineBegins ==
    ASSUME NEW t, NEW k \in OneWord, NEW v \in Text, NEW from \in Nat, NEW to \in Nat,
           LineAt(t, k, v, from, to)
    PROVE  Len(v) \in Nat /\ to > from /\ t[from + 1] # EOR /\ t[from + 1] # SEP
<1>1. Len(v) \in Nat
  BY LenProperties DEF Text
<1>2. t[from + 1] # EOR /\ t[from + 1] # SEP
  <2>1. k[1] \in Word
    BY DEF OneWord
  <2>2. QED
    BY <2>1, WordAssumption DEF LineAt
<1>3. to > from
  BY <1>1 DEF LineAt
<1>4. QED
  BY <1>1, <1>2, <1>3

LEMMA NoEORInside ==
    ASSUME NEW t, NEW k \in OneWord, NEW v \in Value, NEW from \in Nat, NEW to \in Nat,
           LineAt(t, k, v, from, to)
    PROVE  /\ Len(v) \in Nat /\ to > from /\ t[from + 1] # EOR /\ t[from + 1] # SEP
           /\ \A i \in from + 1 .. to - 1 : t[i] # EOR
<1>1. /\ Len(v) \in Nat /\ \A j \in 1 .. Len(v) : v[j] # EOR
  BY LenProperties DEF Value, Text, Range
<1>2. to > from /\ t[from + 1] # EOR /\ t[from + 1] # SEP
  <2>1. v \in Text
    BY WordsAreValues
  <2>2. QED
    BY <2>1, LineBegins
<1>3. ASSUME NEW i \in from + 1 .. to - 1 PROVE t[i] # EOR
  <2>1. to = from + Len(v) + 3 /\ t[from + 2] = SEP
        /\ \A j \in 1 .. Len(v) : t[from + 2 + j] = v[j]
    BY DEF LineAt
  <2>2. CASE i <= from + 2
    <3>1. i = from + 1 \/ i = from + 2
      BY <2>2
    <3>2. QED
      BY <1>2, <2>1, <3>1, DelimiterAssumption
  <2>3. CASE i > from + 2
    <3>1. i - (from + 2) \in 1 .. Len(v) /\ from + 2 + (i - (from + 2)) = i
      BY <1>1, <2>1, <2>3
    <3>2. t[i] = v[i - (from + 2)]
      BY <2>1, <3>1
    <3>3. QED
      BY <1>1, <3>1, <3>2
  <2>4. QED
    BY <2>2, <2>3
<1>4. QED
  BY <1>1, <1>2, <1>3

(* Every position but the last is in one of the lines.                     *)
LEMMA Covered ==
    ASSUME NEW t, NEW ks, NEW vs, NEW at, LaidOut(t, ks, vs, at), KeysAndValues(ks, vs),
           NEW i \in 1 .. at[Len(ks)]
    PROVE  \E n \in 1 .. Len(ks) : at[n - 1] < i /\ i <= at[n]
<1> DEFINE after == {n \in 0 .. Len(ks) : i <= at[n]}
<1>1. Len(ks) \in Nat /\ at[0] = 0 /\ at[Len(ks)] \in Nat /\ \A n \in 0 .. Len(ks) : at[n] \in Nat
  <2>1. Len(ks) \in Nat
    BY DEF KeysAndValues
  <2>2. at \in [0 .. Len(ks) -> Nat] /\ at[0] = 0
    BY DEF LaidOut
  <2>3. Len(ks) \in 0 .. Len(ks)
    BY <2>1
  <2>4. QED
    BY <2>1, <2>2, <2>3
<1>2. after \in SUBSET Nat /\ Len(ks) \in after
  BY <1>1
<1>3. PICK n \in after : \A m \in after : n <= m
  BY <1>2, LeastOf
<1>4. n \in 0 .. Len(ks) /\ i <= at[n]
  BY <1>3
<1>5. n # 0
  BY <1>1, <1>4
<1>6. n \in 1 .. Len(ks) /\ n - 1 \in 0 .. Len(ks) /\ ~(n <= n - 1)
  BY <1>1, <1>4, <1>5
<1>7. n - 1 \notin after
  BY <1>3, <1>6
<1>8. at[n - 1] < i
  BY <1>1, <1>6, <1>7
<1>9. QED
  BY <1>4, <1>6, <1>8

(* With every value on one line such a text is one message: the first      *)
(* empty line is the last.                                                 *)
LEMMA LaidOutIsOneMessage ==
    ASSUME NEW t \in Text, NEW ks, NEW vs, NEW at, LaidOut(t, ks, vs, at), KeysAndValues(ks, vs),
           OneLiners(ks, vs)
    PROVE  FirstMessage(t)
<1> DEFINE N == Len(ks)
<1>1. /\ N \in Nat \ {0} /\ at[N] \in Nat /\ \A n \in 0 .. N : at[n] \in Nat
      /\ Len(t) = at[N] + 1 /\ t[Len(t)] = EOR /\ DOMAIN t = 1 .. Len(t)
      /\ \A n \in 1 .. N : LineAt(t, ks[n], vs[n], at[n - 1], at[n]) /\ ks[n] \in OneWord /\ vs[n] \in Value
  <2>1. N \in Nat \ {0} /\ \A n \in 1 .. N : ks[n] \in OneWord /\ vs[n] \in Value
    BY DEF KeysAndValues, OneLiners
  <2>2. DOMAIN t = 1 .. Len(t)
    BY LenProperties DEF Text
  <2>3. QED
    BY <2>1, <2>2 DEF LaidOut
<1>2. \A n \in 1 .. N : n - 1 \in 0 .. N /\ n \in 0 .. N
  BY <1>1
<1>3. ASSUME NEW n \in 1 .. N
      PROVE  /\ at[n] > at[n - 1] /\ t[at[n]] = EOR /\ t[at[n - 1] + 1] # EOR
             /\ \A i \in at[n - 1] + 1 .. at[n] - 1 : t[i] # EOR
  <2>1. /\ at[n - 1] \in Nat /\ at[n] \in Nat /\ ks[n] \in OneWord /\ vs[n] \in Value
        /\ LineAt(t, ks[n], vs[n], at[n - 1], at[n])
    BY <1>1, <1>2
  <2>2. t[at[n]] = EOR
    BY <2>1 DEF LineAt
  <2>3. QED
    BY <2>1, <2>2, NoEORInside, Zenon
<1>4. ASSUME NEW i \in DOMAIN t, EndsMessage(t, i) PROVE i = Len(t) - 1
  <2>1. i \in 1 .. at[N] /\ t[i] = EOR /\ t[i + 1] = EOR
    BY <1>1, <1>4 DEF EndsMessage
  <2>2. PICK n \in 1 .. N : at[n - 1] < i /\ i <= at[n]
    BY <2>1, Covered
  <2>3. at[n - 1] \in Nat /\ at[n] \in Nat
    BY <1>1, <1>2
  <2>4. i = at[n]
    BY <1>3, <2>1, <2>2, <2>3
  <2>5. n = N
    <3>1. ASSUME n # N PROVE FALSE
      <4>1. n + 1 \in 1 .. N /\ n + 1 - 1 = n
        BY <1>1, <3>1
      <4>2. t[at[n] + 1] # EOR
        BY <1>3, <4>1
      <4>3. QED
        BY <2>1, <2>4, <4>2
    <3>2. QED
      BY <3>1
  <2>6. QED
    BY <1>1, <2>4, <2>5
<1>5. ASSUME NEW i \in DOMAIN t, i = Len(t) - 1 PROVE EndsMessage(t, i)
  <2>1. i = at[N] /\ i + 1 = Len(t) /\ i < Len(t) /\ N \in 1 .. N
    BY <1>1, <1>5
  <2>2. QED
    BY <1>1, <1>3, <2>1 DEF EndsMessage
<1>6. QED
  BY <1>4, <1>5 DEF FirstMessage

(* A prefix of the lines is a prefix of the text.                          *)
Follows(before, l, after) ==
    /\ Len(before) \in Nat /\ Len(l) \in Nat
    /\ Len(after) = Len(before) + Len(l)
    /\ \A j \in 1 .. Len(before) : after[j] = before[j]
    /\ \A j \in 1 .. Len(l) : after[Len(before) + j] = l[j]

LEMMA ConcatText ==
    ASSUME NEW s \in Text, NEW t \in Text
    PROVE  s \o t \in Text /\ Follows(s, t, s \o t)
<1>1. /\ s \o t \in Text /\ Len(s) \in Nat /\ Len(t) \in Nat
      /\ Len(s \o t) = Len(s) + Len(t)
      /\ \A i \in 1 .. Len(s) + Len(t) :
             (s \o t)[i] = IF i <= Len(s) THEN s[i] ELSE t[i - Len(s)]
  BY ConcatProperties, LenProperties DEF Text
<1>2. ASSUME NEW j \in 1 .. Len(s) PROVE (s \o t)[j] = s[j]
  BY <1>1
<1>3. ASSUME NEW j \in 1 .. Len(t) PROVE (s \o t)[Len(s) + j] = t[j]
  <2>1. /\ Len(s) + j \in 1 .. Len(s) + Len(t) /\ ~(Len(s) + j <= Len(s))
        /\ Len(s) + j - Len(s) = j
    BY <1>1
  <2>2. QED
    BY <1>1, <2>1
<1>4. QED
  BY <1>1, <1>2, <1>3 DEF Follows

LEMMA LineFollows ==
    ASSUME NEW p \in Seq(Text), NEW f, Lines(f, p), NEW n \in 1 .. Len(p)
    PROVE  Follows(f[n - 1], p[n], f[n])
<1>1. /\ n - 1 \in 0 .. Len(p) /\ n \in 0 .. Len(p) /\ p[n] \in Text /\ Len(p) \in Nat
  <2>1. Len(p) \in Nat /\ p[n] \in Text
    BY LenProperties, ElementOfSeq
  <2>2. QED
    BY <2>1
<1>2. f[n] \in Text /\ f[n - 1] \in Text /\ f[n] = f[n - 1] \o p[n]
  BY <1>1, LinesAre
<1>3. QED
  BY <1>1, <1>2, ConcatText

Begins(s, t) == Len(s) <= Len(t) /\ \A j \in 1 .. Len(s) : t[j] = s[j]

LEMMA LinesGrow ==
    ASSUME NEW p \in Seq(Text), NEW f, Lines(f, p), NEW m \in 0 .. Len(p), NEW n \in m .. Len(p)
    PROVE  Begins(f[m], f[n])
<1> DEFINE bad == {i \in m .. Len(p) : ~Begins(f[m], f[i])}
<1>1. Len(p) \in Nat /\ m \in Nat /\ Len(f[m]) \in Nat
  <2>1. Len(p) \in Nat /\ f[m] \in Text
    BY LinesAre, LenProperties
  <2>2. QED
    BY <2>1, LenProperties DEF Text
<1>2. ASSUME bad # {} PROVE FALSE
  <2>1. bad \in SUBSET Nat
    BY <1>1
  <2>2. PICK i \in bad : \A k \in bad : i <= k
    BY <1>2, <2>1, LeastOf
  <2>3. i \in m .. Len(p) /\ ~Begins(f[m], f[i])
    BY <2>2
  <2>4. i # m
    BY <1>1, <2>3 DEF Begins
  <2>5. i - 1 \in m .. Len(p) /\ ~(i <= i - 1) /\ i \in 1 .. Len(p)
    BY <1>1, <2>3, <2>4
  <2>6. Begins(f[m], f[i - 1])
    BY <2>2, <2>5
  <2>7. /\ Len(f[i - 1]) \in Nat /\ Len(p[i]) \in Nat /\ Len(f[i]) = Len(f[i - 1]) + Len(p[i])
        /\ \A j \in 1 .. Len(f[i - 1]) : f[i][j] = f[i - 1][j]
    <3>1. Follows(f[i - 1], p[i], f[i])
      BY <2>5, LineFollows
    <3>2. QED
      BY <3>1 DEF Follows
  <2>8. Len(f[m]) <= Len(f[i]) /\ 1 .. Len(f[m]) \subseteq 1 .. Len(f[i - 1])
    <3> DEFINE a == Len(f[m])
               b == Len(f[i - 1])
               c == Len(p[i])
               d == Len(f[i])
    <3>1. a \in Nat /\ b \in Nat /\ c \in Nat /\ d = b + c /\ a <= b
      BY <1>1, <2>6, <2>7 DEF Begins
    <3> HIDE DEF a, b, c, d
    <3>2. a <= d /\ 1 .. a \subseteq 1 .. b
      BY <3>1
    <3>3. QED
      BY <3>2 DEF a, b, d
  <2>9. \A j \in 1 .. Len(f[m]) : f[i][j] = f[m][j]
    BY <2>6, <2>7, <2>8 DEF Begins
  <2>10. QED
    BY <2>3, <2>8, <2>9 DEF Begins
<1>3. QED
  BY <1>2

(* What is printed: line n of p begins behind the first n - 1 lines.       *)
PlacedIn(t, before, l, after) ==
    /\ Len(before) \in Nat /\ Len(l) \in Nat
    /\ Len(after) = Len(before) + Len(l)
    /\ Len(after) <= Len(t)
    /\ \A j \in 1 .. Len(l) : t[Len(before) + j] = l[j]

LEMMA LinesArePlaced ==
    ASSUME NEW p \in Seq(Text), NEW f, Lines(f, p), NEW n \in 1 .. Len(p)
    PROVE  PlacedIn(f[Len(p)], f[n - 1], p[n], f[n])
<1>1. /\ Len(f[n - 1]) \in Nat /\ Len(p[n]) \in Nat /\ n \in 0 .. Len(p) /\ Len(p) \in Nat
      /\ Len(f[n]) = Len(f[n - 1]) + Len(p[n])
      /\ \A j \in 1 .. Len(p[n]) : f[n][Len(f[n - 1]) + j] = p[n][j]
  <2>1. Follows(f[n - 1], p[n], f[n])
    BY LineFollows
  <2>2. n \in 0 .. Len(p) /\ Len(p) \in Nat
    BY LenProperties
  <2>3. QED
    BY <2>1, <2>2 DEF Follows
<1>2. Len(f[n]) <= Len(f[Len(p)]) /\ \A j \in 1 .. Len(f[n]) : f[Len(p)][j] = f[n][j]
  <2>1. Len(p) \in n .. Len(p)
    BY <1>1
  <2>2. Begins(f[n], f[Len(p)])
    BY <1>1, <2>1, LinesGrow
  <2>3. QED
    BY <2>2 DEF Begins
<1>3. ASSUME NEW j \in 1 .. Len(p[n]) PROVE f[Len(p)][Len(f[n - 1]) + j] = p[n][j]
  <2>1. Len(f[n - 1]) + j \in 1 .. Len(f[n])
    <3> DEFINE a == Len(f[n - 1])
               b == Len(p[n])
               c == Len(f[n])
    <3>1. a \in Nat /\ b \in Nat /\ c = a + b /\ j \in 1 .. b
      BY <1>1
    <3> HIDE DEF a, b, c
    <3>2. a + j \in 1 .. c
      BY <3>1
    <3>3. QED
      BY <3>2 DEF a, c
  <2>2. QED
    BY <1>1, <1>2, <2>1
<1>4. QED
  BY <1>1, <1>2, <1>3 DEF PlacedIn

LEMMA PlacedLine ==
    ASSUME NEW t, NEW k \in OneWord, NEW v \in Text, NEW from \in Nat,
           \A j \in 1 .. Len(Line(k, v)) : t[from + j] = Line(k, v)[j]
    PROVE  Len(Line(k, v)) \in Nat /\ LineAt(t, k, v, from, from + Len(Line(k, v)))
<1> DEFINE l == Line(k, v)
<1>1. /\ Len(l) = Len(v) + 3 /\ Len(v) \in Nat
      /\ l[1] = k[1] /\ l[2] = SEP
      /\ \A j \in 1 .. Len(v) : l[2 + j] = v[j]
      /\ l[Len(v) + 3] = EOR
  BY LineIs, WordsAreValues
<1>2. \A j \in 1 .. Len(l) : t[from + j] = l[j]
  OBVIOUS
<1> HIDE DEF l
<1>3. Len(l) \in Nat /\ from + Len(l) = from + Len(v) + 3
  BY <1>1
<1>4. 1 \in 1 .. Len(l) /\ 2 \in 1 .. Len(l) /\ Len(v) + 3 \in 1 .. Len(l)
  BY <1>1
<1>5. t[from + 1] = k[1] /\ t[from + 2] = SEP /\ t[from + Len(l)] = EOR
  BY <1>1, <1>2, <1>4
<1>6. ASSUME NEW j \in 1 .. Len(v) PROVE t[from + 2 + j] = v[j]
  <2>1. 2 + j \in 1 .. Len(l) /\ from + (2 + j) = from + 2 + j
    BY <1>1
  <2>2. t[from + (2 + j)] = l[2 + j]
    BY <1>2, <2>1
  <2>3. QED
    BY <1>1, <2>1, <2>2
<1>7. LineAt(t, k, v, from, from + Len(l))
  BY <1>3, <1>5, <1>6 DEF LineAt
<1>8. QED
  BY <1>3, <1>7 DEF l

LEMMA PrefixOfTwo ==
    ASSUME NEW S, NEW x \in S, NEW y \in S, NEW s \in Seq(S)
    PROVE  /\ <<x, y>> \o s \in Seq(S) /\ Len(s) \in Nat /\ Len(<<x, y>> \o s) = Len(s) + 2
           /\ (<<x, y>> \o s)[1] = x /\ (<<x, y>> \o s)[2] = y
           /\ \A n \in 1 .. Len(s) : (<<x, y>> \o s)[n + 2] = s[n]
<1> DEFINE h == <<x, y>>
<1>1. h \in Seq(S) /\ Len(h) = 2 /\ h[1] = x /\ h[2] = y /\ Len(s) \in Nat
  BY LenProperties
<1> HIDE DEF h
<1>2. /\ h \o s \in Seq(S) /\ Len(h \o s) = Len(h) + Len(s)
      /\ \A i \in 1 .. Len(h) + Len(s) : (h \o s)[i] = IF i <= Len(h) THEN h[i] ELSE s[i - Len(h)]
  BY <1>1, ConcatProperties
<1>3. (h \o s)[1] = x /\ (h \o s)[2] = y
  <2>1. 1 \in 1 .. Len(h) + Len(s) /\ 2 \in 1 .. Len(h) + Len(s) /\ 1 <= Len(h) /\ 2 <= Len(h)
    BY <1>1
  <2>2. QED
    BY <1>1, <1>2, <2>1
<1>4. ASSUME NEW n \in 1 .. Len(s) PROVE (h \o s)[n + 2] = s[n]
  <2>1. n + 2 \in 1 .. Len(h) + Len(s) /\ ~(n + 2 <= Len(h)) /\ n + 2 - Len(h) = n
    BY <1>1
  <2>2. QED
    BY <1>2, <2>1
<1>5. QED
  BY <1>1, <1>2, <1>3, <1>4 DEF h

-----------------------------------------------------------------------------
(* What an action that was printed had: the keys and values of its text.   *)
SentKeys(s)   == <<ActionKey, ActionIDKey>> \o s.keys
SentValues(s) == <<s.action, create_uuid>> \o s.values

SentTypes(s) ==
    /\ s.action \in OneWord
    /\ s.keys \in Seq(DeclaredKey) /\ s.values \in Seq(Text) /\ Len(s.values) = Len(s.keys)
    /\ \A i, j \in 1 .. Len(s.keys) : s.keys[i] = s.keys[j] => s.values[i] = s.values[j]

LEMMA SentIs ==
    ASSUME NEW s, SentTypes(s)
    PROVE  /\ Len(s.keys) \in Nat /\ Len(SentKeys(s)) = Len(s.keys) + 2
           /\ SentKeys(s)[1] = ActionKey /\ SentKeys(s)[2] = ActionIDKey
           /\ SentValues(s)[1] = s.action /\ SentValues(s)[2] = create_uuid
           /\ \A n \in 1 .. Len(s.keys) :
                  SentKeys(s)[n + 2] = s.keys[n] /\ SentValues(s)[n + 2] = s.values[n]
           /\ SentKeys(s) \in Seq(OneWord) /\ SentValues(s) \in Seq(Text)
<1>1. ActionKey \in OneWord /\ ActionIDKey \in OneWord /\ create_uuid \in Text /\ s.action \in Text
  <2>1. {"Action", "ActionID", "uuid"} \subseteq Word
    BY WordAssumption DEF LibraryWords
  <2>2. ActionKey \in OneWord /\ ActionIDKey \in OneWord /\ create_uuid \in OneWord
    BY <2>1 DEF OneWord, ActionKey, ActionIDKey, create_uuid
  <2>3. QED
    BY <2>2, WordsAreValues DEF SentTypes
<1>2. s.keys \in Seq(OneWord)
  <2>1. DeclaredKey \subseteq OneWord /\ s.keys \in Seq(DeclaredKey)
    BY DEF DeclaredKey, SentTypes
  <2>2. QED
    BY <2>1, SeqDef
<1>3. /\ SentKeys(s) \in Seq(OneWord) /\ Len(s.keys) \in Nat /\ Len(SentKeys(s)) = Len(s.keys) + 2
      /\ SentKeys(s)[1] = ActionKey /\ SentKeys(s)[2] = ActionIDKey
      /\ \A n \in 1 .. Len(s.keys) : SentKeys(s)[n + 2] = s.keys[n]
  BY <1>1, <1>2, PrefixOfTwo DEF SentKeys
<1>4. /\ SentValues(s) \in Seq(Text)
      /\ SentValues(s)[1] = s.action /\ SentValues(s)[2] = create_uuid
      /\ \A n \in 1 .. Len(s.values) : SentValues(s)[n + 2] = s.values[n]
  <2>1. s.values \in Seq(Text)
    BY DEF SentTypes
  <2>2. QED
    BY <1>1, <2>1, PrefixOfTwo DEF SentValues
<1>5. QED
  BY <1>3, <1>4 DEF SentTypes

LEMMA SentAreOneLiners ==
    ASSUME NEW s, SentTypes(s), \A i \in DOMAIN s.values : OneLine(s.values[i])
    PROVE  OneLiners(SentKeys(s), SentValues(s))
<1> DEFINE ks == SentKeys(s)
           vs == SentValues(s)
           N  == Len(s.keys)
<1>1. /\ N \in Nat /\ Len(ks) = N + 2 /\ vs[1] = s.action /\ vs[2] = create_uuid
      /\ \A n \in 1 .. N : vs[n + 2] = s.values[n]
  BY SentIs
<1>2. vs[1] \in Value /\ vs[2] \in Value
  <2>1. create_uuid \in OneWord
    BY WordAssumption DEF LibraryWords, OneWord, create_uuid
  <2>2. QED
    BY <1>1, <2>1, WordsAreValues DEF SentTypes
<1>3. \A n \in 1 .. N : s.values[n] \in Value
  <2>1. s.values \in Seq(Text) /\ Len(s.values) = N
    BY DEF SentTypes
  <2>2. DOMAIN s.values = 1 .. N /\ \A n \in 1 .. N : s.values[n] \in Text
    BY <2>1, LenProperties, ElementOfSeq
  <2>3. QED
    BY <2>2 DEF OneLine, Value
<1> HIDE DEF ks, vs, N
<1>4. ASSUME NEW n \in 1 .. N + 2 PROVE vs[n] \in Value
  <2>1. CASE n = 1 \/ n = 2
    BY <1>2, <2>1
  <2>2. CASE n # 1 /\ n # 2
    <3>1. n - 2 \in 1 .. N /\ n - 2 + 2 = n
      BY <1>1, <2>2
    <3>2. QED
      BY <1>1, <1>3, <3>1
  <2>3. QED
    BY <2>1, <2>2
<1>5. QED
  BY <1>1, <1>4 DEF OneLiners, ks, vs

(* Equal keys have equal values, in all of the text.                       *)
LEMMA SentIsADictionary ==
    ASSUME NEW s, SentTypes(s)
    PROVE  /\ KeysAndValues(SentKeys(s), SentValues(s))
           /\ \A i, j \in 1 .. Len(SentKeys(s)) :
                  SentKeys(s)[i] = SentKeys(s)[j] => SentValues(s)[i] = SentValues(s)[j]
<1> DEFINE ks == SentKeys(s)
           vs == SentValues(s)
           N  == Len(s.keys)
<1>1. /\ N \in Nat /\ Len(ks) = N + 2 /\ ks[1] = ActionKey /\ ks[2] = ActionIDKey
      /\ \A n \in 1 .. N : ks[n + 2] = s.keys[n] /\ vs[n + 2] = s.values[n]
      /\ ks \in Seq(OneWord) /\ vs \in Seq(Text)
  BY SentIs
<1>2. Len(vs) = N + 2
  <2>1. s.values \in Seq(Text) /\ Len(s.values) = N /\ s.action \in Text /\ create_uuid \in Text
    <3>1. create_uuid \in OneWord
      BY WordAssumption DEF LibraryWords, OneWord, create_uuid
    <3>2. QED
      BY <3>1, WordsAreValues DEF SentTypes
  <2>2. QED
    BY <2>1, PrefixOfTwo DEF SentValues
<1>3. \A n \in 1 .. N : s.keys[n] \in DeclaredKey
  BY ElementOfSeq DEF SentTypes
<1>4. ActionKey # ActionIDKey
  <2>1. "Action" # "ActionID"
    OBVIOUS
  <2>2. QED
    BY <2>1 DEF ActionKey, ActionIDKey
<1> HIDE DEF ks, vs, N
<1>5. KeysAndValues(ks, vs)
  BY <1>1, <1>2, ElementOfSeq DEF KeysAndValues
<1>6. ASSUME NEW i \in 1 .. N + 2, NEW j \in 1 .. N + 2, ks[i] = ks[j] PROVE vs[i] = vs[j]
  <2>1. \A n \in 3 .. N + 2 : n - 2 \in 1 .. N /\ n - 2 + 2 = n
    BY <1>1
  <2>2. \A n \in 3 .. N + 2 : ks[n] = s.keys[n - 2] /\ vs[n] = s.values[n - 2] /\ ks[n] \in DeclaredKey
    BY <1>1, <1>3, <2>1
  <2>3. CASE i \in 3 .. N + 2 /\ j \in 3 .. N + 2
    <3>1. s.keys[i - 2] = s.keys[j - 2] /\ i - 2 \in 1 .. N /\ j - 2 \in 1 .. N
      BY <1>6, <2>1, <2>2, <2>3
    <3>2. s.values[i - 2] = s.values[j - 2]
      BY <3>1 DEF SentTypes, N
    <3>3. QED
      BY <2>2, <2>3, <3>2
  <2>4. CASE i \notin 3 .. N + 2 \/ j \notin 3 .. N + 2
    <3>1. i \in {1, 2} \/ j \in {1, 2}
      BY <1>1, <2>4
    <3>2. ActionKey \notin DeclaredKey /\ ActionIDKey \notin DeclaredKey
      BY DEF DeclaredKey
    <3>3. i = j
      <4>1. i \in {1, 2} \cup 3 .. N + 2 /\ j \in {1, 2} \cup 3 .. N + 2
        BY <1>1
      <4>2. QED
        BY <1>1, <1>4, <1>6, <2>2, <3>1, <3>2, <4>1
    <3>4. QED
      BY <3>3
  <2>5. QED
    BY <2>3, <2>4
<1>7. QED
  BY <1>1, <1>5, <1>6 DEF ks, vs, N

(* While an action is being built its keys are the declared ones.          *)
BuildInv ==
    doing = "building" => /\ action_ \in OneWord /\ ordered_keys_ \in Seq(DeclaredKey)
                          /\ \A k \in DOMAIN values_ : values_[k] \in Text
                          /\ sent = <<>>

LEMMA InitBuild == Init => BuildInv
<1> SUFFICES ASSUME Init, doing = "building" PROVE BuildInv
  BY DEF BuildInv
<1>1. PICK a \in Actions : action_ = a.action /\ ordered_keys_ = a.keys /\ values_ = a.values /\ sent = <<>>
  BY DEF Init
<1>2. Declared(a)
  BY ActionsDeclareTheirKeys
<1>3. QED
  BY <1>1, <1>2 DEF Declared, BuildInv

LEMMA StepKeepsBuild == BuildInv /\ [Next]_vars => BuildInv'
<1> SUFFICES ASSUME BuildInv, [Next]_vars PROVE BuildInv'
  OBVIOUS
<1>1. CASE ParseLine \/ ParseEnd \/ Send
  <2>1. doing' # "building"
    BY <1>1 DEF ParseLine, ParseEnd, Send
  <2>2. QED
    BY <2>1 DEF BuildInv
<1>2. ASSUME NEW key, NEW val \in Text, doing = "building",
             values_' = IF HasKey(key) THEN Put(values_, key, val) ELSE values_,
             UNCHANGED <<doing, ordered_keys_, action_, sent>>
      PROVE  BuildInv'
  <2>1. \A k \in DOMAIN values_' : values_'[k] \in Text
    BY <1>2 DEF BuildInv, Put
  <2>2. QED
    BY <1>2, <2>1 DEF BuildInv
<1>3. ASSUME NEW key, NEW val \in Values, SetValue(key, val) PROVE BuildInv'
  BY <1>2, <1>3, WordsAreValues DEF SetValue
<1>4. ASSUME NEW key, Subscript(key) PROVE BuildInv'
  <2>1. At(key) \in Text
    BY <1>4, WordsAreValues DEF Subscript, BuildInv, At
  <2>2. QED
    BY <1>2, <1>4, <2>1 DEF Subscript
<1>5. CASE UNCHANGED vars
  BY <1>5 DEF vars, BuildInv
<1>6. QED
  BY <1>1, <1>3, <1>4, <1>5 DEF Next

(* The action that Send prints, and its text.                              *)
Sending == [action |-> action_, keys |-> ordered_keys_,
            values |-> [i \in DOMAIN ordered_keys_ |-> At(ordered_keys_[i])]]

LEMMA LenByDomain ==
    ASSUME NEW S, NEW s \in Seq(S), NEW n \in Nat, DOMAIN s = 1 .. n
    PROVE  Len(s) = n
<1>1. Len(s) \in Nat /\ 1 .. Len(s) = 1 .. n
  BY LenProperties
<1> DEFINE l == Len(s)
<1> HIDE DEF l
<1>2. l \in Nat /\ 1 .. l = 1 .. n
  BY <1>1 DEF l
<1>3. ~(l < n)
  <2>1. l < n => n \in 1 .. n /\ n \notin 1 .. l
    BY <1>2
  <2>2. QED
    BY <1>2, <2>1
<1>4. ~(n < l)
  <2>1. n < l => l \in 1 .. l /\ l \notin 1 .. n
    BY <1>2
  <2>2. QED
    BY <1>2, <2>1
<1>5. QED
  BY <1>2, <1>3, <1>4 DEF l

LEMMA SendingTypes ==
    ASSUME TypeOK, BuildInv, doing = "building"
    PROVE  SentTypes(Sending)
<1> DEFINE N == Len(ordered_keys_)
           w == [i \in DOMAIN ordered_keys_ |-> At(ordered_keys_[i])]
<1>1. /\ ordered_keys_ \in Seq(DeclaredKey) /\ action_ \in OneWord
      /\ N \in Nat /\ DOMAIN ordered_keys_ = 1 .. N
  BY LenProperties DEF BuildInv
<1>2. w = [i \in 1 .. N |-> At(ordered_keys_[i])]
  BY <1>1
<1>3. \A i \in 1 .. N : At(ordered_keys_[i]) \in Text
  BY WordsAreValues DEF BuildInv, At
<1>4. w \in [1 .. N -> Text] /\ \A i \in 1 .. N : w[i] = At(ordered_keys_[i])
  BY <1>2, <1>3
<1>5. Sending.action = action_ /\ Sending.keys = ordered_keys_ /\ Sending.values = w
  BY DEF Sending
<1> HIDE DEF w, N
<1>6. w \in Seq(Text)
  BY <1>1, <1>4, SeqDef
<1>7. Len(w) = N
  <2>1. DOMAIN w = 1 .. N
    BY <1>4
  <2>2. QED
    BY <1>1, <1>6, <2>1, LenByDomain
<1>8. \A i, j \in 1 .. N : ordered_keys_[i] = ordered_keys_[j] => w[i] = w[j]
  BY <1>4
<1>9. QED
  BY <1>1, <1>5, <1>6, <1>7, <1>8 DEF SentTypes, N

ThreeParts(la, li, T, t) ==
    /\ t \in Text /\ Len(la) \in Nat /\ Len(li) \in Nat /\ Len(T) \in Nat
    /\ Len(t) = Len(la) + Len(li) + Len(T) + 1 /\ t[Len(t)] = EOR
    /\ \A j \in 1 .. Len(la) : t[j] = la[j]
    /\ \A j \in 1 .. Len(li) : t[Len(la) + j] = li[j]
    /\ \A j \in 1 .. Len(T) : t[Len(la) + Len(li) + j] = T[j]

LEMMA ThreeAndEOR ==
    ASSUME NEW la \in Text, NEW li \in Text, NEW T \in Text, NEW t,
           t = la \o li \o (T \o <<EOR>>)
    PROVE  ThreeParts(la, li, T, t)
<1> DEFINE h == la \o li
           e == <<EOR>>
           r == T \o e
           a == Len(la)
           b == Len(li)
           c == Len(T)
<1>1. /\ h \in Text /\ Len(h) = a + b /\ a \in Nat /\ b \in Nat
      /\ (\A j \in 1 .. a : h[j] = la[j]) /\ \A j \in 1 .. b : h[a + j] = li[j]
  <2>1. h \in Text /\ Follows(la, li, h)
    BY ConcatText
  <2>2. QED
    BY <2>1 DEF Follows
<1>2. e \in Text /\ Len(e) = 1 /\ e[1] = EOR
  BY EORIsText
<1>3. t = h \o r
  OBVIOUS
<1> HIDE DEF h, e, a, b
<1>4. /\ r \in Text /\ Len(r) = c + 1 /\ c \in Nat
      /\ (\A j \in 1 .. c : r[j] = T[j]) /\ r[c + 1] = EOR
  <2>1. 1 \in 1 .. Len(e)
    BY <1>2
  <2>2. QED
    <3>1. r \in Text /\ Follows(T, e, r)
      BY <1>2, ConcatText
    <3> HIDE DEF r
    <3>2. QED
      BY <1>2, <2>1, <3>1 DEF Follows
<1> HIDE DEF r, c
<1>5. /\ t \in Text /\ Len(t) = Len(h) + Len(r)
      /\ (\A j \in 1 .. Len(h) : t[j] = h[j]) /\ \A j \in 1 .. Len(r) : t[Len(h) + j] = r[j]
  <2>1. t \in Text /\ Follows(h, r, t)
    BY <1>1, <1>3, <1>4, ConcatText
  <2>2. QED
    BY <2>1 DEF Follows
<1>6. Len(t) = a + b + c + 1
  BY <1>1, <1>4, <1>5
<1>7. \A j \in 1 .. a : t[j] = la[j]
  <2>1. \A j \in 1 .. a : j \in 1 .. Len(h)
    BY <1>1
  <2>2. QED
    BY <1>1, <1>5, <2>1
<1>8. \A j \in 1 .. b : t[a + j] = li[j]
  <2>1. \A j \in 1 .. b : a + j \in 1 .. Len(h)
    BY <1>1
  <2>2. QED
    BY <1>1, <1>5, <2>1
<1>9. \A j \in 1 .. c : t[a + b + j] = T[j]
  <2>1. \A j \in 1 .. c : j \in 1 .. Len(r)
    BY <1>4
  <2>2. QED
    BY <1>1, <1>4, <1>5, <2>1
<1>10. t[Len(t)] = EOR
  <2>1. c + 1 \in 1 .. Len(r) /\ Len(h) + (c + 1) = Len(t)
    BY <1>1, <1>4, <1>5, <1>6
  <2>2. t[Len(h) + (c + 1)] = EOR
    BY <1>4, <1>5, <2>1
  <2>3. QED
    BY <2>1, <2>2
<1>11. QED
  BY <1>1, <1>4, <1>5, <1>6, <1>7, <1>8, <1>9, <1>10 DEF ThreeParts, a, b, c

(* Where the lines end: two of lengths a and b, then those of p.           *)
Ends(at, N, a, b, h) ==
    /\ at \in [0 .. N + 2 -> Nat]
    /\ at[0] = 0 /\ at[1] = a
    /\ \A m \in 0 .. N : at[m + 2] = a + b + h[m]

LEMMA Positions ==
    ASSUME NEW N \in Nat, NEW a \in Nat, NEW b \in Nat, NEW h \in [0 .. N -> Nat]
    PROVE  \E at : Ends(at, N, a, b, h)
<1> DEFINE at == [n \in 0 .. N + 2 |->
                     IF n = 0 THEN 0 ELSE IF n = 1 THEN a ELSE a + b + h[n - 2]]
<1>1. ASSUME NEW n \in 0 .. N + 2
      PROVE  (IF n = 0 THEN 0 ELSE IF n = 1 THEN a ELSE a + b + h[n - 2]) \in Nat
  <2>1. n # 0 /\ n # 1 => n - 2 \in 0 .. N
    OBVIOUS
  <2>2. QED
    BY <2>1
<1>2. at \in [0 .. N + 2 -> Nat]
  BY <1>1
<1>3. at[0] = 0 /\ at[1] = a
  <2>1. 0 \in 0 .. N + 2 /\ 1 \in 0 .. N + 2
    OBVIOUS
  <2>2. QED
    BY <2>1
<1>4. ASSUME NEW m \in 0 .. N PROVE at[m + 2] = a + b + h[m]
  <2>1. m + 2 \in 0 .. N + 2 /\ m + 2 # 0 /\ m + 2 # 1 /\ m + 2 - 2 = m
    OBVIOUS
  <2>2. QED
    BY <2>1
<1> HIDE DEF at
<1>5. QED
  BY <1>2, <1>3, <1>4 DEF Ends

(* Two lines and the lines of p, printed one behind the other.             *)
PrintedAs(t, ks, vs, p, f) ==
    /\ KeysAndValues(ks, vs) /\ Len(ks) = Len(p) + 2
    /\ p \in Seq(Text) /\ Lines(f, p)
    /\ \A n \in 1 .. Len(p) : p[n] = Line(ks[n + 2], vs[n + 2])
    /\ t = Line(ks[1], vs[1]) \o Line(ks[2], vs[2]) \o (f[Len(p)] \o <<EOR>>)

LEMMA PrintedParts ==
    ASSUME NEW t, NEW ks, NEW vs, NEW p, NEW f, PrintedAs(t, ks, vs, p, f)
    PROVE  /\ ThreeParts(Line(ks[1], vs[1]), Line(ks[2], vs[2]), f[Len(p)], t)
           /\ Len(p) \in Nat /\ Len(ks) = Len(p) + 2 /\ f[0] = <<>>
           /\ \A n \in 0 .. Len(p) : Len(f[n]) \in Nat
           /\ \A n \in 1 .. Len(p) + 2 : ks[n] \in OneWord /\ vs[n] \in Text
           /\ \A n \in 1 .. Len(p) : /\ p[n] = Line(ks[n + 2], vs[n + 2])
                                     /\ PlacedIn(f[Len(p)], f[n - 1], p[n], f[n])
<1>1. p \in Seq(Text) /\ Lines(f, p) /\ Len(ks) = Len(p) + 2 /\ KeysAndValues(ks, vs)
  BY DEF PrintedAs
<1>2. Len(p) \in Nat
  BY <1>1, LenProperties
<1>3. \A n \in 1 .. Len(p) + 2 : ks[n] \in OneWord /\ vs[n] \in Text
  BY <1>1 DEF KeysAndValues
<1>4. f[0] = <<>> /\ \A n \in 0 .. Len(p) : f[n] \in Text
  BY <1>1, LinesAre
<1>5. \A n \in 0 .. Len(p) : Len(f[n]) \in Nat
  BY <1>4, LenProperties DEF Text
<1>6. \A n \in 1 .. Len(p) : PlacedIn(f[Len(p)], f[n - 1], p[n], f[n])
  BY <1>1, LinesArePlaced
<1>7. ThreeParts(Line(ks[1], vs[1]), Line(ks[2], vs[2]), f[Len(p)], t)
  <2>1. 1 \in 1 .. Len(p) + 2 /\ 2 \in 1 .. Len(p) + 2 /\ Len(p) \in 0 .. Len(p)
    BY <1>2
  <2>2. f[Len(p)] \in Text /\ Line(ks[1], vs[1]) \in Text /\ Line(ks[2], vs[2]) \in Text
    BY <1>3, <1>4, <2>1, LineIs, WordsAreValues
  <2>3. t = Line(ks[1], vs[1]) \o Line(ks[2], vs[2]) \o (f[Len(p)] \o <<EOR>>)
    BY DEF PrintedAs
  <2>4. QED
    BY <2>2, <2>3, ThreeAndEOR
<1>8. QED
  BY <1>1, <1>2, <1>3, <1>4, <1>5, <1>6, <1>7 DEF PrintedAs

LEMMA PrintedIsLaidOut ==
    ASSUME NEW t, NEW ks, NEW vs, NEW p, NEW f, PrintedAs(t, ks, vs, p, f)
    PROVE  \E at : LaidOut(t, ks, vs, at)
<1> DEFINE N  == Len(p)
           la == Line(ks[1], vs[1])
           li == Line(ks[2], vs[2])
           T  == f[N]
           a  == Len(la)
           b  == Len(li)
           h  == [n \in 0 .. N |-> Len(f[n])]
<1>1. /\ ThreeParts(la, li, T, t) /\ N \in Nat /\ Len(ks) = N + 2 /\ f[0] = <<>>
      /\ \A n \in 0 .. N : Len(f[n]) \in Nat
      /\ \A n \in 1 .. N + 2 : ks[n] \in OneWord /\ vs[n] \in Text
      /\ \A n \in 1 .. N : p[n] = Line(ks[n + 2], vs[n + 2]) /\ PlacedIn(T, f[n - 1], p[n], f[n])
  BY PrintedParts
<1>2. h \in [0 .. N -> Nat] /\ \A n \in 0 .. N : h[n] = Len(f[n])
  BY <1>1
<1> HIDE DEF la, li, T, N, h
<1>3. /\ a \in Nat /\ b \in Nat /\ Len(T) \in Nat
      /\ Len(t) = a + b + Len(T) + 1 /\ t[Len(t)] = EOR
      /\ \A j \in 1 .. a : t[j] = la[j]
      /\ \A j \in 1 .. b : t[a + j] = li[j]
      /\ \A j \in 1 .. Len(T) : t[a + b + j] = T[j]
  BY <1>1 DEF ThreeParts
<1> HIDE DEF a, b
<1>4. h[0] = 0 /\ h[N] = Len(T)
  <2>1. 0 \in 0 .. N /\ N \in 0 .. N /\ Len(<<>>) = 0
    BY <1>1
  <2>2. QED
    BY <1>1, <1>2, <2>1 DEF T
<1>5. PICK at : /\ at \in [0 .. N + 2 -> Nat] /\ at[0] = 0 /\ at[1] = a
                /\ \A m \in 0 .. N : at[m + 2] = a + b + h[m]
  <2>1. PICK at : Ends(at, N, a, b, h)
    BY <1>1, <1>2, <1>3, Positions
  <2>2. QED
    BY <2>1 DEF Ends
<1>6. at[2] = a + b /\ at[N + 2] = a + b + Len(T)
  <2>1. 0 \in 0 .. N /\ N \in 0 .. N /\ 0 + 2 = 2
    BY <1>1
  <2>2. at[0 + 2] = a + b + h[0] /\ at[N + 2] = a + b + h[N]
    BY <1>5, <2>1
  <2>3. QED
    BY <1>3, <1>4, <2>1, <2>2
<1>7. 1 \in 1 .. N + 2 /\ 2 \in 1 .. N + 2
  BY <1>1
<1>8. LineAt(t, ks[1], vs[1], at[0], at[1])
  <2>1. ASSUME NEW j \in 1 .. Len(la) PROVE t[0 + j] = la[j]
    <3>1. 0 + j = j /\ j \in 1 .. a
      BY <1>3 DEF a
    <3>2. QED
      BY <1>3, <3>1
  <2>2. LineAt(t, ks[1], vs[1], 0, 0 + Len(la))
    BY <1>1, <1>7, <2>1, PlacedLine DEF la
  <2>3. 0 + Len(la) = a
    BY <1>3 DEF a
  <2>4. QED
    BY <1>5, <2>2, <2>3
<1>9. LineAt(t, ks[2], vs[2], at[1], at[2])
  <2>1. \A j \in 1 .. Len(li) : t[a + j] = li[j]
    BY <1>3 DEF b
  <2>2. LineAt(t, ks[2], vs[2], a, a + Len(li))
    BY <1>1, <1>3, <1>7, <2>1, PlacedLine DEF li
  <2>3. QED
    BY <1>5, <1>6, <2>2 DEF b
<1>10. ASSUME NEW n \in 1 .. N PROVE LineAt(t, ks[n + 2], vs[n + 2], at[n + 1], at[n + 2])
  <2> DEFINE l    == p[n]
             c    == Len(f[n - 1])
             d    == Len(l)
             from == a + b + c
  <2>1. n + 2 \in 1 .. N + 2 /\ n - 1 \in 0 .. N /\ n \in 0 .. N /\ n - 1 + 2 = n + 1
    BY <1>1
  <2>2. /\ c \in Nat /\ d \in Nat /\ Len(f[n]) = c + d /\ c + d <= Len(T)
        /\ \A j \in 1 .. d : T[c + j] = l[j]
    <3>1. PlacedIn(T, f[n - 1], p[n], f[n])
      BY <1>1
    <3>2. QED
      BY <3>1 DEF PlacedIn
  <2>3. ks[n + 2] \in OneWord /\ vs[n + 2] \in Text /\ l = Line(ks[n + 2], vs[n + 2])
    BY <1>1, <2>1
  <2>4. at[n + 1] = from /\ at[n + 2] = a + b + (c + d)
    <3>1. at[n - 1 + 2] = a + b + h[n - 1] /\ at[n + 2] = a + b + h[n]
      BY <1>5, <2>1
    <3>2. h[n - 1] = c /\ h[n] = c + d
      BY <1>2, <2>1, <2>2
    <3>3. QED
      BY <2>1, <3>1, <3>2
  <2> HIDE DEF l, c, d
  <2>5. ASSUME NEW j \in 1 .. d PROVE t[from + j] = l[j]
    <3>1. c + j \in 1 .. Len(T) /\ a + b + c + j = a + b + (c + j)
      BY <1>3, <2>2
    <3>2. t[a + b + (c + j)] = T[c + j]
      BY <1>3, <3>1
    <3>3. QED
      BY <2>2, <3>1, <3>2
  <2>6. from \in Nat /\ at[n + 2] = from + d
    BY <1>3, <2>2, <2>4
  <2> HIDE DEF from
  <2>7. LineAt(t, ks[n + 2], vs[n + 2], from, from + Len(l))
    <3>1. \A j \in 1 .. Len(l) : t[from + j] = l[j]
      BY <2>5 DEF d
    <3>2. QED
      BY <2>3, <2>6, <3>1, PlacedLine
  <2>8. QED
    BY <2>4, <2>6, <2>7 DEF d
<1>11. ASSUME NEW n \in 1 .. N + 2 PROVE LineAt(t, ks[n], vs[n], at[n - 1], at[n])
  <2>1. CASE n = 1
    BY <1>8, <2>1
  <2>2. CASE n = 2
    BY <1>9, <2>2
  <2>3. CASE n # 1 /\ n # 2
    <3>1. n - 2 \in 1 .. N /\ n - 2 + 2 = n /\ n - 2 + 1 = n - 1
      BY <1>1, <2>3
    <3>2. LineAt(t, ks[n - 2 + 2], vs[n - 2 + 2], at[n - 2 + 1], at[n - 2 + 2])
      BY <1>10, <3>1
    <3>3. QED
      BY <3>1, <3>2
  <2>4. QED
    BY <2>1, <2>2, <2>3
<1>12. Len(t) = at[N + 2] + 1
  BY <1>3, <1>6
<1>13. LaidOut(t, ks, vs, at)
  BY <1>1, <1>3, <1>5, <1>11, <1>12 DEF LaidOut
<1>14. QED
  BY <1>13

LEMMA SendingIsLaidOut ==
    ASSUME TypeOK, BuildInv, doing = "building"
    PROVE  \E at : LaidOut(ActionToString, SentKeys(Sending), SentValues(Sending), at)
<1> DEFINE N  == Len(ordered_keys_)
           ks == SentKeys(Sending)
           vs == SentValues(Sending)
           s  == Sending
<1>1. PICK f : Lines(f, Printed) /\ ToString = f[Len(Printed)] \o <<EOR>>
  BY ToStringIs
<1>2. /\ Printed \in Seq(Text) /\ Len(Printed) = N /\ N \in Nat /\ DOMAIN ordered_keys_ = 1 .. N
      /\ \A n \in 1 .. N : Printed[n] = Line(ordered_keys_[n], At(ordered_keys_[n]))
  BY PrintedTyping
<1>3. s.keys = ordered_keys_ /\ s.action = action_
      /\ \A n \in 1 .. N : s.values[n] = At(ordered_keys_[n])
  BY <1>2 DEF Sending
<1>4. SentTypes(s)
  BY SendingTypes
<1>5. KeysAndValues(ks, vs)
  BY <1>4, SentIsADictionary
<1>6. /\ Len(ks) = N + 2 /\ ks[1] = ActionKey /\ ks[2] = ActionIDKey
      /\ vs[1] = action_ /\ vs[2] = create_uuid
      /\ \A n \in 1 .. N : ks[n + 2] = s.keys[n] /\ vs[n + 2] = s.values[n]
  BY <1>3, <1>4, SentIs
<1>7. ActionToString = Line(ks[1], vs[1]) \o Line(ks[2], vs[2]) \o (f[N] \o <<EOR>>)
  BY <1>1, <1>2, <1>6 DEF ActionToString
<1>8. \A n \in 1 .. N : Printed[n] = Line(ks[n + 2], vs[n + 2])
  BY <1>2, <1>3, <1>6
<1> HIDE DEF N, ks, vs, s
<1>9. PrintedAs(ActionToString, ks, vs, Printed, f)
  BY <1>1, <1>2, <1>5, <1>6, <1>7, <1>8 DEF PrintedAs
<1>10. QED
  BY <1>9, PrintedIsLaidOut DEF ks, vs

-----------------------------------------------------------------------------
(* A pass over such a text reads one line of it.                           *)
LEMMA SameSeq ==
    ASSUME NEW S, NEW s \in Seq(S), NEW u \in Seq(S), Len(s) = Len(u),
           \A j \in 1 .. Len(u) : s[j] = u[j]
    PROVE  s = u
BY SeqEqual

LEMMA LaidOutGrows ==
    ASSUME NEW t, NEW ks, NEW vs, NEW at, LaidOut(t, ks, vs, at), KeysAndValues(ks, vs),
           NEW n \in 1 .. Len(ks)
    PROVE  at[n] <= at[Len(ks)]
<1> DEFINE N    == Len(ks)
           less == {i \in n .. N : ~(at[n] <= at[i])}
<1>1. /\ N \in Nat /\ at \in [0 .. N -> Nat] /\ n \in Nat
      /\ \A i \in 1 .. N : LineAt(t, ks[i], vs[i], at[i - 1], at[i]) /\ ks[i] \in OneWord /\ vs[i] \in Text
  BY DEF LaidOut, KeysAndValues
<1>2. ASSUME less # {} PROVE FALSE
  <2>1. less \in SUBSET Nat
    BY <1>1
  <2>2. PICK i \in less : \A j \in less : i <= j
    BY <1>2, <2>1, LeastOf
  <2>3. i \in n .. N /\ ~(at[n] <= at[i]) /\ n \in 0 .. N
    BY <1>1, <2>2
  <2>4. i # n
    BY <1>1, <2>3
  <2>5. i \in 1 .. N /\ i - 1 \in n .. N /\ i - 1 \in 0 .. N /\ i \in 0 .. N /\ ~(i <= i - 1)
    BY <1>1, <2>3, <2>4
  <2>6. at[n] <= at[i - 1]
    BY <2>2, <2>5
  <2>7. at[n] \in Nat /\ at[i] \in Nat /\ at[i - 1] \in Nat
    BY <1>1, <2>3, <2>5
  <2>8. at[i] > at[i - 1]
    <3>1. LineAt(t, ks[i], vs[i], at[i - 1], at[i]) /\ ks[i] \in OneWord /\ vs[i] \in Text
      BY <1>1, <2>5
    <3>2. QED
      BY <2>7, <3>1, LineBegins
  <2>9. QED
    BY <2>3, <2>6, <2>7, <2>8
<1>3. N \in n .. N
  BY <1>1
<1>4. QED
  BY <1>2, <1>3

ReadsLine(m, ks, vs, at) ==
    /\ Find(SEP, at[m] + 1) = at[m] + 2 /\ Find(EOR, at[m] + 3) = at[m + 1]
    /\ SubSeq(text, at[m] + 1, at[m] + 1) = ks[m + 1]
    /\ SubSeq(text, at[m] + 3, at[m + 1] - 1) = vs[m + 1]

LEMMA PassReadsLine ==
    ASSUME text \in Text, NEW ks, NEW vs, NEW at, LaidOut(text, ks, vs, at), KeysAndValues(ks, vs),
           OneLiners(ks, vs), NEW m \in 0 .. Len(ks) - 1
    PROVE  ReadsLine(m, ks, vs, at)
<1> DEFINE n    == m + 1
           from == at[m]
           to   == at[n]
           v    == vs[n]
           k    == ks[n]
<1>1. Len(ks) \in Nat /\ n \in 1 .. Len(ks) /\ m \in Nat /\ n - 1 = m
  BY DEF KeysAndValues
<1>2. LineAt(text, k, v, from, to) /\ k \in OneWord /\ v \in Value
  BY <1>1 DEF LaidOut, KeysAndValues, OneLiners
<1>3. from \in Nat /\ to \in Nat
  <2>1. at \in [0 .. Len(ks) -> Nat]
    BY DEF LaidOut
  <2>2. m \in 0 .. Len(ks) /\ n \in 0 .. Len(ks)
    BY <1>1
  <2>3. QED
    BY <2>1, <2>2
<1>4. to < Len(text) /\ Len(text) \in Nat
  <2>1. Len(text) = at[Len(ks)] + 1 /\ Len(text) \in Nat
    BY LenProperties DEF LaidOut, Text
  <2>2. to <= at[Len(ks)]
    BY <1>1, LaidOutGrows
  <2>3. at[Len(ks)] \in Nat
    <3>1. at \in [0 .. Len(ks) -> Nat] /\ Len(ks) \in 0 .. Len(ks)
      BY <1>1 DEF LaidOut
    <3>2. QED
      BY <3>1
  <2>4. QED
    BY <1>3, <2>1, <2>2, <2>3
<1> HIDE DEF n, from, to, v, k
<1>5. /\ Len(v) \in Nat /\ text[from + 1] # SEP /\ \A i \in from + 1 .. to - 1 : text[i] # EOR
  BY <1>2, <1>3, NoEORInside
<1>6. /\ to = from + Len(v) + 3
      /\ text[from + 1] = k[1] /\ text[from + 2] = SEP
      /\ \A j \in 1 .. Len(v) : text[from + 2 + j] = v[j]
      /\ text[to] = EOR
  BY <1>2 DEF LineAt
<1>7. Find(SEP, from + 1) = from + 2
  <2> DEFINE b == from + 1
             e == from + 2
  <2>1. b \in Nat \ {0} /\ e \in b .. Len(text)
    BY <1>3, <1>4, <1>5, <1>6
  <2>2. \A j \in b .. e - 1 : text[j] # SEP
    BY <1>3, <1>5
  <2>3. text[e] = SEP
    BY <1>6
  <2> HIDE DEF b, e
  <2>4. Find(SEP, b) = e
    BY <2>1, <2>2, <2>3, FindIs
  <2>5. QED
    BY <2>4 DEF b, e
<1>8. Find(EOR, from + 3) = to
  <2>1. from + 3 \in Nat \ {0} /\ to \in from + 3 .. Len(text)
    BY <1>3, <1>4, <1>5, <1>6
  <2>2. \A j \in from + 3 .. to - 1 : text[j] # EOR
    BY <1>3, <1>5
  <2>3. text[to] = EOR
    BY <1>6
  <2>4. QED
    BY <2>1, <2>2, <2>3, FindIs
<1>9. \A i \in 1 .. Len(text) : text[i] \in Token
  BY ElementOfSeq DEF Text
<1>10. SubSeq(text, from + 1, from + 1) = k
  <2> DEFINE s == SubSeq(text, from + 1, from + 1)
  <2>1. /\ from + 1 \in Int /\ from + 1 - (from + 1) + 1 = 1 /\ from + 1 + 1 - 1 = from + 1
        /\ from + 1 <= from + 1 /\ from + 1 \in 1 .. Len(text)
    BY <1>3, <1>4, <1>5, <1>6
  <2>2. \A i \in from + 1 .. from + 1 : text[i] \in Token
    BY <1>3, <1>9, <2>1
  <2>3. s \in Seq(Token) /\ Len(s) = 1 /\ \A i \in 1 .. 1 : s[i] = text[from + 1 + i - 1]
    BY <2>1, <2>2, SubSeqProperties
  <2>4. s[1] = text[from + 1]
    BY <2>1, <2>3
  <2>5. k \in Seq(Token) /\ Len(k) = 1
    <3>1. PICK w \in Word : k = <<w>>
      BY <1>2 DEF OneWord
    <3>2. w \in Token
      BY DEF Token
    <3>3. QED
      BY <3>1, <3>2
  <2> HIDE DEF s
  <2>6. \A j \in 1 .. Len(k) : s[j] = k[j]
    BY <1>6, <2>4, <2>5
  <2>7. s = k
    BY <2>3, <2>5, <2>6, SameSeq
  <2>8. QED
    BY <2>7 DEF s
<1>11. SubSeq(text, from + 3, to - 1) = v
  <2> DEFINE s == SubSeq(text, from + 3, to - 1)
             c == Len(v)
  <2>1. /\ from + 3 \in Int /\ to - 1 \in Int /\ to - 1 - (from + 3) + 1 = c
        /\ c = IF from + 3 <= to - 1 THEN to - 1 - (from + 3) + 1 ELSE 0
    BY <1>3, <1>5, <1>6
  <2>2. \A i \in from + 3 .. to - 1 : i \in 1 .. Len(text)
    BY <1>3, <1>4
  <2>3. \A i \in from + 3 .. to - 1 : text[i] \in Token
    BY <1>9, <2>2
  <2>4. /\ s \in Seq(Token)
        /\ Len(s) = IF from + 3 <= to - 1 THEN to - 1 - (from + 3) + 1 ELSE 0
        /\ \A i \in 1 .. to - 1 - (from + 3) + 1 : s[i] = text[from + 3 + i - 1]
    BY <2>1, <2>3, SubSeqProperties
  <2> HIDE DEF s, c
  <2>5. Len(s) = c /\ \A i \in 1 .. c : s[i] = text[from + 3 + i - 1]
    BY <2>1, <2>4
  <2>6. ASSUME NEW j \in 1 .. c PROVE s[j] = v[j]
    <3>1. from + 3 + j - 1 = from + 2 + j
      BY <1>3
    <3>2. text[from + 2 + j] = v[j]
      BY <1>6 DEF c
    <3>3. QED
      BY <2>5, <3>1, <3>2
  <2>7. v \in Seq(Token)
    BY <1>2 DEF Value, Text
  <2>8. s = v
    BY <2>4, <2>5, <2>6, <2>7, SameSeq DEF c
  <2>9. QED
    BY <2>8 DEF s
<1>12. QED
  BY <1>7, <1>8, <1>10, <1>11 DEF ReadsLine, n, from, to, v, k


-----------------------------------------------------------------------------
(* The first m of these keys are the keys of a map, with their values.     *)
HasFirst(values, ks, vs, m) ==
    /\ DOMAIN values = {ks[i] : i \in 1 .. m}
    /\ \A i \in 1 .. m : values[ks[i]] = vs[i]

(* The receiver of an action with values on one line has read m lines of   *)
(* it: their keys are the keys of the dictionary, their values its values. *)
ReadSoFar(ks, vs, at, m) ==
    /\ LaidOut(text, ks, vs, at)
    /\ m \in 0 .. Len(ks) /\ Len(ordered_keys_) = m /\ key_beg = at[m] + 1
    /\ \A i \in 1 .. m : ordered_keys_[i] = ks[i]
    /\ HasFirst(values_, ks, vs, m)
    /\ doing = "parsed" => m = Len(ks)

IsDictionary(ks, vs) ==
    /\ KeysAndValues(ks, vs) /\ OneLiners(ks, vs)
    /\ \A i, j \in 1 .. Len(ks) : ks[i] = ks[j] => vs[i] = vs[j]

SentInv ==
    sent # <<>> =>
        /\ doing # "building" /\ SentTypes(sent[1])
        /\ SentOneLiners =>
              \E at, m : ReadSoFar(SentKeys(sent[1]), SentValues(sent[1]), at, m)

(* emplace enters the next key, or finds it there with the same value.     *)
LEMMA EmplaceNext ==
    ASSUME NEW values, NEW ks, NEW vs, NEW m \in Nat,
           HasFirst(values, ks, vs, m), IsDictionary(ks, vs), m + 1 \in 1 .. Len(ks)
    PROVE  HasFirst(Emplace(values, ks[m + 1], vs[m + 1]), ks, vs, m + 1)
<1> DEFINE n == m + 1
           k == ks[n]
           v == vs[n]
           e == Emplace(values, k, v)
<1>1. 1 .. n = 1 .. m \cup {n} /\ n \in 1 .. n
  OBVIOUS
<1>0. /\ DOMAIN values = {ks[i] : i \in 1 .. m}
      /\ \A i \in 1 .. m : values[ks[i]] = vs[i]
      /\ \A i \in 1 .. n : ks[i] = k => vs[i] = v
  <2>1. n \in 1 .. Len(ks) /\ Len(ks) \in Nat
    BY DEF IsDictionary, KeysAndValues
  <2>2. \A i \in 1 .. n : i \in 1 .. Len(ks)
    BY <2>1
  <2>3. QED
    BY <2>1, <2>2 DEF HasFirst, IsDictionary
<1> HIDE DEF n
<1>3. DOMAIN e = DOMAIN values \cup {k} /\ \A i \in DOMAIN values : e[i] = values[i]
  BY DEF Emplace, Put
<1>4. e[k] = v
  <2>1. CASE k \in DOMAIN values
    <3>1. PICK i \in 1 .. m : k = ks[i]
      BY <1>0, <2>1
    <3>2. values[k] = vs[i] /\ vs[i] = v
      BY <1>0, <1>1, <3>1
    <3>3. QED
      BY <1>3, <2>1, <3>2
  <2>2. CASE k \notin DOMAIN values
    BY <2>2 DEF Emplace, Put
  <2>3. QED
    BY <2>1, <2>2
<1> HIDE DEF e, k, v
<1>5. DOMAIN e = {ks[i] : i \in 1 .. n}
  <2>1. {ks[i] : i \in 1 .. n} = {ks[i] : i \in 1 .. m} \cup {ks[n]}
    BY <1>1, Zenon
  <2>2. QED
    BY <1>0, <1>3, <2>1, Zenon DEF k
<1>6. ASSUME NEW i \in 1 .. n PROVE e[ks[i]] = vs[i]
  <2>1. CASE i = n
    BY <1>4, <2>1 DEF k, v
  <2>2. CASE i \in 1 .. m
    BY <1>0, <1>3, <2>2
  <2>3. QED
    BY <1>1, <2>1, <2>2
<1>7. HasFirst(e, ks, vs, n)
  BY <1>5, <1>6 DEF HasFirst
<1>8. QED
  BY <1>7 DEF e, k, v, n

(* Behind the last line there is no separator.                             *)
LEMMA NothingBehind ==
    ASSUME text \in Text, NEW ks, NEW vs, NEW at, LaidOut(text, ks, vs, at), KeysAndValues(ks, vs)
    PROVE  Find(SEP, at[Len(ks)] + 1) = NPos
<1> DEFINE b == at[Len(ks)] + 1
<1>1. b \in Nat \ {0} /\ Len(text) = b /\ text[b] = EOR
  <2>1. Len(ks) \in Nat
    BY DEF KeysAndValues
  <2>2. Len(ks) \in 0 .. Len(ks)
    BY <2>1
  <2>3. at[Len(ks)] \in Nat
    BY <2>2 DEF LaidOut
  <2>4. QED
    BY <2>3 DEF LaidOut
<1> HIDE DEF b
<1>2. /\ Find(SEP, b) \in {NPos} \cup b .. Len(text)
      /\ Find(SEP, b) # NPos => text[Find(SEP, b)] = SEP
  BY <1>1, Finds
<1>3. Find(SEP, b) = NPos
  BY <1>1, <1>2, DelimiterAssumption
<1>4. QED
  BY <1>3 DEF b

LEMMA PassReads ==
    ASSUME ParseInv, ParseLine, NEW CONSTANT ks, NEW CONSTANT vs, NEW CONSTANT at, NEW CONSTANT m,
           ReadSoFar(ks, vs, at, m), IsDictionary(ks, vs)
    PROVE  ReadSoFar(ks, vs, at, m + 1)'
<1> DEFINE key_end == Find(SEP, key_beg)
           val_end == Find(EOR, key_end + 1)
           n       == m + 1
<1>1. /\ text \in Text /\ ordered_keys_ \in Seq(Text) /\ key_end # NPos
      /\ LaidOut(text, ks, vs, at) /\ KeysAndValues(ks, vs) /\ OneLiners(ks, vs)
      /\ Len(ks) \in Nat /\ m \in 0 .. Len(ks) /\ key_beg = at[m] + 1
      /\ Len(ordered_keys_) = m
  BY DEF ParseInv, TypeOK, ParseLine, ReadSoFar, IsDictionary, KeysAndValues
<1>2. m # Len(ks)
  BY <1>1, NothingBehind
<1>3. m \in 0 .. Len(ks) - 1 /\ m \in Nat /\ n \in 0 .. Len(ks) /\ n \in 1 .. Len(ks)
  BY <1>1, <1>2
<1>4. ReadsLine(m, ks, vs, at)
  BY <1>1, <1>3, PassReadsLine
<1>5. at[m] \in Nat /\ at[n] \in Nat
  BY <1>1, <1>3 DEF LaidOut
<1>6. /\ key_end = at[m] + 2 /\ val_end = at[n]
      /\ SubSeq(text, key_beg, key_end - 1) = ks[n] /\ SubSeq(text, key_end + 1, val_end - 1) = vs[n]
  <2>1. /\ key_beg = at[m] + 1 /\ at[m] + 2 + 1 = at[m] + 3 /\ at[m] + 2 - 1 = at[m] + 1
    BY <1>1, <1>5
  <2>2. key_end = at[m] + 2
    BY <1>4, <2>1 DEF ReadsLine
  <2>3. val_end = at[n]
    BY <1>4, <2>1, <2>2 DEF ReadsLine
  <2> HIDE DEF key_end, val_end
  <2>4. key_end - 1 = at[m] + 1 /\ key_end + 1 = at[m] + 3
    BY <1>5, <2>1, <2>2
  <2>5. SubSeq(text, key_beg, key_end - 1) = ks[n]
    BY <1>4, <2>1, <2>4 DEF ReadsLine
  <2>6. SubSeq(text, key_end + 1, val_end - 1) = vs[n]
    BY <1>4, <2>3, <2>4 DEF ReadsLine
  <2>7. QED
    BY <2>2, <2>3, <2>5, <2>6
<1>7. val_end # NPos
  <2>1. val_end \in key_beg + 1 .. Len(text) /\ key_beg \in Nat
    BY PassGoesOn, <1>1, <1>5
  <2> HIDE DEF val_end
  <2>2. QED
    BY <2>1 DEF NPos
<1>8. /\ ordered_keys_' = Append(ordered_keys_, ks[n])
      /\ values_' = Emplace(values_, ks[n], vs[n])
      /\ key_beg' = at[n] + 1 /\ doing' = "parsing" /\ text' = text
  BY <1>6, <1>7 DEF ParseLine
<1> HIDE DEF key_end, val_end
<1>9. /\ Len(ordered_keys_') = n
      /\ \A i \in 1 .. m : ordered_keys_'[i] = ordered_keys_[i]
      /\ ordered_keys_'[n] = ks[n]
  <2>1. ks[n] \in Text
    <3>1. ks[n] \in OneWord
      BY <1>1, <1>3 DEF KeysAndValues
    <3>2. QED
      BY <3>1, WordsAreValues DEF Value
  <2>2. QED
    BY <1>1, <1>8, <2>1, AppendProperties
<1>10. 1 .. n = 1 .. m \cup {n}
  BY <1>3
<1>11. \A i \in 1 .. n : ordered_keys_'[i] = ks[i]
  BY <1>9, <1>10 DEF ReadSoFar
<1>12. HasFirst(values_', ks, vs, n)
  <2>1. HasFirst(values_, ks, vs, m) /\ m + 1 \in 1 .. Len(ks)
    BY <1>3 DEF ReadSoFar
  <2>2. HasFirst(Emplace(values_, ks[m + 1], vs[m + 1]), ks, vs, m + 1)
    BY <1>3, <2>1, EmplaceNext
  <2>3. QED
    BY <1>8, <2>2
<1> HIDE DEF n
<1>13. ReadSoFar(ks, vs, at, n)'
  BY <1>1, <1>3, <1>8, <1>9, <1>11, <1>12 DEF ReadSoFar
<1>14. QED
  BY <1>13 DEF n

LEMMA EndReads ==
    ASSUME ParseInv, ParseEnd, NEW CONSTANT ks, NEW CONSTANT vs, NEW CONSTANT at, NEW CONSTANT m,
           ReadSoFar(ks, vs, at, m), IsDictionary(ks, vs)
    PROVE  ReadSoFar(ks, vs, at, m)'
<1>1. /\ text \in Text /\ LaidOut(text, ks, vs, at) /\ KeysAndValues(ks, vs) /\ OneLiners(ks, vs)
      /\ Len(ks) \in Nat /\ m \in 0 .. Len(ks) /\ key_beg = at[m] + 1
      /\ Find(SEP, key_beg) = NPos
  BY DEF ParseInv, TypeOK, ParseEnd, ReadSoFar, IsDictionary, KeysAndValues
<1>2. m = Len(ks)
  <2>1. ASSUME m # Len(ks) PROVE FALSE
    <3>1. m \in 0 .. Len(ks) - 1
      BY <1>1, <2>1
    <3>2. Find(SEP, at[m] + 1) = at[m] + 2
      BY <1>1, <3>1, PassReadsLine DEF ReadsLine
    <3>3. at[m] \in Nat
      BY <1>1 DEF LaidOut
    <3>4. QED
      BY <1>1, <3>2, <3>3 DEF NPos
  <2>2. QED
    BY <2>1
<1>3. QED
  BY <1>2 DEF ParseEnd, ReadSoFar

LEMMA StepKeepsSent == ParseInv /\ BuildInv /\ SentInv /\ [Next]_vars => SentInv'
<1> SUFFICES ASSUME ParseInv, BuildInv, SentInv, [Next]_vars PROVE SentInv'
  OBVIOUS
<1>1. ASSUME ParseLine \/ ParseEnd, sent' # <<>> PROVE SentInv'
  <2>1. sent' = sent /\ doing' # "building" /\ SentTypes(sent[1])
    BY <1>1 DEF ParseLine, ParseEnd, SentInv
  <2>0. SUFFICES ASSUME SentOneLiners'
                 PROVE  (\E at, m : ReadSoFar(SentKeys(sent[1]), SentValues(sent[1]), at, m))'
    BY <2>1 DEF SentInv
  <2>2. PICK s : s = sent[1]
    OBVIOUS
  <2>3. PICK ks, vs : ks = SentKeys(s) /\ vs = SentValues(s)
    OBVIOUS
  <2>4. SentTypes(s) /\ SentOneLiners /\ \E at, m : ReadSoFar(ks, vs, at, m)
    BY <1>1, <2>0, <2>1, <2>2, <2>3 DEF SentInv, SentOneLiners
  <2>5. PICK at, m : ReadSoFar(ks, vs, at, m)
    BY <2>4
  <2>6. IsDictionary(ks, vs)
    BY <2>2, <2>3, <2>4, SentIsADictionary, SentAreOneLiners DEF IsDictionary, SentOneLiners
  <2>7. ReadSoFar(ks, vs, at, m)' \/ ReadSoFar(ks, vs, at, m + 1)'
    BY <1>1, <2>5, <2>6, PassReads, EndReads
  <2>8. \E a, l : ReadSoFar(ks, vs, a, l)'
    BY <2>7
  <2>9. s = sent'[1]
    BY <2>1, <2>2
  <2>10. QED
    BY <2>3, <2>8, <2>9
<1>2. ASSUME NEW key, NEW val, Subscript(key) \/ SetValue(key, val) PROVE SentInv'
  <2>1. sent' = sent /\ doing = "building"
    BY <1>2 DEF Subscript, SetValue
  <2>2. QED
    BY <2>1 DEF BuildInv, SentInv
<1>3. CASE Send
  <2>1. /\ doing = "building" /\ doing' = "parsing" /\ text' = ActionToString /\ key_beg' = 1
        /\ ordered_keys_' = <<>> /\ values_' = NoValues /\ sent' = <<Sending>>
    BY <1>3 DEF Send, Sending
  <2>2. PICK s : s = Sending
    OBVIOUS
  <2>3. SentTypes(s)
    BY <2>1, <2>2, SendingTypes DEF ParseInv
  <2>4. PICK ks, vs : ks = SentKeys(s) /\ vs = SentValues(s)
    OBVIOUS
  <2>5. PICK at : LaidOut(ActionToString, ks, vs, at)
    BY <2>1, <2>2, <2>4, SendingIsLaidOut DEF ParseInv
  <2>6. Len(ks) \in Nat /\ at[0] = 0
    BY <2>3, <2>4, <2>5, SentIsADictionary DEF KeysAndValues, LaidOut
  <2>7. 0 \in 0 .. Len(ks) /\ 1 .. 0 = {} /\ 0 + 1 = 1
    BY <2>6
  <2>8. ReadSoFar(ks, vs, at, 0)'
    <3>1. DOMAIN NoValues = {}
      BY DEF NoValues
    <3>2. Len(<<>>) = 0
      OBVIOUS
    <3>3. HasFirst(NoValues, ks, vs, 0)
      BY <2>7, <3>1 DEF HasFirst
    <3>4. QED
      BY <2>1, <2>5, <2>6, <2>7, <3>1, <3>2, <3>3 DEF ReadSoFar
  <2>9. s = sent'[1] /\ doing' # "building"
    BY <2>1, <2>2
  <2>10. QED
    BY <2>3, <2>4, <2>8, <2>9 DEF SentInv
<1>4. CASE UNCHANGED vars
  BY <1>4 DEF vars, SentInv, SentOneLiners, ReadSoFar
<1>5. CASE sent' = <<>>
  BY <1>5 DEF SentInv
<1>6. QED
  BY <1>1, <1>2, <1>3, <1>4, <1>5 DEF Next

LEMMA SentIsArriving == ParseInv /\ SentInv => ActionArrives
<1> SUFFICES ASSUME ParseInv, SentInv, sent # <<>>, SentOneLiners
             PROVE  ArrivesAsBuilt
  BY DEF ActionArrives
<1> DEFINE s  == sent[1]
           ks == SentKeys(s)
           vs == SentValues(s)
           N  == Len(s.keys)
<1>1. text \in Text /\ ordered_keys_ \in Seq(Text) /\ SentTypes(s) /\ \E at, m : ReadSoFar(ks, vs, at, m)
  BY DEF ParseInv, TypeOK, SentInv
<1>2. PICK at, m : ReadSoFar(ks, vs, at, m)
  BY <1>1
<1>3. KeysAndValues(ks, vs) /\ OneLiners(ks, vs)
  BY <1>1, SentIsADictionary, SentAreOneLiners DEF SentOneLiners
<1>4. FirstMessage(text)
  BY <1>1, <1>2, <1>3, LaidOutIsOneMessage DEF ReadSoFar
<1>5. /\ N \in Nat /\ Len(ks) = N + 2 /\ ks[1] = ActionKey /\ ks[2] = ActionIDKey
      /\ vs[1] = s.action /\ vs[2] = create_uuid
      /\ \A n \in 1 .. N : ks[n + 2] = s.keys[n] /\ vs[n + 2] = s.values[n]
      /\ ks \in Seq(OneWord)
  BY <1>1, SentIs
<1>6. DOMAIN s.keys = 1 .. N
  BY <1>1, LenProperties DEF SentTypes
<1>7. ASSUME doing = "parsed"
      PROVE  /\ ordered_keys_ = ks
             /\ \A n \in 1 .. N + 2 : GetValue(ks[n]) = <<vs[n]>>
  <2>1. /\ Len(ordered_keys_) = Len(ks)
        /\ \A i \in 1 .. Len(ks) : ordered_keys_[i] = ks[i] /\ values_[ks[i]] = vs[i]
        /\ DOMAIN values_ = {ks[i] : i \in 1 .. Len(ks)}
    BY <1>2, <1>7 DEF ReadSoFar, HasFirst
  <2>2. ks \in Seq(Text)
    <3>1. OneWord \subseteq Text
      BY WordsAreValues DEF Value
    <3>2. QED
      BY <1>5, <3>1, SeqDef
  <2> HIDE DEF ks, vs, N
  <2>3. ordered_keys_ = ks
    BY <1>1, <2>1, <2>2, SameSeq
  <2>4. \A n \in 1 .. N + 2 : GetValue(ks[n]) = <<vs[n]>>
    BY <1>5, <2>1 DEF GetValue
  <2>5. QED
    BY <2>3, <2>4
<1> HIDE DEF ks, vs, N
<1>8. ASSUME doing = "parsed"
      PROVE  /\ ordered_keys_ = <<ActionKey, ActionIDKey>> \o s.keys
             /\ GetValue(ActionKey) = <<s.action>>
             /\ GetValue(ActionIDKey) = <<create_uuid>>
             /\ \A i \in DOMAIN s.keys : GetValue(s.keys[i]) = <<s.values[i]>>
  <2>1. 1 \in 1 .. N + 2 /\ 2 \in 1 .. N + 2 /\ \A i \in 1 .. N : i + 2 \in 1 .. N + 2
    BY <1>5
  <2>2. ordered_keys_ = <<ActionKey, ActionIDKey>> \o s.keys
    BY <1>7, <1>8 DEF ks, SentKeys
  <2>3. GetValue(ks[1]) = <<vs[1]>> /\ GetValue(ks[2]) = <<vs[2]>>
    BY <1>7, <1>8, <2>1
  <2>4. \A i \in 1 .. N : GetValue(ks[i + 2]) = <<vs[i + 2]>>
    BY <1>7, <1>8, <2>1
  <2>5. QED
    BY <1>5, <1>6, <2>2, <2>3, <2>4
<1>9. QED
  BY <1>4, <1>8 DEF ArrivesAsBuilt

(* An action none of whose values contains the end of a line arrives as it *)
(* was built at whoever parses it: its text is one message, and the        *)
(* receiver finds Action, ActionID and every declared key, in order, with  *)
(* the value it was given, separators included, or an empty one.  set_value *)
(* takes other values too, and for these the sentence is false.            *)
THEOREM ActionArrival == Spec => []ActionArrives
<1>1. Init => SentInv
  BY DEF Init, SentInv
<1>2. Init => ParseInv /\ BuildInv /\ SentInv
  BY <1>1, InitParse, InitBuild
<1>3. ParseInv /\ BuildInv /\ SentInv /\ [Next]_vars => (ParseInv /\ BuildInv /\ SentInv)'
  BY StepKeepsParse, StepKeepsBuild, StepKeepsSent
<1>4. ParseInv /\ BuildInv /\ SentInv => ActionArrives
  BY SentIsArriving
<1>5. QED
  BY <1>2, <1>3, <1>4, PTL DEF Spec

-----------------------------------------------------------------------------
(* The lines of any message, by their separators: those that have been     *)
(* read are the ones before key_beg, which is where the last of them ends. *)
Read == {i \in Keyed : i < key_beg}

StandsBehind ==
    \/ key_beg = 1 /\ Read = {}
    \/ (\E i \in Read : LineEnd(i) = key_beg - 1) /\ \A i \in Read : LineEnd(i) <= key_beg - 1

ReadInv ==
    doing # "building" =>
        /\ StandsBehind
        /\ Len(ordered_keys_) = Cardinality(Read)
        /\ \A i \in Read : ordered_keys_[Cardinality({j \in Read : j <= i})] = KeyOfLine(i)
        /\ DOMAIN values_ = {KeyOfLine(i) : i \in Read}
        /\ \A i \in Read : (\A j \in Read : j < i => KeyOfLine(j) # KeyOfLine(i))
                              => values_[KeyOfLine(i)] = ValueOf(i)
        /\ doing = "parsed" => Read = Keyed

(* What the lines are does not depend on how far they have been read.      *)
LEMMA SameText ==
    ASSUME text' = text
    PROVE  /\ Keyed' = Keyed
           /\ \A i : LineEnd(i)' = LineEnd(i)
           /\ \A i : KeyOfLine(i)' = KeyOfLine(i)
           /\ \A i : ValueOf(i)' = ValueOf(i)
<1>1. \A token, from : Find(token, from)' = Find(token, from)
  BY DEF Find
<1>2. Keyed' = Keyed
  BY DEF Keyed
<1>3. \A i : LineEnd(i)' = LineEnd(i)
  BY <1>1 DEF LineEnd
<1>4. \A i : ValueOf(i)' = ValueOf(i)
  BY <1>3 DEF ValueOf
<1>5. \A i : KeyOfLine(i)' = KeyOfLine(i)
  BY <1>2, <1>3 DEF KeyOfLine
<1>6. QED
  BY <1>2, <1>3, <1>4, <1>5

LEMMA KeyedTyping ==
    ASSUME text \in Text
    PROVE  /\ Len(text) \in Nat /\ Keyed \subseteq 1 .. Len(text)
           /\ \A i \in Keyed : text[i] = SEP
           /\ \A i \in Keyed, j \in 1 .. Len(text) :
                  j < i /\ text[j] = SEP => \E k \in j .. i : text[k] = EOR
           /\ \A i \in Keyed : LineEnd(i) \in Nat
           /\ IsFiniteSet(Keyed)
<1>1. Len(text) \in Nat /\ DOMAIN text = 1 .. Len(text)
  BY LenProperties DEF Text
<1>2. Keyed \subseteq 1 .. Len(text)
  BY <1>1 DEF Keyed
<1>3. ASSUME NEW i \in Keyed PROVE LineEnd(i) \in Nat
  <2>1. i \in Nat \ {0}
    BY <1>1, <1>2
  <2>2. Find(EOR, i) \in {NPos} \cup i .. Len(text)
    BY <2>1, Finds
  <2>3. QED
    BY <1>1, <2>1, <2>2 DEF LineEnd, NPos
<1>4. IsFiniteSet(Keyed)
  <2>1. IsFiniteSet(1 .. Len(text))
    BY <1>1, FS_Interval
  <2>2. QED
    BY <1>2, <2>1, FS_Subset
<1>5. ASSUME NEW i \in Keyed, NEW j \in 1 .. Len(text), j < i, text[j] = SEP
      PROVE  \E k \in j .. i : text[k] = EOR
  <2>1. i \in Nat /\ j \in 1 .. i - 1
    BY <1>1, <1>2, <1>5
  <2>2. QED
    BY <1>5, <2>1 DEF Keyed
<1>6. QED
  BY <1>1, <1>2, <1>3, <1>4, <1>5 DEF Keyed

(* The separator that a pass finds, at e, is that of the next line, which  *)
(* ends at v.                                                              *)
NextLine(e, v) ==
    /\ e \in Keyed /\ e \in Nat /\ v \in Nat /\ key_beg <= e /\ e < v /\ v <= Len(text)
    /\ text[v] = EOR /\ LineEnd(e) = v
    /\ \A i \in e .. v - 1 : text[i] # EOR
    /\ \A i \in Keyed : i <= v => i < key_beg \/ i = e
    /\ KeyOfLine(e) = SubSeq(text, key_beg, e - 1)

LEMMA KeyStandsBehind ==
    ASSUME text \in Text, key_beg \in Nat, StandsBehind, NEW e, {j \in Keyed : j < e} = Read
    PROVE  KeyOfLine(e) = SubSeq(text, key_beg, e - 1)
<1> DEFINE before == {LineEnd(j) : j \in {h \in Keyed : h < e}}
           b      == key_beg - 1
<1>1. before = {LineEnd(j) : j \in Read}
  OBVIOUS
<1>2. before \subseteq Nat
  BY KeyedTyping, <1>1 DEF Read
<1>3. KeyOfLine(e) = SubSeq(text, 1 + (CHOOSE p \in before \cup {0} : \A q \in before : q <= p), e - 1)
  BY DEF KeyOfLine
<1>4. b \in before \cup {0} /\ \A q \in before : q <= b
  BY <1>1 DEF StandsBehind
<1> HIDE DEF before
<1>5. ASSUME NEW p \in before \cup {0}, \A q \in before : q <= p PROVE p = b
  <2>1. CASE key_beg = 1 /\ Read = {}
    BY <1>1, <1>5, <2>1
  <2>2. CASE \E i \in Read : LineEnd(i) = key_beg - 1
    <3>1. b \in before
      BY <1>1, <2>2
    <3>2. b <= p /\ p <= b /\ p \in Nat /\ b \in Nat
      BY <1>2, <1>4, <1>5, <3>1
    <3>3. QED
      BY <3>2
  <2>3. QED
    BY <2>1, <2>2 DEF StandsBehind
<1>6. (CHOOSE p \in before \cup {0} : \A q \in before : q <= p) = b
  BY <1>4, <1>5
<1>7. 1 + b = key_beg
  OBVIOUS
<1>8. QED
  BY <1>3, <1>6, <1>7

LEMMA PassFindsLine ==
    ASSUME ParseInv, ParseLine, StandsBehind
    PROVE  NextLine(Find(SEP, key_beg), Find(EOR, Find(SEP, key_beg) + 1))
<1> DEFINE e == Find(SEP, key_beg)
           v == Find(EOR, e + 1)
<1>1. /\ text \in Text /\ key_beg \in Nat \ {0} /\ e # NPos
      /\ key_beg > 1 => text[key_beg - 1] = EOR /\ key_beg - 1 \in 1 .. Len(text)
  BY LenProperties DEF ParseInv, TypeOK, ParseLine, Text
<1>2. v \in key_beg + 1 .. Len(text) /\ text[v] = EOR
  BY PassGoesOn
<1>3. /\ Len(text) \in Nat /\ e \in key_beg .. Len(text) /\ text[e] = SEP
      /\ \A i \in key_beg .. Len(text) : text[i] = SEP => e <= i
  BY <1>1, Finds
<1> HIDE DEF e
<1>4. e + 1 \in Nat \ {0} /\ e \in Nat \ {0}
  BY <1>1, <1>3
<1>5. /\ v \in e + 1 .. Len(text)
      /\ \A i \in e + 1 .. Len(text) : text[i] = EOR => v <= i
  <2>1. v # NPos
    BY <1>1, <1>2 DEF NPos
  <2>2. QED
    BY <1>1, <1>4, <2>1, Finds
<1> HIDE DEF v
<1>6. \A i \in e .. v - 1 : text[i] # EOR
  <2>1. text[e] # EOR
    BY <1>3, DelimiterAssumption
  <2>2. \A i \in e + 1 .. v - 1 : text[i] # EOR
    BY <1>3, <1>5
  <2>3. QED
    BY <1>3, <1>5, <2>1, <2>2
<1>7. LineEnd(e) = v
  <2>1. v \in e .. Len(text)
    BY <1>3, <1>5
  <2>2. Find(EOR, e) = v
    BY <1>1, <1>2, <1>4, <1>6, <2>1, FindIs
  <2>3. QED
    BY <2>2 DEF LineEnd
<1>8. e \in Keyed
  <2>1. ASSUME NEW j \in 1 .. e - 1, text[j] = SEP PROVE \E k \in j .. e : text[k] = EOR
    <3>1. j < key_beg
      BY <1>1, <1>3, <2>1
    <3>2. key_beg > 1 /\ key_beg - 1 \in j .. e
      BY <1>1, <1>3, <3>1
    <3>3. QED
      BY <1>1, <3>2
  <2>2. e \in DOMAIN text
    BY <1>1, <1>3, LenProperties DEF Text
  <2>3. QED
    BY <1>3, <2>1, <2>2 DEF Keyed
<1>9. ASSUME NEW i \in Keyed, i <= v, ~(i < key_beg), i # e PROVE FALSE
  <2>1. i \in 1 .. Len(text) /\ text[i] = SEP
    BY <1>1, <1>9, KeyedTyping
  <2>2. e < i
    BY <1>1, <1>3, <1>9, <2>1
  <2>3. e \in 1 .. Len(text)
    BY <1>1, <1>3
  <2>4. PICK k \in e .. i : text[k] = EOR
    BY <1>1, <1>3, <2>2, <2>3, KeyedTyping
  <2>5. k = v /\ i = v
    BY <1>3, <1>5, <1>6, <1>9, <2>1, <2>4
  <2>6. QED
    BY <1>2, <2>1, <2>5, DelimiterAssumption
<1>10. {j \in Keyed : j < e} = Read
  <2>1. ASSUME NEW i \in Keyed, i < e PROVE i < key_beg
    BY <1>1, <1>3, <2>1, KeyedTyping
  <2>2. ASSUME NEW i \in Keyed, i < key_beg PROVE i < e
    BY <1>1, <1>3, <2>2, KeyedTyping
  <2>3. QED
    BY <2>1, <2>2 DEF Read
<1>11. KeyOfLine(e) = SubSeq(text, key_beg, e - 1)
  BY <1>1, <1>10, KeyStandsBehind
<1>12. NextLine(e, v)
  BY <1>1, <1>2, <1>3, <1>5, <1>6, <1>7, <1>8, <1>9, <1>11 DEF NextLine
<1>13. QED
  BY <1>12 DEF e, v

(* A pass: the keys and the values of one line more.                       *)
LEMMA PassTakesLine ==
    ASSUME ParseInv, ParseLine, StandsBehind
    PROVE  \E e, v :
              /\ NextLine(e, v)
              /\ ordered_keys_' = Append(ordered_keys_, KeyOfLine(e))
              /\ values_' = Emplace(values_, KeyOfLine(e), ValueOf(e))
              /\ key_beg' = v + 1 /\ text' = text /\ doing' = "parsing" /\ doing = "parsing"
              /\ Read' = Read \cup {e} /\ e \notin Read /\ \A i \in Read : i < e
              /\ StandsBehind'
<1> DEFINE e == Find(SEP, key_beg)
           v == Find(EOR, e + 1)
<1>1. NextLine(e, v)
  BY PassFindsLine
<1>2. v # NPos
  BY <1>1 DEF NextLine, NPos
<1>3. /\ ordered_keys_' = Append(ordered_keys_, SubSeq(text, key_beg, e - 1))
      /\ values_' = Emplace(values_, SubSeq(text, key_beg, e - 1), SubSeq(text, e + 1, v - 1))
      /\ key_beg' = v + 1 /\ text' = text /\ doing' = "parsing" /\ doing = "parsing"
  BY <1>2 DEF ParseLine
<1> HIDE DEF e, v
<1>4. KeyOfLine(e) = SubSeq(text, key_beg, e - 1) /\ ValueOf(e) = SubSeq(text, e + 1, v - 1)
  BY <1>1 DEF NextLine, ValueOf
<1>5. text \in Text /\ key_beg \in Nat \ {0}
  BY DEF ParseInv, TypeOK
<1>6. Read' = {i \in Keyed : i < v + 1}
  BY <1>3, SameText DEF Read
<1>7. \A i \in Keyed : i \in Nat
  BY <1>5, KeyedTyping
<1>8. Read' = Read \cup {e} /\ e \notin Read /\ \A i \in Read : i < e
  <2>1. /\ e \in Keyed /\ e \in Nat /\ v \in Nat /\ key_beg <= e /\ e < v
        /\ \A i \in Keyed : i <= v => i < key_beg \/ i = e
    BY <1>1 DEF NextLine
  <2>2. ASSUME NEW i \in Keyed PROVE i < v + 1 <=> i < key_beg \/ i = e
    BY <1>5, <1>7, <2>1
  <2>3. Read' = Read \cup {e}
    BY <1>6, <2>1, <2>2 DEF Read
  <2>4. ASSUME NEW i \in Read PROVE i < e
    BY <1>5, <1>7, <2>1 DEF Read
  <2>5. QED
    BY <2>1, <2>3, <2>4
<1>9. StandsBehind'
  <2>1. \A i \in Read : LineEnd(i) \in Nat /\ LineEnd(i) <= v
    BY <1>1, <1>5, KeyedTyping DEF StandsBehind, NextLine, Read
  <2>2. LineEnd(e) = v /\ v \in Nat /\ v + 1 - 1 = v
    BY <1>1 DEF NextLine
  <2>3. (\E i \in Read' : LineEnd(i) = key_beg' - 1) /\ \A i \in Read' : LineEnd(i) <= key_beg' - 1
    BY <1>3, <1>8, <2>1, <2>2
  <2>4. QED
    BY <1>3, <2>3, SameText DEF StandsBehind
<1>10. QED
  BY <1>1, <1>3, <1>4, <1>8, <1>9

(* What ReadInv says of the keys and of the values, by the lines read.     *)
KeysOf(keys, read) ==
    /\ Len(keys) = Cardinality(read)
    /\ \A i \in read : keys[Cardinality({j \in read : j <= i})] = KeyOfLine(i)

ValuesOf(values, read) ==
    /\ DOMAIN values = {KeyOfLine(i) : i \in read}
    /\ \A i \in read : (\A j \in read : j < i => KeyOfLine(j) # KeyOfLine(i))
                          => values[KeyOfLine(i)] = ValueOf(i)

LEMMA NothingRead == KeysOf(<<>>, {}) /\ ValuesOf(NoValues, {})
<1>1. Len(<<>>) = 0 /\ Cardinality({}) = 0
  BY FS_EmptySet
<1>2. QED
  BY <1>1 DEF KeysOf, ValuesOf, NoValues

LEMMA KeysOfOneMore ==
    ASSUME NEW keys \in Seq(Text), NEW read \in SUBSET Nat, IsFiniteSet(read), NEW e \in Nat,
           \A i \in read : i < e, KeysOf(keys, read), KeyOfLine(e) \in Text
    PROVE  KeysOf(Append(keys, KeyOfLine(e)), read \cup {e})
<1> DEFINE n     == Cardinality(read)
           now   == read \cup {e}
           k     == KeyOfLine(e)
           grown == Append(keys, k)
<1>1. e \notin read
  OBVIOUS
<1>2. n \in Nat /\ Cardinality(now) = n + 1 /\ Len(keys) = n
  BY <1>1, FS_CardinalityType, FS_AddElement DEF KeysOf
<1> HIDE DEF k
<1>3. Len(grown) = n + 1 /\ grown[n + 1] = k /\ \A i \in 1 .. n : grown[i] = keys[i]
  BY <1>2, AppendProperties DEF k
<1> HIDE DEF grown
<1>4. {j \in now : j <= e} = now
  <2>1. \A j \in now : j <= e
    OBVIOUS
  <2>2. QED
    BY <2>1
<1>5. ASSUME NEW i \in read PROVE grown[Cardinality({j \in now : j <= i})] = KeyOfLine(i)
  <2> DEFINE upto == {j \in read : j <= i}
  <2>1. {j \in now : j <= i} = upto
    BY <1>1
  <2>2. Cardinality(upto) \in 1 .. n
    <3>1. IsFiniteSet(upto) /\ Cardinality(upto) <= n
      <4>1. upto \in SUBSET read
        OBVIOUS
      <4>2. QED
        BY <4>1, FS_Subset
    <3>2. i \in upto
      OBVIOUS
    <3>3. Cardinality(upto) \in Nat /\ Cardinality(upto) # 0
      BY <3>1, <3>2, FS_CardinalityType, FS_EmptySet
    <3> HIDE DEF upto, n
    <3>4. QED
      BY <1>2, <3>1, <3>3
  <2>3. keys[Cardinality(upto)] = KeyOfLine(i)
    BY DEF KeysOf
  <2> HIDE DEF upto
  <2>4. QED
    BY <1>3, <2>1, <2>2, <2>3
<1>6. \A i \in now : grown[Cardinality({j \in now : j <= i})] = KeyOfLine(i)
  <2>1. grown[Cardinality({j \in now : j <= e})] = KeyOfLine(e)
    BY <1>2, <1>3, <1>4 DEF k
  <2>2. QED
    BY <1>5, <2>1
<1>7. KeysOf(grown, now)
  BY <1>2, <1>3, <1>6 DEF KeysOf
<1>8. QED
  BY <1>7 DEF grown, k

LEMMA ValuesOfOneMore ==
    ASSUME NEW values, NEW read \in SUBSET Nat, NEW e \in Nat,
           \A i \in read : i < e, ValuesOf(values, read)
    PROVE  ValuesOf(Emplace(values, KeyOfLine(e), ValueOf(e)), read \cup {e})
<1> DEFINE now   == read \cup {e}
           k     == KeyOfLine(e)
           v     == ValueOf(e)
           grown == Emplace(values, k, v)
<1>1. DOMAIN grown = DOMAIN values \cup {k} /\ \A x \in DOMAIN values : grown[x] = values[x]
  BY DEF Emplace, Put
<1>2. k \notin DOMAIN values => grown[k] = v
  BY DEF Emplace, Put
<1> HIDE DEF grown, k, v
<1>3. DOMAIN values = {KeyOfLine(i) : i \in read}
  BY DEF ValuesOf
<1>4. DOMAIN grown = {KeyOfLine(i) : i \in now}
  BY <1>1, <1>3 DEF k
<1>5. ASSUME NEW i \in now, \A j \in now : j < i => KeyOfLine(j) # KeyOfLine(i)
      PROVE  grown[KeyOfLine(i)] = ValueOf(i)
  <2>1. CASE i \in read
    <3>1. values[KeyOfLine(i)] = ValueOf(i)
      BY <1>5, <2>1 DEF ValuesOf
    <3>2. QED
      BY <1>1, <1>3, <2>1, <3>1
  <2>2. CASE i = e
    <3>1. k \notin DOMAIN values
      BY <1>3, <1>5, <2>2 DEF k
    <3>2. QED
      BY <1>2, <2>2, <3>1 DEF k, v
  <2>3. QED
    BY <2>1, <2>2
<1>6. ValuesOf(grown, now)
  BY <1>4, <1>5 DEF ValuesOf
<1>7. QED
  BY <1>6 DEF grown, k, v

LEMMA StepKeepsRead == ParseInv /\ ReadInv /\ [Next]_vars => ReadInv'
<1> SUFFICES ASSUME ParseInv, ReadInv, [Next]_vars PROVE ReadInv'
  OBVIOUS
<1>1. text \in Text /\ ordered_keys_ \in Seq(Text)
  BY DEF ParseInv, TypeOK
<1>2. Keyed \subseteq Nat /\ IsFiniteSet(Keyed)
  BY <1>1, KeyedTyping
<1>3. Read \subseteq Nat /\ IsFiniteSet(Read)
  <2>1. Read \subseteq Keyed
    BY DEF Read
  <2>2. QED
    BY <1>2, <2>1, FS_Subset
<1>4. CASE ParseLine
  <2>1. doing # "building"
    BY <1>4 DEF ParseLine
  <2>2. StandsBehind /\ KeysOf(ordered_keys_, Read) /\ ValuesOf(values_, Read)
    BY <2>1 DEF ReadInv, KeysOf, ValuesOf
  <2>3. PICK e, v :
           /\ NextLine(e, v)
           /\ ordered_keys_' = Append(ordered_keys_, KeyOfLine(e))
           /\ values_' = Emplace(values_, KeyOfLine(e), ValueOf(e))
           /\ text' = text /\ doing' = "parsing"
           /\ Read' = Read \cup {e} /\ \A i \in Read : i < e
           /\ StandsBehind'
    BY <1>4, <2>2, PassTakesLine
  <2>4. e \in Nat /\ KeyOfLine(e) \in Text
    <3>1. TypeOK'
      BY StepKeepsParse DEF ParseInv
    <3>2. Len(ordered_keys_) + 1 \in 1 .. Len(ordered_keys_')
          /\ ordered_keys_'[Len(ordered_keys_) + 1] = KeyOfLine(e)
      <4>1. /\ Append(ordered_keys_, KeyOfLine(e))[Len(ordered_keys_) + 1] = KeyOfLine(e)
            /\ Len(Append(ordered_keys_, KeyOfLine(e))) = Len(ordered_keys_) + 1
            /\ Len(ordered_keys_) \in Nat
        BY <1>1
      <4>2. QED
        BY <2>3, <4>1
    <3>3. KeyOfLine(e) \in Text
      BY <3>1, <3>2, ElementOfSeq DEF TypeOK
    <3>4. QED
      BY <2>3, <3>3 DEF NextLine
  <2>5. KeysOf(ordered_keys_', Read')
    BY <1>1, <1>3, <2>2, <2>3, <2>4, KeysOfOneMore
  <2>6. ValuesOf(values_', Read')
    BY <1>3, <2>2, <2>3, <2>4, ValuesOfOneMore
  <2>7. \A i : KeyOfLine(i)' = KeyOfLine(i) /\ ValueOf(i)' = ValueOf(i)
    BY <2>3, SameText
  <2>8. QED
    BY <2>3, <2>5, <2>6, <2>7 DEF ReadInv, KeysOf, ValuesOf
<1>5. CASE ParseEnd
  <2>1. /\ doing = "parsing" /\ doing' = "parsed" /\ Find(SEP, key_beg) = NPos
        /\ UNCHANGED <<text, key_beg, ordered_keys_, values_>>
    BY <1>5 DEF ParseEnd
  <2>2. Read = Keyed
    <3>1. /\ key_beg \in Nat \ {0} /\ Len(text) \in Nat
          /\ \A i \in key_beg .. Len(text) : text[i] # SEP
      BY <2>1, Finds DEF ParseInv, TypeOK
    <3>2. ASSUME NEW i \in Keyed PROVE i < key_beg
      BY <1>1, <3>1, KeyedTyping
    <3>3. QED
      BY <3>2 DEF Read
  <2>3. Read' = Read /\ Keyed' = Keyed
    BY <2>1, SameText DEF Read
  <2>4. \A i : KeyOfLine(i)' = KeyOfLine(i) /\ ValueOf(i)' = ValueOf(i) /\ LineEnd(i)' = LineEnd(i)
    BY <2>1, SameText
  <2>5. StandsBehind'
    BY <2>1, <2>3, <2>4 DEF ReadInv, StandsBehind
  <2>6. QED
    BY <2>1, <2>2, <2>3, <2>4, <2>5 DEF ReadInv
<1>6. ASSUME NEW key, NEW val, Subscript(key) \/ SetValue(key, val) PROVE ReadInv'
  BY <1>6 DEF Subscript, SetValue, ReadInv
<1>7. CASE Send
  <2>1. /\ key_beg' = 1 /\ ordered_keys_' = <<>> /\ values_' = NoValues /\ doing' = "parsing"
    BY <1>7 DEF Send
  <2>2. text' \in Text
    BY StepKeepsParse DEF ParseInv, TypeOK
  <2>3. Read' = {}
    <3>1. Keyed' \subseteq DOMAIN text' /\ DOMAIN text' = 1 .. Len(text') /\ Len(text') \in Nat
      BY <2>2, LenProperties DEF Keyed, Text
    <3>2. QED
      BY <2>1, <3>1 DEF Read
  <2>4. QED
    BY <2>1, <2>3, NothingRead DEF ReadInv, StandsBehind, KeysOf, ValuesOf, NoValues
<1>8. CASE UNCHANGED vars
  <2>1. UNCHANGED <<doing, text, key_beg, ordered_keys_, values_>>
    BY <1>8 DEF vars
  <2>2. Read' = Read /\ Keyed' = Keyed
    BY <2>1, SameText DEF Read
  <2>3. \A i : KeyOfLine(i)' = KeyOfLine(i) /\ ValueOf(i)' = ValueOf(i) /\ LineEnd(i)' = LineEnd(i)
    BY <2>1, SameText
  <2>4. QED
    BY <2>1, <2>2, <2>3 DEF ReadInv, StandsBehind
<1>9. QED
  BY <1>4, <1>5, <1>6, <1>7, <1>8 DEF Next

LEMMA InitRead == Init => ReadInv
<1> SUFFICES ASSUME Init, doing # "building" PROVE ReadInv
  BY DEF ReadInv
<1>1. doing = "parsing" /\ key_beg = 1 /\ ordered_keys_ = <<>> /\ values_ = NoValues
  BY DEF Init
<1>2. Read = {}
  <2>1. text \in Text
    BY InitParse DEF ParseInv, TypeOK
  <2>2. Keyed \subseteq 1 .. Len(text) /\ Len(text) \in Nat
    BY <2>1, KeyedTyping
  <2>3. \A i \in Keyed : ~(i < 1)
    BY <2>2
  <2>4. QED
    BY <1>1, <2>3 DEF Read
<1>3. QED
  BY <1>1, <1>2, NothingRead DEF ReadInv, StandsBehind, KeysOf, ValuesOf, NoValues

LEMMA Reads == Spec => [](ParseInv /\ ReadInv)
<1>1. Init => ParseInv /\ ReadInv
  BY InitParse, InitRead
<1>2. (ParseInv /\ ReadInv) /\ [Next]_vars => (ParseInv /\ ReadInv)'
  BY StepKeepsParse, StepKeepsRead
<1>3. QED
  BY <1>1, <1>2, PTL DEF Spec

(* ami_message_tests.cpp and KeyValDict.hpp, get_value: a message is       *)
(* looked up as its lines say, for messages of any length: each line with  *)
(* a separator is one key, and the first that has it gives it its value.   *)
THEOREM LookedUpAsLines == Spec => []ParsedAsLines
<1>1. ParseInv /\ ReadInv => ParsedAsLines
  <2> SUFFICES ASSUME ParseInv, ReadInv, doing = "parsed" PROVE ParsedAsLines
    BY DEF ParsedAsLines
  <2>1. Read = Keyed /\ KeysOf(ordered_keys_, Keyed) /\ ValuesOf(values_, Keyed)
    BY DEF ReadInv, KeysOf, ValuesOf
  <2>2. ASSUME NEW i \in Keyed, \A j \in Keyed : j < i => KeyOfLine(j) # KeyOfLine(i)
        PROVE  GetValue(KeyOfLine(i)) = <<ValueOf(i)>>
    BY <2>1, <2>2 DEF GetValue, ValuesOf
  <2>3. QED
    BY <2>1, <2>2 DEF ParsedAsLines, KeysOf
<1>2. QED
  BY <1>1, Reads, PTL

-----------------------------------------------------------------------------
(* Lines with any key, and where they stand in a text.                     *)
StandsAt(t, l, from, to) ==
    /\ from \in Nat /\ Len(l) \in Nat /\ to = from + Len(l)
    /\ \A j \in 1 .. Len(l) : t[from + j] = l[j]

LineOf(l, k, v) ==
    /\ l \in Text /\ Len(k) \in Nat /\ Len(v) \in Nat /\ Len(l) = Len(k) + Len(v) + 2
    /\ \A j \in 1 .. Len(k) : l[j] = k[j]
    /\ l[Len(k) + 1] = SEP
    /\ \A j \in 1 .. Len(v) : l[Len(k) + 1 + j] = v[j]
    /\ l[Len(k) + Len(v) + 2] = EOR

LEMMA AnyLineIs ==
    ASSUME NEW k \in Text, NEW v \in Text
    PROVE  LineOf(Line(k, v), k, v)
<1> DEFINE s == <<SEP>>
           e == <<EOR>>
           a == k \o s
           b == a \o v
           c == b \o e
           m == Len(k)
           n == Len(v)
<1>1. /\ s \in Text /\ e \in Text /\ Len(s) = 1 /\ Len(e) = 1 /\ s[1] = SEP /\ e[1] = EOR
      /\ m \in Nat /\ n \in Nat
  BY LenProperties DEF Text, Token
<1> HIDE DEF s, e
<1>2. a \in Text /\ Follows(k, s, a)
  BY <1>1, ConcatText
<1> HIDE DEF a
<1>3. b \in Text /\ Follows(a, v, b)
  BY <1>2, ConcatText
<1> HIDE DEF b
<1>4. c \in Text /\ Follows(b, e, c)
  BY <1>1, <1>3, ConcatText
<1>5. Line(k, v) = c
  BY DEF Line, a, b, s, e
<1> HIDE DEF c
<1>6. /\ Len(a) = m + 1 /\ (\A j \in 1 .. m : a[j] = k[j]) /\ a[m + 1] = SEP
  <2>1. 1 \in 1 .. Len(s)
    BY <1>1
  <2>2. QED
    BY <1>1, <1>2, <2>1 DEF Follows
<1>7. /\ Len(b) = m + 1 + n
      /\ \A j \in 1 .. m + 1 : b[j] = a[j]
      /\ \A j \in 1 .. n : b[m + 1 + j] = v[j]
  BY <1>3, <1>6 DEF Follows
<1>8. /\ Len(c) = m + 1 + n + 1
      /\ \A j \in 1 .. m + 1 + n : c[j] = b[j]
      /\ c[m + 1 + n + 1] = EOR
  <2>1. 1 \in 1 .. Len(e)
    BY <1>1
  <2>2. QED
    BY <1>1, <1>4, <1>7, <2>1 DEF Follows
<1> HIDE DEF m, n
<1>9. /\ Len(c) = m + n + 2 /\ c[m + n + 2] = EOR
  <2>1. m + 1 + n + 1 = m + n + 2
    BY <1>1 DEF m, n
  <2>2. QED
    BY <1>8, <2>1
<1>10. /\ m \in Nat /\ n \in Nat
       /\ \A j \in 1 .. m : c[j] = k[j]
       /\ c[m + 1] = SEP
       /\ \A j \in 1 .. n : c[m + 1 + j] = v[j]
  <2>1. m \in Nat /\ n \in Nat
    BY <1>1 DEF m, n
  <2>2. \A j \in 1 .. m : j \in 1 .. m + 1 /\ j \in 1 .. m + 1 + n
    BY <2>1
  <2>3. m + 1 \in 1 .. m + 1 /\ m + 1 \in 1 .. m + 1 + n
    BY <2>1
  <2>4. \A j \in 1 .. n : m + 1 + j \in 1 .. m + 1 + n
    BY <2>1
  <2>5. QED
    BY <1>6, <1>7, <1>8, <2>1, <2>2, <2>3, <2>4
<1>11. QED
  BY <1>4, <1>5, <1>9, <1>10 DEF LineOf, m, n

(* A value ends with its line: two lines with one key at one place have    *)
(* the same value.                                                         *)
LEMMA ShorterValue ==
    ASSUME NEW t, NEW k \in Text, NEW v \in Value, NEW w \in Value, NEW from, NEW to, NEW upto,
           StandsAt(t, Line(k, v), from, to), StandsAt(t, Line(k, w), from, upto)
    PROVE  ~(Len(v) < Len(w))
<1> DEFINE x == Line(k, v)
           y == Line(k, w)
           m == Len(k)
           n == Len(v)
           o == Len(w)
<1>1. v \in Text /\ w \in Text
  BY DEF Value
<1>2. LineOf(x, k, v) /\ LineOf(y, k, w)
  BY <1>1, AnyLineIs
<1> HIDE DEF x, y
<1>3. /\ m \in Nat /\ n \in Nat /\ o \in Nat /\ Len(x) = m + n + 2 /\ Len(y) = m + o + 2
      /\ x[m + n + 2] = EOR /\ \A j \in 1 .. o : y[m + 1 + j] = w[j]
  BY <1>2 DEF LineOf
<1> HIDE DEF m, n
<1>4. ASSUME n < o PROVE FALSE
  <2>1. n + 1 \in 1 .. o /\ m + 1 + (n + 1) = m + n + 2
    BY <1>3, <1>4
  <2>2. m + n + 2 \in 1 .. Len(x) /\ m + n + 2 \in 1 .. Len(y)
    BY <1>3, <1>4
  <2>3. t[from + (m + n + 2)] = EOR
    BY <1>3, <2>2 DEF StandsAt, x
  <2>4. t[from + (m + n + 2)] = w[n + 1]
    <3>1. y[m + 1 + (n + 1)] = w[n + 1]
      BY <1>3, <2>1
    <3>2. y[m + n + 2] = w[n + 1]
      BY <2>1, <3>1
    <3>3. t[from + (m + n + 2)] = y[m + n + 2]
      BY <2>2 DEF StandsAt, y
    <3>4. QED
      BY <3>2, <3>3
  <2>5. w[n + 1] # EOR
    <3>1. DOMAIN w = 1 .. o
      BY <1>1, LenProperties DEF Text
    <3>2. QED
      BY <2>1, <3>1 DEF Value, Range
  <2>6. QED
    BY <2>3, <2>4, <2>5
<1>5. QED
  BY <1>4 DEF n

LEMMA SameValue ==
    ASSUME NEW t, NEW k \in Text, NEW v \in Value, NEW w \in Value, NEW from, NEW to, NEW upto,
           StandsAt(t, Line(k, v), from, to), StandsAt(t, Line(k, w), from, upto)
    PROVE  v = w
<1> DEFINE x == Line(k, v)
           y == Line(k, w)
           m == Len(k)
           n == Len(v)
<1>1. v \in Text /\ w \in Text
  BY DEF Value
<1>2. LineOf(x, k, v) /\ LineOf(y, k, w)
  BY <1>1, AnyLineIs
<1>3. Len(v) = Len(w)
  <2>1. Len(v) \in Nat /\ Len(w) \in Nat
    BY <1>1, LenProperties DEF Text
  <2>2. ~(Len(v) < Len(w)) /\ ~(Len(w) < Len(v))
    BY ShorterValue
  <2>3. QED
    BY <2>1, <2>2
<1> HIDE DEF x, y
<1>4. /\ m \in Nat /\ n \in Nat /\ Len(x) = m + n + 2 /\ Len(y) = m + n + 2
      /\ (\A j \in 1 .. n : x[m + 1 + j] = v[j]) /\ \A j \in 1 .. n : y[m + 1 + j] = w[j]
  BY <1>2, <1>3 DEF LineOf
<1> HIDE DEF m, n
<1>5. ASSUME NEW j \in 1 .. n PROVE v[j] = w[j]
  <2>1. m + 1 + j \in 1 .. m + n + 2
    BY <1>4
  <2>2. t[from + (m + 1 + j)] = x[m + 1 + j] /\ t[from + (m + 1 + j)] = y[m + 1 + j]
    BY <1>4, <2>1 DEF StandsAt, x, y
  <2>3. QED
    BY <1>4, <2>2
<1>6. QED
  <2>1. \A j \in 1 .. Len(w) : v[j] = w[j]
    BY <1>3, <1>5 DEF n
  <2>2. QED
    BY <1>1, <1>3, <2>1, SameSeq DEF Text

(* Parts that stand one behind the other at the beginning of a text.       *)
Laid(t, p, at) ==
    /\ at \in [0 .. Len(p) -> Nat] /\ at[0] = 0
    /\ \A n \in 1 .. Len(p) : StandsAt(t, p[n], at[n - 1], at[n])

(* Two ways to print keys at the beginning of a text have the same values. *)
KeysPrinted(p, ks, vs, n) ==
    /\ p \in Seq(Text) /\ Len(p) = n
    /\ \A i \in 1 .. n : ks[i] \in Text /\ vs[i] \in Value /\ p[i] = Line(ks[i], vs[i])

SamePlaces(t, p, q, ks, vs, ws, at, f, N) ==
    /\ N \in Nat /\ Laid(t, p, at) /\ Lines(f, q)
    /\ KeysPrinted(p, ks, vs, N) /\ KeysPrinted(q, ks, ws, N)
    /\ \A j \in 1 .. Len(f[N]) : t[j] = f[N][j]

LEMMA PrintedAlike ==
    ASSUME NEW t, NEW p, NEW q, NEW ks, NEW vs, NEW ws, NEW at, NEW f, NEW N,
           SamePlaces(t, p, q, ks, vs, ws, at, f, N)
    PROVE  /\ Len(f[N]) = at[N]
           /\ \A n \in 1 .. N : vs[n] = ws[n]
<1>0. /\ N \in Nat /\ Laid(t, p, at) /\ Lines(f, q)
      /\ KeysPrinted(p, ks, vs, N) /\ KeysPrinted(q, ks, ws, N)
      /\ \A j \in 1 .. Len(f[N]) : t[j] = f[N][j]
  BY DEF SamePlaces
<1> USE <1>0
<1> DEFINE Alike(n) == Len(f[n]) = at[n] /\ (n # 0 => vs[n] = ws[n])
           bad      == {n \in 0 .. N : ~Alike(n)}
<1>1. /\ p \in Seq(Text) /\ q \in Seq(Text) /\ Len(p) = N /\ Len(q) = N
      /\ at \in [0 .. N -> Nat] /\ at[0] = 0
      /\ \A n \in 1 .. N : StandsAt(t, p[n], at[n - 1], at[n])
  BY DEF KeysPrinted, Laid
<1>2. f[0] = <<>> /\ Len(f[0]) = 0
  BY <1>1, LinesAre, EmptySeq
<1>3. \A n \in 1 .. N : PlacedIn(f[N], f[n - 1], q[n], f[n])
  BY <1>1, LinesArePlaced
<1>4. ASSUME bad # {} PROVE FALSE
  <2>1. bad \in SUBSET Nat
    OBVIOUS
  <2>2. PICK n \in bad : \A m \in bad : n <= m
    BY <1>4, <2>1, LeastOf
  <2>3. n \in 0 .. N /\ ~Alike(n)
    BY <2>2
  <2>4. n # 0
    BY <1>1, <1>2, <2>3
  <2>5. n \in 1 .. N /\ n - 1 \in 0 .. N /\ n \in Nat /\ ~(n <= n - 1)
    BY <2>3, <2>4
  <2>6. Alike(n - 1)
    BY <2>2, <2>5
  <2> HIDE DEF bad
  <2>7. Len(f[n - 1]) = at[n - 1] /\ at[n - 1] \in Nat /\ at[n] \in Nat
    BY <1>1, <2>5, <2>6
  <2>8. /\ PlacedIn(f[N], f[n - 1], q[n], f[n]) /\ StandsAt(t, p[n], at[n - 1], at[n])
        /\ p[n] = Line(ks[n], vs[n]) /\ q[n] = Line(ks[n], ws[n])
        /\ ks[n] \in Text /\ vs[n] \in Value /\ ws[n] \in Value
    BY <1>1, <1>3, <2>5 DEF KeysPrinted
  <2>9. StandsAt(t, q[n], at[n - 1], Len(f[n]))
    <3> DEFINE a == at[n - 1]
               b == Len(q[n])
               c == Len(f[n])
               d == Len(f[N])
    <3>1. /\ a \in Nat /\ b \in Nat /\ c = a + b /\ c <= d /\ d \in Nat
          /\ \A j \in 1 .. b : f[N][a + j] = q[n][j]
      <4>1. N \in 0 .. N
        OBVIOUS
      <4>2. d \in Nat
        BY <1>1, <4>1, LinesAre, LenProperties DEF Text
      <4>3. QED
        BY <2>7, <2>8, <4>2 DEF PlacedIn
    <3> HIDE DEF a, b, c, d
    <3>2. \A j \in 1 .. b : a + j \in 1 .. d
      BY <3>1
    <3>3. \A j \in 1 .. b : t[a + j] = q[n][j]
      BY <3>1, <3>2 DEF d
    <3>4. QED
      BY <3>1, <3>3 DEF StandsAt, a, b, c
  <2>10. vs[n] = ws[n]
    BY <2>8, <2>9, SameValue
  <2>11. Len(f[n]) = at[n]
    BY <2>8, <2>9, <2>10 DEF StandsAt
  <2>12. QED
    BY <2>3, <2>10, <2>11
<1>5. \A n \in 0 .. N : Alike(n)
  BY <1>4
<1> HIDE DEF bad
<1>6. N \in 0 .. N /\ \A n \in 1 .. N : n \in 0 .. N /\ n # 0
  OBVIOUS
<1>7. QED
  BY <1>5, <1>6

(* Printing the parts gives the beginning of the text again.               *)
LEMMA PrintedBack ==
    ASSUME NEW t, NEW p \in Seq(Text), NEW at, NEW f, Laid(t, p, at), Lines(f, p)
    PROVE  /\ Len(f[Len(p)]) = at[Len(p)]
           /\ \A j \in 1 .. at[Len(p)] : t[j] = f[Len(p)][j]
<1> DEFINE N   == Len(p)
           bad == {n \in 0 .. N : Len(f[n]) # at[n]}
<1>1. /\ N \in Nat /\ at \in [0 .. N -> Nat] /\ at[0] = 0
      /\ \A n \in 1 .. N : StandsAt(t, p[n], at[n - 1], at[n])
  BY LenProperties DEF Laid
<1>2. f[0] = <<>> /\ Len(f[0]) = 0
  BY LinesAre, EmptySeq
<1>3. \A n \in 1 .. N : PlacedIn(f[N], f[n - 1], p[n], f[n])
  BY LinesArePlaced
<1> HIDE DEF N
<1>4. ASSUME bad # {} PROVE FALSE
  <2>1. bad \in SUBSET Nat
    BY <1>1
  <2>2. PICK n \in bad : \A m \in bad : n <= m
    BY <1>4, <2>1, LeastOf
  <2>3. n \in 0 .. N /\ Len(f[n]) # at[n]
    BY <2>2
  <2>4. n # 0
    BY <1>1, <1>2, <2>3
  <2>5. n \in 1 .. N /\ n - 1 \in 0 .. N /\ n \in Nat /\ ~(n <= n - 1)
    BY <1>1, <2>3, <2>4
  <2>6. Len(f[n - 1]) = at[n - 1]
    BY <2>2, <2>5
  <2>7. PlacedIn(f[N], f[n - 1], p[n], f[n]) /\ StandsAt(t, p[n], at[n - 1], at[n])
    BY <1>1, <1>3, <2>5
  <2>8. QED
    BY <2>3, <2>6, <2>7 DEF PlacedIn, StandsAt
<1>5. \A n \in 0 .. N : Len(f[n]) = at[n]
  BY <1>4
<1> HIDE DEF bad
<1>6. ASSUME NEW j \in 1 .. at[N] PROVE t[j] = f[N][j]
  <2> DEFINE after == {n \in 0 .. N : j <= at[n]}
  <2>1. N \in after /\ after \in SUBSET Nat
    BY <1>1
  <2>2. PICK n \in after : \A m \in after : n <= m
    BY <2>1, LeastOf
  <2>3. n \in 0 .. N /\ j <= at[n] /\ N \in 0 .. N
    BY <1>1, <2>2
  <2>4. at[N] \in Nat /\ at[n] \in Nat
    BY <1>1, <2>3
  <2>5. n # 0
    BY <1>1, <2>3, <2>4
  <2>6. n \in 1 .. N /\ n - 1 \in 0 .. N /\ n \in Nat /\ ~(n <= n - 1)
    BY <1>1, <2>3, <2>5
  <2>7. ~(j <= at[n - 1]) /\ at[n - 1] \in Nat
    BY <1>1, <2>2, <2>6
  <2>8. PlacedIn(f[N], f[n - 1], p[n], f[n]) /\ StandsAt(t, p[n], at[n - 1], at[n])
    BY <1>1, <1>3, <2>6
  <2>9. Len(f[n - 1]) = at[n - 1]
    BY <1>5, <2>6
  <2> DEFINE i == j - at[n - 1]
  <2>10. i \in 1 .. Len(p[n]) /\ at[n - 1] + i = j
    BY <2>3, <2>4, <2>7, <2>8 DEF StandsAt
  <2> HIDE DEF i
  <2>11. t[at[n - 1] + i] = p[n][i] /\ f[N][at[n - 1] + i] = p[n][i]
    BY <2>8, <2>9, <2>10 DEF StandsAt, PlacedIn
  <2>12. QED
    BY <2>10, <2>11
<1>7. N \in 0 .. N
  BY <1>1
<1>8. QED
  BY <1>5, <1>6, <1>7 DEF N

-----------------------------------------------------------------------------
(* What has been read are the lines of the text, one behind the other: the *)
(* n-th has its separator at seps[n] and ends at at[n].                    *)
ReadLine(i) == Line(KeyOfLine(i), ValueOf(i))

LinesRead(at, seps) ==
    /\ at \in [0 .. Len(ordered_keys_) -> Nat] /\ at[0] = 0 /\ at[Len(ordered_keys_)] = key_beg - 1
    /\ \A n \in 1 .. Len(ordered_keys_) :
          /\ seps[n] \in Read /\ ordered_keys_[n] = KeyOfLine(seps[n])
          /\ KeyOfLine(seps[n]) \in Text /\ ValueOf(seps[n]) \in Value
          /\ StandsAt(text, ReadLine(seps[n]), at[n - 1], at[n])
    /\ \A i \in Read : \E n \in 1 .. Len(ordered_keys_) : i = seps[n]

LinesInv ==
    doing # "building" => Len(text) >= 2 /\ \E at, seps : LinesRead(at, seps)

LEMMA PieceIs ==
    ASSUME text \in Text, NEW from \in Nat \ {0}, NEW to \in Nat, from <= to + 1, to <= Len(text)
    PROVE  /\ SubSeq(text, from, to) \in Text /\ Len(SubSeq(text, from, to)) = to - from + 1
           /\ \A j \in 1 .. to - from + 1 : SubSeq(text, from, to)[j] = text[from + j - 1]
<1>1. Len(text) \in Nat /\ \A i \in 1 .. Len(text) : text[i] \in Token
  BY LenProperties, ElementOfSeq DEF Text
<1>2. \A i \in from .. to : i \in 1 .. Len(text)
  BY <1>1
<1>3. \A i \in from .. to : text[i] \in Token
  BY <1>1, <1>2
<1>4. /\ SubSeq(text, from, to) \in Seq(Token)
      /\ Len(SubSeq(text, from, to)) = IF from <= to THEN to - from + 1 ELSE 0
      /\ \A j \in 1 .. to - from + 1 : SubSeq(text, from, to)[j] = text[from + j - 1]
  BY <1>3, SubSeqProperties
<1>5. (IF from <= to THEN to - from + 1 ELSE 0) = to - from + 1
  OBVIOUS
<1>6. QED
  BY <1>4, <1>5 DEF Text

LEMMA NextLineStands ==
    ASSUME text \in Text, key_beg \in Nat \ {0}, NEW e, NEW v, NextLine(e, v)
    PROVE  /\ KeyOfLine(e) \in Text /\ ValueOf(e) \in Value
           /\ StandsAt(text, ReadLine(e), key_beg - 1, v)
<1> DEFINE key == SubSeq(text, key_beg, e - 1)
           val == SubSeq(text, e + 1, v - 1)
           l   == Line(key, val)
           m   == Len(key)
           n   == Len(val)
<1>1. /\ e \in Nat /\ v \in Nat /\ key_beg <= e /\ e < v /\ v <= Len(text) /\ Len(text) \in Nat
      /\ text[v] = EOR /\ text[e] = SEP /\ \A i \in e .. v - 1 : text[i] # EOR
  BY KeyedTyping DEF NextLine
<1>2. KeyOfLine(e) = key /\ ValueOf(e) = val
  BY DEF NextLine, ValueOf
<1>3. key \in Text /\ m = e - key_beg /\ \A j \in 1 .. m : key[j] = text[key_beg + j - 1]
  <2>1. e - 1 \in Nat /\ key_beg <= e - 1 + 1 /\ e - 1 <= Len(text) /\ e - 1 - key_beg + 1 = e - key_beg
    BY <1>1
  <2>2. QED
    BY <2>1, PieceIs
<1>4. val \in Text /\ n = v - e - 1 /\ \A j \in 1 .. n : val[j] = text[e + j]
  <2>1. /\ e + 1 \in Nat \ {0} /\ v - 1 \in Nat /\ e + 1 <= v - 1 + 1 /\ v - 1 <= Len(text)
        /\ v - 1 - (e + 1) + 1 = v - e - 1
    BY <1>1
  <2>2. val \in Text /\ n = v - e - 1 /\ \A j \in 1 .. v - e - 1 : val[j] = text[e + 1 + j - 1]
    BY <2>1, PieceIs
  <2>3. \A j \in Nat : e + 1 + j - 1 = e + j
    BY <1>1
  <2> HIDE DEF val
  <2>4. QED
    BY <1>1, <2>2, <2>3
<1> HIDE DEF key, val
<1>5. LineOf(l, key, val)
  BY <1>3, <1>4, AnyLineIs
<1> HIDE DEF l
<1>6. /\ Len(l) = m + n + 2 /\ m \in Nat /\ n \in Nat
      /\ \A j \in 1 .. m : l[j] = key[j]
      /\ l[m + 1] = SEP
      /\ \A j \in 1 .. n : l[m + 1 + j] = val[j]
      /\ l[m + n + 2] = EOR
  BY <1>5 DEF LineOf
<1> HIDE DEF m, n
<1> DEFINE b == key_beg - 1
<1>7. /\ b \in Nat /\ b + (m + n + 2) = v /\ b + (m + 1) = e
      /\ \A j \in 1 .. m : b + j = key_beg + j - 1
      /\ \A j \in 1 .. n : b + (m + 1 + j) = e + j
  BY <1>1, <1>3, <1>4, <1>6
<1> HIDE DEF b
<1>8. ASSUME NEW j \in 1 .. Len(l) PROVE text[b + j] = l[j]
  <2>1. CASE j \in 1 .. m
    BY <1>3, <1>6, <1>7, <2>1
  <2>2. CASE j = m + 1
    BY <1>1, <1>6, <1>7, <2>2
  <2>3. CASE j = m + n + 2
    BY <1>1, <1>6, <1>7, <2>3
  <2>4. CASE j \in m + 2 .. m + 1 + n
    <3>1. j - (m + 1) \in 1 .. n /\ m + 1 + (j - (m + 1)) = j
      BY <1>6, <2>4
    <3>2. l[j] = val[j - (m + 1)] /\ b + j = e + (j - (m + 1))
      BY <1>6, <1>7, <3>1
    <3>3. QED
      BY <1>4, <3>1, <3>2
  <2>5. QED
    BY <1>6, <2>1, <2>2, <2>3, <2>4
<1>9. StandsAt(text, l, b, v)
  BY <1>6, <1>7, <1>8 DEF StandsAt
<1>10. val \in Value
  <2>1. DOMAIN val = 1 .. n
    BY <1>4, LenProperties DEF Text, n
  <2>2. \A j \in 1 .. n : e + j \in e .. v - 1
    <3>1. e \in Nat /\ v \in Nat /\ n \in Nat /\ n = v - e - 1
      BY <1>1, <1>4, <1>6
    <3>2. QED
      BY <3>1
  <2>3. \A j \in 1 .. n : val[j] # EOR
    BY <1>1, <1>4, <2>2
  <2>4. QED
    BY <1>4, <2>1, <2>3 DEF Value, Range
<1>11. QED
  BY <1>2, <1>3, <1>9, <1>10 DEF ReadLine, l, b

LEMMA ReadOneMore ==
    ASSUME ParseInv, ParseLine, StandsBehind, NEW CONSTANT at, NEW CONSTANT seps, LinesRead(at, seps)
    PROVE  (\E a, s : LinesRead(a, s))'
<1> DEFINE N == Len(ordered_keys_)
<1>1. PICK e, v :
         /\ NextLine(e, v)
         /\ ordered_keys_' = Append(ordered_keys_, KeyOfLine(e))
         /\ key_beg' = v + 1 /\ text' = text
         /\ Read' = Read \cup {e}
  BY PassTakesLine
<1>2. text \in Text /\ key_beg \in Nat \ {0} /\ ordered_keys_ \in Seq(Text)
  BY DEF ParseInv, TypeOK
<1>3. /\ KeyOfLine(e) \in Text /\ ValueOf(e) \in Value
      /\ StandsAt(text, ReadLine(e), key_beg - 1, v) /\ v \in Nat
  BY <1>1, <1>2, NextLineStands DEF NextLine
<1>4. /\ N \in Nat /\ Len(ordered_keys_') = N + 1 /\ ordered_keys_'[N + 1] = KeyOfLine(e)
      /\ \A n \in 1 .. N : ordered_keys_'[n] = ordered_keys_[n]
  BY <1>1, <1>2, <1>3, LenProperties, AppendProperties
<1>0. PICK a, s : /\ a = [n \in 0 .. N + 1 |-> IF n = N + 1 THEN v ELSE at[n]]
                  /\ s = [n \in 1 .. N + 1 |-> IF n = N + 1 THEN e ELSE seps[n]]
  OBVIOUS
<1>5. /\ at \in [0 .. N -> Nat] /\ at[0] = 0 /\ at[N] = key_beg - 1
      /\ \A n \in 1 .. N :
            /\ seps[n] \in Read /\ ordered_keys_[n] = KeyOfLine(seps[n])
            /\ KeyOfLine(seps[n]) \in Text /\ ValueOf(seps[n]) \in Value
            /\ StandsAt(text, ReadLine(seps[n]), at[n - 1], at[n])
      /\ \A i \in Read : \E n \in 1 .. N : i = seps[n]
  BY DEF LinesRead
<1> HIDE DEF N
<1>6. /\ a[N + 1] = v /\ \A n \in 0 .. N : a[n] = at[n]
      /\ s[N + 1] = e /\ \A n \in 1 .. N : s[n] = seps[n]
  <2>1. /\ N + 1 \in 0 .. N + 1 /\ N + 1 \in 1 .. N + 1
        /\ \A n \in 0 .. N : n \in 0 .. N + 1 /\ n # N + 1
        /\ \A n \in 1 .. N : n \in 1 .. N + 1 /\ n # N + 1
    BY <1>4
  <2>2. QED
    BY <1>0, <2>1
<1>7. a \in [0 .. N + 1 -> Nat]
  <2>1. ASSUME NEW n \in 0 .. N + 1 PROVE (IF n = N + 1 THEN v ELSE at[n]) \in Nat
    <3>1. n # N + 1 => n \in 0 .. N
      BY <1>4
    <3>2. QED
      BY <1>3, <1>5, <3>1
  <2>2. QED
    BY <1>0, <2>1
<1>8. a[0] = 0 /\ a[N + 1] = key_beg' - 1
  <2>1. 0 \in 0 .. N /\ key_beg' - 1 = v
    BY <1>1, <1>3, <1>4
  <2>2. a[0] = at[0]
    BY <1>6, <2>1
  <2>3. QED
    BY <1>5, <1>6, <2>1, <2>2
<1>9. ASSUME NEW n \in 1 .. N + 1
      PROVE  /\ s[n] \in Read' /\ ordered_keys_'[n] = KeyOfLine(s[n])
             /\ KeyOfLine(s[n]) \in Text /\ ValueOf(s[n]) \in Value
             /\ StandsAt(text, ReadLine(s[n]), a[n - 1], a[n])
  <2>1. CASE n = N + 1
    <3>1. n - 1 = N /\ N \in 0 .. N
      BY <1>4, <2>1
    <3>2. a[n - 1] = key_beg - 1 /\ a[n] = v /\ s[n] = e
      BY <1>5, <1>6, <2>1, <3>1
    <3>3. QED
      BY <1>1, <1>3, <1>4, <2>1, <3>2
  <2>2. CASE n # N + 1
    <3>1. n \in 1 .. N /\ n - 1 \in 0 .. N /\ n \in 0 .. N
      BY <1>4, <2>2
    <3>2. a[n - 1] = at[n - 1] /\ a[n] = at[n] /\ s[n] = seps[n]
      BY <1>6, <3>1
    <3>3. QED
      BY <1>1, <1>4, <1>5, <3>1, <3>2
  <2>3. QED
    BY <2>1, <2>2
<1>10. ASSUME NEW i \in Read' PROVE \E n \in 1 .. N + 1 : i = s[n]
  <2>1. CASE i = e
    <3>1. N + 1 \in 1 .. N + 1
      BY <1>4
    <3>2. QED
      BY <1>6, <2>1, <3>1
  <2>2. CASE i \in Read
    <3>1. PICK n \in 1 .. N : i = seps[n]
      BY <1>5, <2>2
    <3>2. n \in 1 .. N + 1
      BY <1>4
    <3>3. QED
      BY <1>6, <3>1, <3>2
  <2>3. QED
    BY <1>1, <2>1, <2>2
<1>11. \A i : KeyOfLine(i)' = KeyOfLine(i) /\ ValueOf(i)' = ValueOf(i) /\ ReadLine(i)' = ReadLine(i)
  BY <1>1, SameText DEF ReadLine
<1>12. LinesRead(a, s)'
  <2>1. text' = text /\ Len(ordered_keys_') = N + 1
    BY <1>1, <1>4
  <2>2. (a \in [0 .. Len(ordered_keys_) -> Nat] /\ a[0] = 0 /\ a[Len(ordered_keys_)] = key_beg - 1)'
    BY <1>7, <1>8, <2>1
  <2>3. ASSUME NEW n \in 1 .. N + 1
        PROVE  (/\ s[n] \in Read /\ ordered_keys_[n] = KeyOfLine(s[n])
                /\ KeyOfLine(s[n]) \in Text /\ ValueOf(s[n]) \in Value
                /\ StandsAt(text, ReadLine(s[n]), a[n - 1], a[n]))'
    BY <1>9, <1>11, <2>1
  <2>4. QED
    BY <1>10, <2>1, <2>2, <2>3 DEF LinesRead
<1>13. QED
  BY <1>12

LEMMA InitLines == Init => LinesInv
<1> SUFFICES ASSUME Init, doing # "building" PROVE LinesInv
  BY DEF LinesInv
<1>1. /\ key_beg = 1 /\ ordered_keys_ = <<>>
      /\ text \in UNION {Dispatched(lines) : lines \in Received}
  BY DEF Init
<1>2. PICK lines \in Received : text = lines \o EOM
  BY <1>1 DEF Dispatched
<1>3. Len(text) >= 2
  <2>1. lines \in Text /\ EOM \in Text /\ Len(EOM) = 2
    BY ReceivedAssumption, EORIsText DEF EOM
  <2>2. Follows(lines, EOM, text)
    BY <1>2, <2>1, ConcatText
  <2>3. QED
    BY <2>1, <2>2 DEF Follows
<1>4. Read = {}
  <2>1. text \in Text
    BY InitParse DEF ParseInv, TypeOK
  <2>2. \A i \in Keyed : ~(i < 1)
    BY <2>1, KeyedTyping
  <2>3. QED
    BY <1>1, <2>2 DEF Read
<1>5. PICK at : at = [n \in 0 .. 0 |-> 0]
  OBVIOUS
<1>6. at \in [0 .. 0 -> Nat] /\ at[0] = 0 /\ Len(ordered_keys_) = 0 /\ 1 .. 0 = {} /\ key_beg - 1 = 0
  BY <1>1, <1>5
<1>7. LinesRead(at, at)
  BY <1>4, <1>6 DEF LinesRead
<1>8. QED
  BY <1>3, <1>7 DEF LinesInv

LEMMA StepKeepsLines == ParseInv /\ BuildInv /\ ReadInv /\ LinesInv /\ [Next]_vars => LinesInv'
<1> SUFFICES ASSUME ParseInv, BuildInv, ReadInv, LinesInv, [Next]_vars PROVE LinesInv'
  OBVIOUS
<1>1. CASE ParseLine
  <2>1. doing # "building" /\ text' = text
    BY <1>1 DEF ParseLine
  <2>2. StandsBehind /\ Len(text) >= 2
    BY <2>1 DEF ReadInv, LinesInv
  <2>3. PICK at, seps : LinesRead(at, seps)
    BY <2>1 DEF LinesInv
  <2>4. (\E a, s : LinesRead(a, s))'
    BY <1>1, <2>2, <2>3, ReadOneMore
  <2>5. QED
    BY <2>1, <2>2, <2>4 DEF LinesInv
<1>2. CASE ParseEnd \/ UNCHANGED vars
  <2>1. UNCHANGED <<text, key_beg, ordered_keys_>> /\ (doing' = "building" => doing = "building")
        /\ (doing = "building" => doing' = "building")
    BY <1>2 DEF ParseEnd, vars
  <2>2. Read' = Read /\ \A i : /\ KeyOfLine(i)' = KeyOfLine(i) /\ ValueOf(i)' = ValueOf(i)
                               /\ ReadLine(i)' = ReadLine(i)
    BY <2>1, SameText DEF Read, ReadLine
  <2>3. ASSUME NEW at, NEW seps, LinesRead(at, seps) PROVE LinesRead(at, seps)'
    BY <2>1, <2>2, <2>3 DEF LinesRead
  <2>4. CASE doing = "building"
    BY <2>1, <2>4 DEF LinesInv
  <2>5. CASE doing # "building"
    <3>1. Len(text) >= 2 /\ \E at, seps : LinesRead(at, seps)
      BY <2>5 DEF LinesInv
    <3>2. (\E at, seps : LinesRead(at, seps))'
      BY <2>3, <3>1
    <3>3. QED
      BY <2>1, <3>1, <3>2 DEF LinesInv
  <2>6. QED
    BY <2>4, <2>5
<1>3. ASSUME NEW key, NEW val, Subscript(key) \/ SetValue(key, val) PROVE LinesInv'
  BY <1>3 DEF Subscript, SetValue, LinesInv
<1>4. CASE Send
  <2>1. /\ doing = "building" /\ text' = ActionToString /\ key_beg' = 1 /\ ordered_keys_' = <<>>
    BY <1>4 DEF Send
  <2>2. PICK at : LaidOut(ActionToString, SentKeys(Sending), SentValues(Sending), at)
    BY <2>1, SendingIsLaidOut DEF ParseInv
  <2>3. KeysAndValues(SentKeys(Sending), SentValues(Sending))
    BY <2>1, SendingTypes, SentIsADictionary DEF ParseInv
  <2>4. PICK ks, vs : ks = SentKeys(Sending) /\ vs = SentValues(Sending)
    OBVIOUS
  <2>5. LaidOut(text', ks, vs, at) /\ KeysAndValues(ks, vs)
    BY <2>1, <2>2, <2>3, <2>4
  <2>6. Len(text') >= 2
    <3>1. 1 \in 1 .. Len(ks) /\ 0 \in 0 .. Len(ks) /\ 1 \in 0 .. Len(ks) /\ Len(ks) \in 0 .. Len(ks)
      BY <2>5 DEF KeysAndValues
    <3>2. at[0] \in Nat /\ at[1] \in Nat /\ at[Len(ks)] \in Nat /\ Len(text') = at[Len(ks)] + 1
      BY <2>5, <3>1 DEF LaidOut
    <3>3. LineAt(text', ks[1], vs[1], at[0], at[1]) /\ ks[1] \in OneWord /\ vs[1] \in Text
      <4>1. 1 - 1 = 0
        OBVIOUS
      <4>2. LineAt(text', ks[1], vs[1], at[1 - 1], at[1])
        BY <2>5, <3>1 DEF LaidOut
      <4>3. QED
        BY <2>5, <3>1, <4>1, <4>2 DEF KeysAndValues
    <3>4. at[1] > at[0]
      BY <3>2, <3>3, LineBegins
    <3>5. at[1] <= at[Len(ks)]
      BY <2>5, <3>1, LaidOutGrows
    <3>6. QED
      BY <3>2, <3>4, <3>5
  <2>7. Read' = {}
    <3>1. text' \in Text
      BY StepKeepsParse DEF ParseInv, TypeOK
    <3>2. Keyed' \subseteq DOMAIN text' /\ DOMAIN text' = 1 .. Len(text') /\ Len(text') \in Nat
      BY <3>1, LenProperties DEF Keyed, Text
    <3>3. QED
      BY <2>1, <3>2 DEF Read
  <2>8. PICK z : z = [n \in 0 .. 0 |-> 0]
    OBVIOUS
  <2>9. z \in [0 .. 0 -> Nat] /\ z[0] = 0 /\ Len(ordered_keys_') = 0 /\ 1 .. 0 = {} /\ key_beg' - 1 = 0
    BY <2>1, <2>8
  <2>10. LinesRead(z, z)'
    BY <2>7, <2>9 DEF LinesRead
  <2>11. QED
    BY <2>6, <2>10 DEF LinesInv
<1>5. QED
  BY <1>1, <1>2, <1>3, <1>4 DEF Next

(* The value of a key is that of the first line that has it.               *)
LEMMA FirstOfKey ==
    ASSUME text \in Text, ReadInv, doing # "building", NEW i \in Read
    PROVE  /\ KeyOfLine(i) \in DOMAIN values_
           /\ \E h \in Read : KeyOfLine(h) = KeyOfLine(i) /\ values_[KeyOfLine(i)] = ValueOf(h)
<1> DEFINE same == {h \in Read : KeyOfLine(h) = KeyOfLine(i)}
<1>1. i \in same /\ Read \subseteq Nat
  <2>1. Read \subseteq Nat
    BY KeyedTyping DEF Read
  <2>2. QED
    BY <2>1
<1>2. PICK h \in same : \A j \in same : h <= j
  <2>1. same \in SUBSET Nat /\ same # {}
    BY <1>1
  <2> HIDE DEF same
  <2>2. QED
    BY <2>1, LeastOf
<1>3. ASSUME NEW j \in Read, j < h PROVE KeyOfLine(j) # KeyOfLine(h)
  <2>1. j \notin same
    BY <1>1, <1>2, <1>3
  <2>2. QED
    BY <1>2, <2>1
<1>4. values_[KeyOfLine(h)] = ValueOf(h) /\ DOMAIN values_ = {KeyOfLine(j) : j \in Read}
  BY <1>2, <1>3 DEF ReadInv
<1>5. QED
  BY <1>2, <1>4

(* What a parsed dictionary prints: its keys, in the places of the lines   *)
(* they come from, each with the value of the first of them.               *)
ParsedPrinting(f, p, ks, vs, ws, at, N) ==
    /\ N \in Nat /\ Laid(text, p, at) /\ at[N] = key_beg - 1
    /\ KeysPrinted(p, ks, vs, N) /\ KeysPrinted(Printed, ks, ws, N)
    /\ Lines(f, Printed) /\ ToString = f[N] \o <<EOR>> /\ f[N] \in Text
    /\ \A n \in 1 .. N : \E h \in Keyed : KeyOfLine(h) = ks[n] /\ ws[n] = ValueOf(h)
    /\ \A n \in 1 .. N : \E h \in Keyed : KeyOfLine(h) = ks[n] /\ vs[n] = ValueOf(h)
    /\ \A h \in Keyed : \E n \in 1 .. N : KeyOfLine(h) = ks[n] /\ vs[n] = ValueOf(h)
    /\ \A m, n \in 1 .. N : ks[m] = ks[n] => ws[m] = ws[n]

LEMMA ParsedPrints ==
    ASSUME ParseInv, ReadInv, LinesInv, doing = "parsed"
    PROVE  \E f, p, ks, vs, ws, at, N : ParsedPrinting(f, p, ks, vs, ws, at, N)
<1>1. PICK at, seps : LinesRead(at, seps)
  BY DEF LinesInv
<1>2. PICK N : N = Len(ordered_keys_)
  OBVIOUS
<1>3. TypeOK /\ Read = Keyed /\ text \in Text
  BY DEF ParseInv, ReadInv, TypeOK
<1>4. /\ Printed \in Seq(Text) /\ Len(Printed) = N /\ N \in Nat
      /\ \A n \in 1 .. N : Printed[n] = Line(ordered_keys_[n], At(ordered_keys_[n]))
  BY <1>2, <1>3, PrintedTyping
<1>5. /\ at \in [0 .. N -> Nat] /\ at[0] = 0 /\ at[N] = key_beg - 1
      /\ \A n \in 1 .. N :
            /\ seps[n] \in Keyed /\ ordered_keys_[n] = KeyOfLine(seps[n])
            /\ KeyOfLine(seps[n]) \in Text /\ ValueOf(seps[n]) \in Value
            /\ StandsAt(text, ReadLine(seps[n]), at[n - 1], at[n])
      /\ \A i \in Keyed : \E n \in 1 .. N : i = seps[n]
  BY <1>1, <1>2, <1>3 DEF LinesRead
<1>6. PICK ks, vs, ws, p :
         /\ ks = [n \in 1 .. N |-> KeyOfLine(seps[n])]
         /\ vs = [n \in 1 .. N |-> ValueOf(seps[n])]
         /\ ws = [n \in 1 .. N |-> At(KeyOfLine(seps[n]))]
         /\ p  = [n \in 1 .. N |-> ReadLine(seps[n])]
  OBVIOUS
<1>7. \A n \in 1 .. N : /\ ks[n] = KeyOfLine(seps[n]) /\ vs[n] = ValueOf(seps[n])
                        /\ ws[n] = At(ks[n]) /\ p[n] = Line(ks[n], vs[n]) /\ p[n] = ReadLine(seps[n])
  BY <1>6 DEF ReadLine
<1>8. ASSUME NEW n \in 1 .. N
      PROVE  \E h \in Keyed : KeyOfLine(h) = ks[n] /\ ws[n] = ValueOf(h)
  <2>1. seps[n] \in Read /\ ks[n] = KeyOfLine(seps[n]) /\ ws[n] = At(ks[n])
    BY <1>3, <1>5, <1>7
  <2>2. PICK h \in Read : KeyOfLine(h) = ks[n] /\ values_[ks[n]] = ValueOf(h) /\ ks[n] \in DOMAIN values_
    BY <1>3, <2>1, FirstOfKey
  <2>3. QED
    BY <1>3, <2>1, <2>2 DEF At
<1>9. \A n \in 1 .. N : ks[n] \in Text /\ vs[n] \in Value /\ ws[n] \in Value
  <2>1. \A h \in Keyed : ValueOf(h) \in Value
    BY <1>5
  <2>2. QED
    BY <1>5, <1>7, <1>8, <2>1
<1>10. KeysPrinted(p, ks, vs, N) /\ Len(p) = N
  <2>1. \A n \in 1 .. N : p[n] \in Text
    BY <1>7, <1>9, LineTyping DEF Value
  <2>2. p \in Seq(Text)
    BY <1>4, <1>6, <2>1, SeqDef
  <2>3. DOMAIN p = 1 .. N
    BY <1>6
  <2>4. Len(p) = N
    BY <1>4, <2>2, <2>3, LenByDomain
  <2>5. QED
    BY <1>7, <1>9, <2>2, <2>4 DEF KeysPrinted
<1>11. KeysPrinted(Printed, ks, ws, N)
  BY <1>4, <1>5, <1>7, <1>9 DEF KeysPrinted
<1>12. Laid(text, p, at)
  BY <1>5, <1>7, <1>10 DEF Laid
<1>13. PICK f : Lines(f, Printed) /\ ToString = f[Len(Printed)] \o <<EOR>>
  BY <1>3, ToStringIs
<1>14. ToString = f[N] \o <<EOR>> /\ f[N] \in Text
  <2>1. Len(Printed) \in 0 .. Len(Printed)
    BY <1>4
  <2>2. QED
    BY <1>4, <1>13, <2>1, LinesAre
<1>15. \A h \in Keyed : \E n \in 1 .. N : KeyOfLine(h) = ks[n] /\ vs[n] = ValueOf(h)
  BY <1>5, <1>7
<1>16. \A n \in 1 .. N : \E h \in Keyed : KeyOfLine(h) = ks[n] /\ vs[n] = ValueOf(h)
  BY <1>5, <1>7
<1>17. \A m, n \in 1 .. N : ks[m] = ks[n] => ws[m] = ws[n]
  BY <1>7
<1>18. ParsedPrinting(f, p, ks, vs, ws, at, N)
  BY <1>4, <1>5, <1>8, <1>10, <1>11, <1>12, <1>13, <1>14, <1>15, <1>16, <1>17 DEF ParsedPrinting
<1>19. QED
  BY <1>18

(* If what is printed is what was read, every line has the value of the    *)
(* first with its key, and the last of them ends where the text does.      *)
LEMMA PrintedIsRead ==
    ASSUME ParseInv, ReadInv, LinesInv, doing = "parsed", ToString = text
    PROVE  /\ \E i \in Keyed : LineEnd(i) = Len(text) - 1
           /\ \A i, j \in Keyed : KeyOfLine(i) = KeyOfLine(j) => ValueOf(i) = ValueOf(j)
<1>1. PICK f, p, ks, vs, ws, at, N : ParsedPrinting(f, p, ks, vs, ws, at, N)
  BY ParsedPrints
<1>2. /\ N \in Nat /\ at[N] = key_beg - 1 /\ f[N] \in Text
      /\ Laid(text, p, at) /\ KeysPrinted(p, ks, vs, N) /\ KeysPrinted(Printed, ks, ws, N)
      /\ Lines(f, Printed) /\ text = f[N] \o <<EOR>>
  BY <1>1 DEF ParsedPrinting
<1>3. /\ Len(text) = Len(f[N]) + 1 /\ Len(f[N]) \in Nat
      /\ \A j \in 1 .. Len(f[N]) : text[j] = f[N][j]
  <2>1. <<EOR>> \in Text /\ Len(<<EOR>>) = 1
    BY EORIsText
  <2>2. Follows(f[N], <<EOR>>, text)
    BY <1>2, <2>1, ConcatText
  <2>3. QED
    BY <2>1, <2>2 DEF Follows
<1>4. Len(f[N]) = at[N] /\ \A n \in 1 .. N : vs[n] = ws[n]
  <2>1. SamePlaces(text, p, Printed, ks, vs, ws, at, f, N)
    BY <1>2, <1>3 DEF SamePlaces
  <2>2. QED
    BY <2>1, PrintedAlike
<1>5. \E i \in Keyed : LineEnd(i) = Len(text) - 1
  <2>1. Len(text) >= 2 /\ StandsBehind /\ Read = Keyed /\ key_beg \in Nat
    BY DEF LinesInv, ReadInv, ParseInv, TypeOK
  <2>2. Len(text) = key_beg
    BY <1>2, <1>3, <1>4, <2>1
  <2>3. QED
    BY <2>1, <2>2 DEF StandsBehind
<1>6. ASSUME NEW i \in Keyed, NEW j \in Keyed, KeyOfLine(i) = KeyOfLine(j) PROVE ValueOf(i) = ValueOf(j)
  <2>1. PICK m \in 1 .. N : KeyOfLine(i) = ks[m] /\ vs[m] = ValueOf(i)
    BY <1>1 DEF ParsedPrinting
  <2>2. PICK n \in 1 .. N : KeyOfLine(j) = ks[n] /\ vs[n] = ValueOf(j)
    BY <1>1 DEF ParsedPrinting
  <2>3. ws[m] = ws[n]
    <3>1. \A a, b \in 1 .. N : ks[a] = ks[b] => ws[a] = ws[b]
      BY <1>1 DEF ParsedPrinting
    <3>2. ks[m] = ks[n]
      BY <1>6, <2>1, <2>2
    <3>3. QED
      BY <3>1, <3>2
  <2>4. QED
    BY <1>4, <2>1, <2>2, <2>3
<1>7. QED
  BY <1>5, <1>6

(* The line that ends before the last token is the last that has been read. *)
LEMMA ReadToTheEnd ==
    ASSUME ParseInv, ReadInv, LinesInv, doing = "parsed",
           NEW i \in Keyed, LineEnd(i) = Len(text) - 1
    PROVE  key_beg = Len(text)
<1>1. /\ Len(text) >= 2 /\ StandsBehind /\ i \in Read /\ Read = Keyed
      /\ text \in Text /\ key_beg \in 1 .. Len(text) + 1 /\ EndsWithEOR(text) /\ Len(text) \in Nat
  BY DEF LinesInv, ReadInv, ParseInv, TypeOK, TextEnds, EndsWithEOR
<1>2. Len(text) - 1 <= key_beg - 1
  BY <1>1 DEF StandsBehind
<1>3. ASSUME key_beg = Len(text) + 1 PROVE FALSE
  <2>1. PICK h \in Keyed : LineEnd(h) = Len(text)
    <3>1. key_beg # 1 /\ key_beg - 1 = Len(text)
      BY <1>1, <1>3
    <3>2. QED
      BY <1>1, <3>1 DEF StandsBehind
  <2>2. /\ i \in 1 .. Len(text) /\ h \in 1 .. Len(text) /\ text[h] = SEP
    BY <1>1, KeyedTyping
  <2>3. text[Len(text) - 1] = EOR
    <3>1. Find(EOR, i) = Len(text) - 1 /\ i \in Nat \ {0}
      BY <2>2 DEF LineEnd
    <3>2. Find(EOR, i) # NPos
      BY <1>1, <3>1 DEF NPos
    <3>3. text[Find(EOR, i)] = EOR
      BY <1>1, <3>1, <3>2, Finds
    <3>4. QED
      BY <3>1, <3>3
  <2>4. h # Len(text) /\ h # Len(text) - 1
    BY <1>1, <2>2, <2>3, DelimiterAssumption DEF EndsWithEOR
  <2>5. Len(text) - 1 \in h .. Len(text) /\ h \in Nat \ {0}
    BY <1>1, <2>2, <2>4
  <2>6. Find(EOR, h) = Len(text)
    BY <2>1 DEF LineEnd
  <2>7. Find(EOR, h) <= Len(text) - 1
    <3>1. Find(EOR, h) # NPos
      BY <1>1, <2>6 DEF NPos
    <3>2. QED
      BY <1>1, <2>3, <2>5, <3>1, Finds
  <2>8. QED
    BY <1>1, <2>6, <2>7
<1>4. QED
  BY <1>1, <1>2, <1>3

LEMMA ReadIsPrinted ==
    ASSUME ParseInv, ReadInv, LinesInv, doing = "parsed",
           NEW i \in Keyed, LineEnd(i) = Len(text) - 1,
           \A h, j \in Keyed : KeyOfLine(h) = KeyOfLine(j) => ValueOf(h) = ValueOf(j)
    PROVE  ToString = text
<1>1. PICK f, p, ks, vs, ws, at, N : ParsedPrinting(f, p, ks, vs, ws, at, N)
  BY ParsedPrints
<1>2. /\ N \in Nat /\ at[N] = key_beg - 1 /\ f[N] \in Text
      /\ Laid(text, p, at) /\ KeysPrinted(p, ks, vs, N) /\ KeysPrinted(Printed, ks, ws, N)
      /\ Lines(f, Printed) /\ ToString = f[N] \o <<EOR>>
  BY <1>1 DEF ParsedPrinting
<1>3. key_beg = Len(text) /\ text \in Text /\ EndsWithEOR(text) /\ Len(text) \in Nat
  BY ReadToTheEnd DEF ParseInv, TypeOK, TextEnds, EndsWithEOR
<1>4. ASSUME NEW n \in 1 .. N PROVE vs[n] = ws[n]
  <2>1. PICK h \in Keyed : KeyOfLine(h) = ks[n] /\ ws[n] = ValueOf(h)
    BY <1>1 DEF ParsedPrinting
  <2>2. PICK j \in Keyed : KeyOfLine(j) = ks[n] /\ vs[n] = ValueOf(j)
    BY <1>1 DEF ParsedPrinting
  <2>3. QED
    BY <2>1, <2>2
<1>5. p \in Seq(Text) /\ Printed \in Seq(Text) /\ Len(p) = N /\ Len(Printed) = N
      /\ \A n \in 1 .. N : p[n] = Printed[n]
  BY <1>2, <1>4 DEF KeysPrinted
<1>6. p = Printed
  BY <1>5, SeqEqual
<1>7. /\ Len(f[N]) = at[N] /\ \A j \in 1 .. at[N] : text[j] = f[N][j]
  <2>1. Laid(text, p, at) /\ Lines(f, p) /\ p \in Seq(Text)
    BY <1>2, <1>5, <1>6
  <2>2. /\ Len(f[Len(p)]) = at[Len(p)]
        /\ \A j \in 1 .. at[Len(p)] : text[j] = f[Len(p)][j]
    BY <2>1, PrintedBack
  <2>3. QED
    BY <1>5, <2>2
<1>8. /\ ToString \in Text /\ Len(ToString) = Len(f[N]) + 1 /\ ToString[Len(f[N]) + 1] = EOR
      /\ \A j \in 1 .. Len(f[N]) : ToString[j] = f[N][j]
  <2>1. <<EOR>> \in Text /\ Len(<<EOR>>) = 1 /\ <<EOR>>[1] = EOR /\ 1 \in 1 .. 1
    BY EORIsText
  <2>2. ToString \in Text /\ Follows(f[N], <<EOR>>, ToString)
    BY <1>2, <2>1, ConcatText
  <2>3. QED
    BY <2>1, <2>2 DEF Follows
<1> DEFINE L == Len(text)
<1>9. Len(f[N]) = L - 1 /\ Len(ToString) = L /\ ToString[L] = EOR /\ text[L] = EOR
  BY <1>2, <1>3, <1>7, <1>8 DEF EndsWithEOR
<1>10. ASSUME NEW j \in 1 .. L PROVE ToString[j] = text[j]
  <2>1. CASE j = L
    BY <1>9, <2>1
  <2>2. CASE j # L
    <3>1. j \in 1 .. Len(f[N]) /\ j \in 1 .. at[N]
      BY <1>3, <1>7, <1>9, <2>2
    <3>2. QED
      BY <1>7, <1>8, <3>1
  <2>3. QED
    BY <2>1, <2>2
<1>11. QED
  BY <1>3, <1>8, <1>9, <1>10, SameSeq DEF Text

(* ami_message_tests.cpp: a message of any length prints as it was         *)
(* received, exactly if it ends with a line that has a separator and lines *)
(* with the same key agree.                                                *)
THEOREM PrintsBack == Spec => []PrintsWhatItParsed
<1> DEFINE Inv == ParseInv /\ BuildInv /\ ReadInv /\ LinesInv
<1>1. Init => Inv
  BY InitParse, InitBuild, InitRead, InitLines
<1>2. Inv /\ [Next]_vars => Inv'
  BY StepKeepsParse, StepKeepsBuild, StepKeepsRead, StepKeepsLines
<1>3. Inv => PrintsWhatItParsed
  <2> SUFFICES ASSUME ParseInv, ReadInv, LinesInv, doing = "parsed" PROVE PrintsWhatItParsed
    BY DEF PrintsWhatItParsed
  <2>1. ToString = text =>
            /\ \E i \in Keyed : LineEnd(i) = Len(text) - 1
            /\ \A i, j \in Keyed : KeyOfLine(i) = KeyOfLine(j) => ValueOf(i) = ValueOf(j)
    BY PrintedIsRead
  <2>2. ASSUME \E i \in Keyed : LineEnd(i) = Len(text) - 1,
               \A i, j \in Keyed : KeyOfLine(i) = KeyOfLine(j) => ValueOf(i) = ValueOf(j)
        PROVE  ToString = text
    BY <2>2, ReadIsPrinted
  <2>3. QED
    BY <2>1, <2>2 DEF PrintsWhatItParsed
<1> HIDE DEF Inv
<1>4. QED
  BY <1>1, <1>2, <1>3, PTL DEF Spec
================================================================================
