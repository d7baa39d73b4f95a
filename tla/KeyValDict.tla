------------------------------ MODULE KeyValDict ------------------------------
(***************************************************************************)
(* KeyValDict, and the actions built on it: a dictionary that is either    *)
(* parsed from the text of an AMI message, one pass of set_message's loop  *)
(* at a time, or declared key by key by an action class, given values, and *)
(* printed.  Whoever receives a printed action parses it in the same way.  *)
(*                                                                         *)
(* A text is a sequence of tokens: the two delimiters and words, which     *)
(* stand for any characters in between.  The delimiters cannot overlap, so *)
(* find() sees a text of tokens as it sees one of characters.              *)
(***************************************************************************)
EXTENDS Naturals, Sequences, FiniteSets, Functions

CONSTANTS SEP, EOR,   \* the delimiters ": " and "\r\n"
          Word,       \* what stands between them
          Received,   \* the lines of the messages that arrive, as texts
          Values      \* what a program gives the keys of an action

Token == Word \cup {SEP, EOR}
Text  == Seq(Token)
EOM   == <<EOR, EOR>>

\* The words of the library itself: names of actions, keys and values.
LibraryWords ==
    {"Action", "ActionID", "uuid", "Challenge", "AuthType", "MD5", "DeviceStateList", "Events",
     "EventMask", "on", "ExtensionState", "Exten", "Context", "Getvar", "Channel", "Variable",
     "ListCommands", "Login", "Username", "Secret", "Key", "Logoff", "MailboxCount", "Mailbox",
     "MailboxStatus", "ParkedCalls", "ParkingLot", "Parkinglots", "Ping", "VoicemailBoxSummary",
     "VoicemailRefresh"}

ASSUME WordAssumption      == LibraryWords \subseteq Word /\ SEP \notin Word /\ EOR \notin Word
ASSUME DelimiterAssumption == SEP # EOR
ASSUME ReceivedAssumption  == Received \subseteq Text
ASSUME ValuesAssumption    == Values \subseteq Text

VARIABLES
    doing,          \* "parsing", "parsed", "endless" or "building"
    text,           \* set_message's event_buf
    key_beg,        \* its position in it
    ordered_keys_,  \* the keys in order, with repetitions
    values_,        \* key -> value, for the keys that have one
    action_,        \* name of the action being built, <<>> for none
    sent            \* keys and values of the action that printed text, <<>> for none

vars == <<doing, text, key_beg, ordered_keys_, values_, action_, sent>>

NoValues == [k \in {} |-> <<>>]

-----------------------------------------------------------------------------
(* The action classes: what their constructors make. *)

ActionOf(name, keys) ==
    [action |-> <<name>>, keys |-> [i \in DOMAIN keys |-> <<keys[i]>>], values |-> NoValues]

\* values_[key] = val
Put(values, key, val) == [k \in DOMAIN values \cup {key} |-> IF k = key THEN val ELSE values[k]]

With(action, key, val) == [action EXCEPT !.values = Put(@, <<key>>, val)]

Challenge       == {With(ActionOf("Challenge", <<"AuthType">>), "AuthType", <<"MD5">>)}
DeviceStateList == {ActionOf("DeviceStateList", <<>>)}
Events          == {With(ActionOf("Events", <<"EventMask">>), "EventMask", <<"on">>)}
ExtensionState  == {ActionOf("ExtensionState", <<"Exten", "Context">>)}
Getvar          == {ActionOf("Getvar", <<"Channel", "Variable">>)}
ListCommands    == {ActionOf("ListCommands", <<>>)}
EmptyLogin      == ActionOf("Login", <<"Username", "AuthType", "Secret", "Key", "Events">>)
Login           == {With(With(EmptyLogin, "Username", u), "Secret", s) : u, s \in Values}
Logoff          == {ActionOf("Logoff", <<>>)}
MailboxCount    == {With(ActionOf("MailboxCount", <<"Mailbox">>), "Mailbox", v) : v \in Values}
MailboxStatus   == {With(ActionOf("MailboxStatus", <<"Mailbox">>), "Mailbox", v) : v \in Values}
ParkedCalls     == {ActionOf("ParkedCalls", <<"ParkingLot">>)}
Parkinglots     == {ActionOf("Parkinglots", <<>>)}
Ping            == {ActionOf("Ping", <<>>)}
VoicemailBoxSummary ==
    {With(With(ActionOf("VoicemailBoxSummary", <<"Context", "Mailbox">>), "Context", c),
          "Mailbox", m) : c, m \in Values}
VoicemailRefresh == {ActionOf("VoicemailRefresh", <<"Context", "Mailbox">>)}

Actions == UNION {Challenge, DeviceStateList, Events, ExtensionState, Getvar, ListCommands,
                  {EmptyLogin}, Login, Logoff, MailboxCount, MailboxStatus, ParkedCalls,
                  Parkinglots, Ping, VoicemailBoxSummary, VoicemailRefresh}

ActionKey   == <<"Action">>
ActionIDKey == <<"ActionID">>
create_uuid == <<"uuid">>

-----------------------------------------------------------------------------
(* Lookup and printing. *)

HasKey(key) == key \in Range(ordered_keys_)

\* get_value, <<>> for nullopt
GetValue(key) == IF key \in DOMAIN values_ THEN <<values_[key]>> ELSE <<>>

\* operator[] of a const dictionary, for a known key
At(key) == IF key \in DOMAIN values_ THEN values_[key] ELSE <<>>

Line(key, val) == key \o <<SEP>> \o val \o <<EOR>>

\* Two faulty variants of to_string: without the empty line, and without the keys that
\* have no value.
ToStringOpen ==
    LET lines[n \in 0 .. Len(ordered_keys_)] ==
            IF n = 0 THEN <<>> ELSE lines[n - 1] \o Line(ordered_keys_[n], At(ordered_keys_[n]))
    IN  lines[Len(ordered_keys_)]

ToStringSetOnly ==
    LET lines[n \in 0 .. Len(ordered_keys_)] ==
            IF n = 0 THEN <<>>
            ELSE lines[n - 1] \o IF ordered_keys_[n] \notin DOMAIN values_ THEN <<>>
                                 ELSE Line(ordered_keys_[n], At(ordered_keys_[n]))
    IN  lines[Len(ordered_keys_)] \o <<EOR>>

ToString ==
    LET lines[n \in 0 .. Len(ordered_keys_)] ==
            IF n = 0 THEN <<>> ELSE lines[n - 1] \o Line(ordered_keys_[n], At(ordered_keys_[n]))
    IN  lines[Len(ordered_keys_)] \o <<EOR>>

ActionToString == Line(ActionKey, action_) \o Line(ActionIDKey, create_uuid) \o ToString

-----------------------------------------------------------------------------
\* What StreamParser dispatches: a text that ends with the first EOM in it.  In the
\* faulty variant it has dropped the EOM.
EndsMessage(t, i) == i < Len(t) /\ t[i] = EOR /\ t[i + 1] = EOR
FirstMessage(t)   == \A i \in DOMAIN t : EndsMessage(t, i) <=> i = Len(t) - 1

DispatchedTrimmed(lines) == {t \in {lines} : t # <<>> /\ FirstMessage(t \o EOM)}

Dispatched(lines) == {t \in {lines \o EOM} : FirstMessage(t)}

Init == \/ /\ doing = "parsing"
           /\ text \in UNION {Dispatched(lines) : lines \in Received}
           /\ ordered_keys_ = <<>> /\ values_ = NoValues /\ action_ = <<>>
           /\ key_beg = 1 /\ sent = <<>>
        \/ \E a \in Actions :
              /\ doing = "building"
              /\ ordered_keys_ = a.keys /\ values_ = a.values /\ action_ = a.action
              /\ text = <<>> /\ key_beg = 1 /\ sent = <<>>

-----------------------------------------------------------------------------
(* set_message. *)

NPos == 0

\* text.find(token, from)
Find(token, from) ==
    LET found == {i \in from .. Len(text) : text[i] = token}
    IN  IF found = {} THEN NPos ELSE CHOOSE i \in found : \A j \in found : i <= j

\* A faulty variant of the next: the last value of a repeated key wins.
EmplaceOver(values, key, val) == Put(values, key, val)

\* values_.emplace, which leaves the value of a key that has one
Emplace(values, key, val) == IF key \in DOMAIN values THEN values ELSE Put(values, key, val)

\* A faulty variant of the next: it skips the delimiter twice.
ParseLineSkipping ==
    /\ doing = "parsing"
    /\ Find(SEP, key_beg) # NPos
    /\ LET key_end == Find(SEP, key_beg)
           val_end == Find(EOR, key_end + 1)
           key     == SubSeq(text, key_beg, key_end - 1)
       IN  /\ ordered_keys_' = Append(ordered_keys_, key)
           /\ values_' = Emplace(values_, key, SubSeq(text, key_end + 1, val_end - 1))
           /\ key_beg' = val_end + 3
    /\ UNCHANGED <<doing, text, action_, sent>>

\* The rest of a line after its separator is the value of what precedes it, which may
\* begin lines ago.  Without the end of a line key_beg becomes npos + 2, that is, the second
\* character: the loop starts over and never ends.
ParseLine ==
    /\ doing = "parsing"
    /\ Find(SEP, key_beg) # NPos
    /\ LET key_end == Find(SEP, key_beg)
           val_end == Find(EOR, key_end + 1)
           key     == SubSeq(text, key_beg, key_end - 1)
           val     == SubSeq(text, key_end + 1, IF val_end = NPos THEN Len(text) ELSE val_end - 1)
       IN  /\ ordered_keys_' = Append(ordered_keys_, key)
           /\ values_' = Emplace(values_, key, val)
           /\ key_beg' = IF val_end = NPos THEN 2 ELSE val_end + 1
           /\ doing' = IF val_end = NPos THEN "endless" ELSE doing
    /\ UNCHANGED <<text, action_, sent>>

ParseEnd ==
    /\ doing = "parsing"
    /\ Find(SEP, key_beg) = NPos
    /\ doing' = "parsed"
    /\ UNCHANGED <<text, key_beg, ordered_keys_, values_, action_, sent>>

-----------------------------------------------------------------------------
(* The program that uses an action. *)

SetUnknownValue(key, val) ==
    /\ doing = "building"
    /\ values_' = Put(values_, key, val)
    /\ UNCHANGED <<doing, text, key_beg, ordered_keys_, action_, sent>>

\* Throws if the key is not declared.  Assigning through operator[] does the same.
SetValue(key, val) ==
    /\ doing = "building"
    /\ values_' = IF HasKey(key) THEN Put(values_, key, val) ELSE values_
    /\ UNCHANGED <<doing, text, key_beg, ordered_keys_, action_, sent>>

\* operator[] enters a declared key that has no value.
Subscript(key) ==
    /\ doing = "building"
    /\ values_' = IF HasKey(key) THEN Put(values_, key, At(key)) ELSE values_
    /\ UNCHANGED <<doing, text, key_beg, ordered_keys_, action_, sent>>

\* The action is printed and its text parsed: set_message clears the dictionary.
Send ==
    /\ doing = "building"
    /\ doing' = "parsing"
    /\ text' = ActionToString
    /\ key_beg' = 1
    /\ ordered_keys_' = <<>> /\ values_' = NoValues /\ action_' = <<>>
    /\ sent' = <<[action |-> action_, keys |-> ordered_keys_,
                  values |-> [i \in DOMAIN ordered_keys_ |-> At(ordered_keys_[i])]]>>

Next == \/ ParseLine
        \/ ParseEnd
        \/ \E key \in Range(ordered_keys_) \cup {ActionIDKey} :
              Subscript(key) \/ \E val \in Values : SetValue(key, val)
        \/ Send

Spec == Init /\ [][Next]_vars /\ WF_vars(ParseLine \/ ParseEnd)

-----------------------------------------------------------------------------
(* Types: the loop is at the end of a line whenever it begins a pass.       *)
TypeOK == /\ doing \in {"parsing", "parsed", "endless", "building"}
          /\ text \in Text
          /\ ordered_keys_ \in Seq(Text)
          /\ \A key \in DOMAIN values_ : key \in Text /\ values_[key] \in Text
          /\ action_ \in Text
          /\ key_beg \in 1 .. Len(text) + 1
          /\ key_beg > 1 /\ doing # "endless" => text[key_beg - 1] = EOR

(* has_key searches ordered_keys_ and get_value searches values_, and       *)
(* dispatch_event asks one for EventList where add_event asks the other:    *)
(* for a message the two agree, and no dictionary has a value it would not  *)
(* print.                                                                   *)
LookupsAgree == /\ DOMAIN values_ \subseteq Range(ordered_keys_)
                /\ doing # "building" => DOMAIN values_ = Range(ordered_keys_)

(* The loop over a message that was dispatched ends: the last value of it   *)
(* is followed by the end of a line, so key_beg never starts over.          *)
ParsingEnds == doing = "parsing" ~> doing = "parsed"

(* The lines of a text that have a separator, by the first one they have;   *)
(* what the parser takes as the key, which begins where the last such line  *)
(* ended, and as the value.                                                 *)
Keyed == {i \in DOMAIN text : text[i] = SEP /\
              \A j \in 1 .. i - 1 : text[j] = SEP => \E k \in j .. i : text[k] = EOR}

LineEnd(i)   == Find(EOR, i)
KeyOfLine(i) == LET before == {LineEnd(j) : j \in {h \in Keyed : h < i}}
                IN  SubSeq(text, 1 + (CHOOSE p \in before \cup {0} : \A q \in before : q <= p), i - 1)
ValueOf(i)   == SubSeq(text, i + 1, LineEnd(i) - 1)

(* A message is looked up as its lines say, whatever the values contain: a  *)
(* separator in a value is part of it, a key has the value of the first     *)
(* line that gives it one, and only a line without a separator is taken for *)
(* the beginning of the next key.                                           *)
ParsedAsLines ==
    doing = "parsed" =>
        /\ Len(ordered_keys_) = Cardinality(Keyed)
        /\ \A i \in Keyed :
              /\ ordered_keys_[Cardinality({j \in Keyed : j <= i})] = KeyOfLine(i)
              /\ (\A j \in Keyed : j < i => KeyOfLine(j) # KeyOfLine(i))
                     => GetValue(KeyOfLine(i)) = <<ValueOf(i)>>

(* ami_message_tests.cpp: a parsed message prints as it was received.  That *)
(* is so exactly if the message ends with a line that has a separator, and  *)
(* lines with the same key agree.                                           *)
PrintsWhatItParsed ==
    doing = "parsed" =>
        (ToString = text <=>
            /\ \E i \in Keyed : LineEnd(i) = Len(text) - 1
            /\ \A i, j \in Keyed : KeyOfLine(i) = KeyOfLine(j) => ValueOf(i) = ValueOf(j))

\* The action that was sent is one message, cut nowhere else, and in what was parsed of it
\* are Action, ActionID and every declared key, in order, with the value each was given or
\* an empty one.
ArrivesAsBuilt ==
    /\ FirstMessage(text)
    /\ doing = "parsed" =>
          /\ ordered_keys_ = <<ActionKey, ActionIDKey>> \o sent[1].keys
          /\ GetValue(ActionKey) = <<sent[1].action>>
          /\ GetValue(ActionIDKey) = <<create_uuid>>
          /\ \A i \in DOMAIN sent[1].keys :
                GetValue(sent[1].keys[i]) = <<sent[1].values[i]>>

OneLine(val) == EOR \notin Range(val)

\* Every value of the action that was sent is on one line.
SentOneLiners == \A i \in DOMAIN sent[1].values : OneLine(sent[1].values[i])

(* An action none of whose values contains the end of a line arrives as it  *)
(* was built, with empty values and values that contain a separator.        *)
ActionArrives == sent # <<>> /\ SentOneLiners => ArrivesAsBuilt

(* KeyValDict.hpp, set_value: "Sets the value for key \c key to value       *)
(* \c val."  Whatever values a program sets, the action arrives as built.   *)
AnyActionArrives == sent # <<>> => ArrivesAsBuilt
================================================================================
