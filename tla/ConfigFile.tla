----------------------------- MODULE ConfigFile -----------------------------
(***************************************************************************)
(* ntap-c.conf on its way from the window to the client: connect_worker    *)
(* and write_gui_config (gui_win.c) write it, ntap_config_load             *)
(* (common/config.c) reads it line by line and ntap_c_config_load          *)
(* (c/config.c) checks what the client needs of it.  Somebody may have     *)
(* edited the file, and the disk may be full when it is written: the       *)
(* writer looks at no result.                                              *)
(*                                                                         *)
(* A text is a sequence of characters in which a key, a section's name and *)
(* a fixed value of the window's file count as one character each.  The    *)
(* five limits below are sizes in the code's sense: copy_text refuses a    *)
(* text that has as many characters as its buffer.                         *)
(***************************************************************************)
EXTENDS Integers, Sequences, FiniteSets, SequencesExt, FiniteSetsExt

CONSTANTS
    TypedChars, \* the characters that may be typed in a field of the window
    MaxTyped,   \* bound: how many of them
    Edits,      \* the texts that an editor may have added to the file
    LineMax,    \* what fgets takes at once: sizeof(line_buf) - 1
    SectionMax, \* NTAP_CONFIG_SECTION_MAX
    KeyMax,     \* NTAP_CONFIG_KEY_MAX
    ValueMax,   \* NTAP_CONFIG_VALUE_MAX
    EntriesMax  \* NTAP_CONFIG_MAX_ENTRIES

ASSUME BoundsAssumption ==
    {MaxTyped, LineMax, SectionMax, KeyMax, ValueMax, EntriesMax} \subseteq Nat \ {0}
ASSUME TextsAssumption == Edits \subseteq Seq(UNION {ToSet(e) : e \in Edits})

NL     == "\n"
Blanks == {" ", NL}
Digits == {"1"}
Fields == {"server_addr", "username", "password", "network_id", "tap_name"}
NoFile == [k \in {} |-> <<>>]

VARIABLES
    field,    \* the field of the window that is filled in by hand
    typed,    \* what was typed there
    edits,    \* what was added to the file
    whole,    \* the file as it should be
    stored,   \* the file as it is
    text,     \* what ntap_config_load has not read yet
    section,  \* its current section
    entries,  \* what it read: a value for each section and key
    status    \* "writing", "written", "loading"; "unread" (not opened, or a read
              \* failed), "error" (what is in it), "refused" or "ok"

vars == <<field, typed, edits, whole, stored, text, section, entries, status>>

Init ==
    /\ \/ field \in Fields /\ typed \in SeqOf(TypedChars, MaxTyped) /\ edits = <<>>
       \/ field = "username" /\ typed = <<"x">> /\ edits \in Edits
    /\ whole = <<>> /\ stored = <<>> /\ text = <<>>
    /\ section = <<>> /\ entries = NoFile
    /\ status = "writing"

-----------------------------------------------------------------------------
(* connect_worker, write_gui_config *)

(* What the other fields of the window hold. *)
Usual == [server_addr |-> <<"host", ":", "1">>, username |-> <<"user">>,
          password |-> <<"secret">>, network_id |-> <<"1">>, tap_name |-> <<"tap">>]

InField(f) == IF f = field THEN typed ELSE Usual[f]

(* Fault: what was typed is written as it is. *)
ScrubNothing(value) == value

(* scrub_config_value; no field holds a carriage return here *)
Scrub(value) == [i \in DOMAIN value |-> IF value[i] = NL THEN " " ELSE value[i]]

Written(f) ==
    CASE f = "network_id" /\ InField(f) = <<>> -> <<"1">>
      [] f = "tap_name" /\ InField(f) = <<>>   -> <<"ntap-c0">>
      [] OTHER                                 -> Scrub(InField(f))

Line(key, value) == <<key, "=">> \o value \o <<NL>>

GuiFile ==
    <<"[", "client", "]", NL>>
    \o Line("server_addr", Written("server_addr")) \o Line("username", Written("username"))
    \o Line("password", Written("password")) \o Line("network_id", Written("network_id"))
    \o Line("tap_name", Written("tap_name")) \o Line("mtu", <<"1">>) \o <<NL>>
    \o <<"[", "log", "]", NL>> \o Line("level", <<"info">>) \o Line("file", <<"path">>)

(* The window is complete.  fprintf and fclose may write only a part. *)
WriteFile ==
    /\ status = "writing" /\ edits = <<>>
    /\ \A f \in {"server_addr", "username", "password"} : InField(f) # <<>>
    /\ whole' = GuiFile
    /\ \E n \in 0 .. Len(GuiFile) : stored' = SubSeq(GuiFile, 1, n)
    /\ status' = "written"
    /\ UNCHANGED <<field, typed, edits, text, section, entries>>

(* An edited file: the new text alone, or after what the window wrote. *)
EditFile ==
    /\ status = "writing" /\ edits # <<>>
    /\ whole' \in {edits, GuiFile \o edits}
    /\ stored' = whole'
    /\ status' = "written"
    /\ UNCHANGED <<field, typed, edits, text, section, entries>>

(* A required field is empty: nothing is written and nothing runs. *)
WindowIncomplete ==
    /\ status = "writing" /\ edits = <<>>
    /\ \E f \in {"server_addr", "username", "password"} : InField(f) = <<>>
    /\ status' = "refused"
    /\ UNCHANGED <<field, typed, edits, whole, stored, text, section, entries>>

(* A field is longer than its buffer in UTF-8, or the file cannot be opened. *)
CannotWrite ==
    /\ status = "writing" /\ edits = <<>>
    /\ \A f \in {"server_addr", "username", "password"} : InField(f) # <<>>
    /\ status' = "refused"
    /\ UNCHANGED <<field, typed, edits, whole, stored, text, section, entries>>

-----------------------------------------------------------------------------
(* ntap_config_load *)
Chars(s, set) == {i \in DOMAIN s : s[i] \in set}

Trim(s) ==
    LET kept == DOMAIN s \ Chars(s, Blanks) IN
    IF kept = {} THEN <<>> ELSE SubSeq(s, Min(kept), Max(kept))

(* Fault: quotes mean nothing. *)
StripUnquoted(s) ==
    LET starts == Chars(s, {"#", ";"}) IN
    IF starts = {} THEN s ELSE SubSeq(s, 1, Min(starts) - 1)

(* A comment starts at the first # or ; that stands outside quotes.  The  *)
(* quotes stay in the value.                                              *)
StripComment(s) ==
    LET quoted(i) == Cardinality(Chars(SubSeq(s, 1, i), {"\""})) % 2 = 1
        starts    == {i \in Chars(s, {"#", ";"}) : ~quoted(i)} IN
    IF starts = {} THEN s ELSE SubSeq(s, 1, Min(starts) - 1)

(* A line that is trimmed never begins with NL. *)
First(line)     == IF line = <<>> THEN NL ELSE line[1]
Ignored(line)   == First(line) \in {NL, "#", ";"}
IsSection(line) == First(line) = "["

(* copy_text takes the end of the text along. *)
TooLong(s, size) == Len(s) >= size

(* Between the bracket and the first closing one; <<>> when there is none. *)
SectionName(line) ==
    LET closing == Chars(line, {"]"}) IN
    IF closing = {} THEN <<>> ELSE Trim(SubSeq(line, 2, Min(closing) - 1))

HasName(line) == SectionName(line) # <<>> /\ ~TooLong(SectionName(line), SectionMax)

Equals(line) == Chars(line, {"="})
Key(line)    == Trim(SubSeq(line, 1, Min(Equals(line)) - 1))
Value(line)  == Trim(StripComment(SubSeq(line, Min(Equals(line)) + 1, Len(line))))

(* How much fgets takes: through the end of the line, at most a buffer. *)
ChunkLen(s) == Min({LineMax, Len(s)} \union Chars(s, {NL}))
NextLine    == Trim(SubSeq(text, 1, ChunkLen(text)))
Consume     == text' = SubSeq(text, ChunkLen(text) + 1, Len(text))

(* ntap_config_init, fopen *)
Open ==
    /\ status = "written"
    /\ text' = stored /\ section' = <<>> /\ entries' = NoFile
    /\ status' = "loading"
    /\ UNCHANGED <<field, typed, edits, whole, stored>>

CannotOpen ==
    /\ status = "written" /\ status' = "unread"
    /\ UNCHANGED <<field, typed, edits, whole, stored, text, section, entries>>

(* ferror: fgets fails at any place, the end of the file included. *)
CannotRead ==
    /\ status = "loading" /\ status' = "unread"
    /\ UNCHANGED <<field, typed, edits, whole, stored, text, section, entries>>

Reading == status = "loading" /\ text # <<>>

ReadIgnored ==
    /\ Reading /\ Ignored(NextLine)
    /\ Consume
    /\ UNCHANGED <<field, typed, edits, whole, stored, section, entries, status>>

ReadSection ==
    /\ Reading /\ IsSection(NextLine) /\ HasName(NextLine)
    /\ section' = SectionName(NextLine)
    /\ Consume
    /\ UNCHANGED <<field, typed, edits, whole, stored, entries, status>>

IsEntry(line, sec) ==
    /\ ~Ignored(line) /\ ~IsSection(line)
    /\ Equals(line) # {} /\ Key(line) # <<>>
    /\ sec # <<>>

Entry == <<section, Key(NextLine)>>

(* Fault: the first value of a key stays. *)
StoreOnce(old, k, v)  == old @@ (k :> v)

(* A key that is there already gets the new value. *)
Store(old, k, v) ==
    [x \in DOMAIN old \union {k} |-> IF x = k THEN v ELSE old[x]]

(* The key is there, or there is an entry left for it.  A new entry takes    *)
(* the section, which fits, and then the key.                                *)
HasPlace == Entry \in DOMAIN entries \/ Cardinality(DOMAIN entries) < EntriesMax
KeyFits  == Entry \in DOMAIN entries \/ ~TooLong(Key(NextLine), KeyMax)

ReadEntry ==
    /\ Reading /\ IsEntry(NextLine, section)
    /\ HasPlace /\ KeyFits /\ ~TooLong(Value(NextLine), ValueMax)
    /\ entries' = Store(entries, Entry, Value(NextLine))
    /\ Consume
    /\ UNCHANGED <<field, typed, edits, whole, stored, section, status>>

ReadTooMany ==
    /\ Reading /\ IsEntry(NextLine, section) /\ ~HasPlace
    /\ status' = "error"
    /\ UNCHANGED <<field, typed, edits, whole, stored, text, section, entries>>

(* The new entry is left behind without a key. *)
ReadLongKey ==
    /\ Reading /\ IsEntry(NextLine, section) /\ HasPlace /\ ~KeyFits
    /\ entries' = Store(entries, <<section, <<>>>>, <<>>)
    /\ status' = "error"
    /\ UNCHANGED <<field, typed, edits, whole, stored, text, section>>

(* A new entry is left behind without a value, an old one keeps its own. *)
ReadLongValue ==
    /\ Reading /\ IsEntry(NextLine, section) /\ HasPlace /\ KeyFits
    /\ TooLong(Value(NextLine), ValueMax)
    /\ entries' = IF Entry \in DOMAIN entries THEN entries ELSE Store(entries, Entry, <<>>)
    /\ status' = "error"
    /\ UNCHANGED <<field, typed, edits, whole, stored, text, section>>

ReadInvalid ==
    /\ Reading /\ ~Ignored(NextLine)
    /\ IF IsSection(NextLine) THEN ~HasName(NextLine) ELSE ~IsEntry(NextLine, section)
    /\ status' = "error"
    /\ UNCHANGED <<field, typed, edits, whole, stored, text, section, entries>>

-----------------------------------------------------------------------------
(* ntap_c_config_load *)
Used(key) ==
    LET k == <<<<"client">>, <<key>>>> IN
    IF k \in DOMAIN entries THEN entries[k] ELSE <<>>

IsNumber(value) == value # <<>> /\ Chars(value, Digits) = DOMAIN value

(* ntap_config_require_addr: a host, the last colon, a port *)
IsAddress(value) ==
    LET colons == Chars(value, {":"}) IN
    /\ colons # {} /\ Max(colons) > 1
    /\ IsNumber(SubSeq(value, Max(colons) + 1, Len(value)))

(* Fault: tap_name is optional. *)
AcceptableNoTap ==
    /\ IsAddress(Used("server_addr"))
    /\ Used("username") # <<>>
    /\ Used("network_id") = <<>> \/ IsNumber(Used("network_id"))
    /\ Used("mtu") = <<>> \/ IsNumber(Used("mtu"))

Acceptable ==
    /\ IsAddress(Used("server_addr"))
    /\ Used("username") # <<>> /\ Used("tap_name") # <<>>
    /\ Used("network_id") = <<>> \/ IsNumber(Used("network_id"))
    /\ Used("mtu") = <<>> \/ IsNumber(Used("mtu"))

Check ==
    /\ status = "loading" /\ text = <<>>
    /\ status' = IF Acceptable THEN "ok" ELSE "refused"
    /\ UNCHANGED <<field, typed, edits, whole, stored, text, section, entries>>

Next ==
    \/ WriteFile \/ EditFile \/ WindowIncomplete \/ CannotWrite
    \/ Open \/ CannotOpen \/ CannotRead
    \/ ReadIgnored \/ ReadSection \/ ReadEntry
    \/ ReadTooMany \/ ReadLongKey \/ ReadLongValue \/ ReadInvalid
    \/ Check

Spec == Init /\ [][Next]_vars

-----------------------------------------------------------------------------
(* The file's meaning, read as a whole: where its lines start, the section  *)
(* that holds there, and for each key the value of its last line.           *)
Starts      == {p \in 1 .. Len(stored) : p = 1 \/ stored[p - 1] = NL}
RawLine(p)  == SubSeq(stored, p, Min({q \in p .. Len(stored) : stored[q] = NL}
                                     \union {Len(stored)}))
FileLine    == [p \in Starts |-> Trim(RawLine(p))]
Meant ==
    LET line   == FileLine
        heads  == {p \in Starts : IsSection(line[p])}
        above(p) == {q \in heads : q < p}
        within == [p \in Starts |->
                     IF above(p) = {} THEN <<>> ELSE SectionName(line[Max(above(p))])]
        lines  == {p \in Starts : IsEntry(line[p], within[p])}
        key    == [p \in lines |-> <<within[p], Key(line[p])>>]
        last(k) == Max({p \in lines : key[p] = k}) IN
    [ entries |-> [k \in {key[p] : p \in lines} |-> Value(line[last(k)])],
      malformed |->
        \/ \E p \in Starts \ (lines \union heads) : ~Ignored(line[p])
        \/ \E p \in heads : ~HasName(line[p])
        \/ \E p \in lines : TooLong(Key(line[p]), KeyMax) \/ TooLong(Value(line[p]), ValueMax)
        \/ Cardinality({key[p] : p \in lines}) > EntriesMax ]
LinesFit == \A p \in Starts : Len(RawLine(p)) <= LineMax

(* A file whose lines fit the buffer, and which can be opened and read to    *)
(* its end, is read for what it means: refused exactly when a line is        *)
(* malformed, a name, a key or a value is too long for its place, or there   *)
(* are too many keys, and otherwise each key has the value of its last line  *)
(* in its section.                                                           *)
ReadsMeaning ==
    status \in {"error", "refused", "ok"} /\ stored # <<>> /\ LinesFit =>
        LET meant == Meant IN
        /\ status = "error" <=> meant.malformed
        /\ status # "error" => entries = meant.entries

(* Whatever is typed in one field of the window, line ends included, the    *)
(* others are read as they were typed and no key appears or is lost.        *)
FieldsStayApart ==
    edits = <<>> /\ whole # <<>> /\ stored = whole =>
        /\ status # "error"
        /\ status \in {"ok", "refused"} =>
             /\ \A f \in Fields \ {field} : Used(f) = Usual[f]
             /\ Cardinality(DOMAIN entries) = 8

(* Neither end is blank, and comment signs stand between a pair of quotes. *)
Plain(v) ==
    /\ v # <<>> /\ {v[1], v[Len(v)]} \intersect Blanks = {} /\ Chars(v, {NL}) = {}
    /\ \/ Chars(v, {"#", ";"}) = {}
       \/ Chars(v, {"\""}) = {1, Len(v)} /\ Len(v) > 1

(* What the client uses is what was typed, when it is plain; a field left   *)
(* empty is used as its default.                                            *)
PlainIsKept ==
    edits = <<>> /\ stored = whole /\ status = "ok" =>
        /\ Plain(typed) => Used(field) = typed
        /\ typed = <<>> => Used(field) = IF field = "tap_name" THEN <<"ntap-c0">> ELSE <<"1">>

(* A file that the disk cut short never runs with other credentials, server *)
(* or network than those typed: the last key that the client insists on     *)
(* comes after them.                                                        *)
CutFileKeepsAccount ==
    edits = <<>> /\ status = "ok" =>
        \A f \in Fields \ {field, "tap_name"} : Used(f) = Usual[f]

(* The password that the client uses is the one that was typed. *)
PasswordIsUsed ==
    edits = <<>> /\ stored = whole /\ status = "ok" /\ field = "password" =>
        Used("password") = typed
=============================================================================
