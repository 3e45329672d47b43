----------------------------- MODULE ConfigFile -----------------------------
(***************************************************************************)
(* The recorder's configuration: class Config (ctpmdapi/Config.cpp,        *)
(* Config.h) reads config.ini once, and the two sessions take from it what *)
(* they send to the servers. A line is the key before the delimiter, text  *)
(* after it (all of the line, when it has no key), and whether a comment   *)
(* follows; a value is the sequence of the lines that it goes over. The    *)
(* standard library's getline is external: at the end of a stream that it  *)
(* has already met it fails and leaves its argument as it was.             *)
(***************************************************************************)
EXTENDS Integers, Sequences, SequencesExt, FiniteSetsExt

CONSTANTS
    Keys, Texts, None,  \* keys, lines of values, and neither
    MaxLines,           \* bound: lines of the file that is loaded first
    MaxMergedLines,     \* bound: lines of a file that is read afterwards
    MaxLoads            \* bound: files loaded

VARIABLES
    pc,             \* closed, outer or inner (the loops of operator>>), loaded
                    \* or ended (the process, by an exception or undefined
                    \* behaviour)
    m_Contents,     \* the map: from some keys to values
    rest, newline,  \* the stream: lines to read, and how the last one ends
    eof, fail,      \* the state of the stream
    nextline,       \* the line read ahead
    key, line,      \* the entry being read: its key, its value so far
    loads,          \* number of files loaded
    source, before, \* history: what is loaded, and m_Contents before that
    saved,          \* history: m_Contents as it was saved
    sent            \* history: the user that each session logs in with

stream == <<rest, newline, eof, fail>>
parser == <<nextline, key, line>>
history == <<loads, source, before, saved, sent>>
vars == <<pc, m_Contents, stream, parser, history>>

Line ==             \* blanks alone on a line differ from no line
    {l \in [key : Keys \union {None}, text : Texts \union {None},
            comment : BOOLEAN, blanks : BOOLEAN] :
        l.blanks => l.key = None /\ l.text = None}

Empty == [key |-> None, text |-> None, comment |-> FALSE, blanks |-> FALSE]
HasKey(l) == l.key # None
StripComment(l) == [l EXCEPT !.comment = FALSE]
IsBlank(l) == ~HasKey(l) /\ l.text = None /\ ~l.comment     \* Trim gives ""
TextOf(l) == IF l.text = None THEN << >> ELSE <<l.text>>

Files(n) == UNION {[1 .. k -> Line] : k \in 0 .. n}

NoContents == [k \in {} |-> << >>]
NotSaved == [k \in {None} |-> << >>]

Update(contents, new) ==
    [k \in DOMAIN contents \union DOMAIN new |->
        IF k \in DOMAIN new THEN new[k] ELSE contents[k]]

Init ==
    /\ pc = "closed"
    /\ m_Contents = NoContents
    /\ rest = << >> /\ newline = TRUE /\ eof = FALSE /\ fail = FALSE
    /\ nextline = Empty /\ key = None /\ line = << >>
    /\ loads = 0 /\ source = << >> /\ before = NoContents /\ saved = NotSaved
    /\ sent = [session \in {"td", "md"} |-> None]

-----------------------------------------------------------------------------
(* Opening a file *)

Load(file, ended, contents) ==
    /\ loads < MaxLoads /\ loads' = loads + 1
    /\ pc' = "outer"
    /\ rest' = file /\ newline' = ended /\ eof' = FALSE /\ fail' = FALSE
    /\ nextline' = Empty /\ key' = None /\ line' = << >>
    /\ m_Contents' = contents
    /\ source' = file /\ before' = contents
    /\ UNCHANGED sent

GetConfig ==        \* the first call constructs the static object
    /\ pc = "closed"
    /\ \E file \in Files(MaxLines), ended \in BOOLEAN :
        Load(file, ended, m_Contents)
    /\ UNCHANGED saved

GetConfigThrows ==  \* File_not_found, which main does not catch
    /\ pc = "closed"
    /\ pc' = "ended"
    /\ UNCHANGED <<m_Contents, stream, parser, history>>

ReadFile ==         \* what is there already is kept
    /\ pc = "loaded"
    /\ \E file \in Files(MaxMergedLines), ended \in BOOLEAN :
        Load(file, ended, m_Contents)
    /\ saved' = NotSaved

(* operator<<, read again into an empty Config. *)
WrittenOnOneLine(k) ==  \* mutant: only the first line of a value
    <<[Empty EXCEPT !.key = k,
                    !.text = IF m_Contents[k] = << >> THEN None
                             ELSE Head(m_Contents[k])]>>

Written(k) ==
    LET text == m_Contents[k]
        first == [Empty EXCEPT !.key = k,
                               !.text = IF text = << >> THEN None ELSE Head(text)]
    IN  <<first>> \o [i \in 1 .. (Len(text) - 1) |->
                        [Empty EXCEPT !.text = text[i + 1]]]

SaveAndLoad ==
    /\ pc = "loaded"
    /\ LET entries == SetToSeq(DOMAIN m_Contents)
           lines == FlattenSeq([i \in 1 .. Len(entries) |-> Written(entries[i])])
       IN  Load(lines, TRUE, NoContents)
    /\ saved' = m_Contents

-----------------------------------------------------------------------------
(* operator>> *)

GetLine(old) ==     \* what getline leaves in its argument
    IF eof THEN old ELSE IF rest = << >> THEN Empty ELSE Head(rest)

StreamAfter ==
    /\ rest' = IF eof \/ rest = << >> THEN rest ELSE Tail(rest)
    /\ eof' = (eof \/ rest = << >> \/ (Len(rest) = 1 /\ ~newline))
    /\ fail' = (eof \/ rest = << >>)
    /\ UNCHANGED newline

EntryOfAny(l) ==    \* mutant: a line without a key, too
    pc' = "inner" /\ key' = l.key /\ line' = TextOf(l)

Entry(l) ==         \* a line with a key begins a value
    IF HasKey(l)
    THEN pc' = "inner" /\ key' = l.key /\ line' = TextOf(l)
    ELSE UNCHANGED <<pc, key, line>>

TakeNextline ==     \* the line that was read ahead
    /\ pc = "outer" /\ nextline # Empty
    /\ nextline' = Empty
    /\ Entry(StripComment(nextline))
    /\ UNCHANGED <<stream, m_Contents, history>>

TakeLine ==
    /\ pc = "outer" /\ nextline = Empty /\ ~fail
    /\ Entry(StripComment(GetLine(Empty)))
    /\ StreamAfter
    /\ UNCHANGED <<nextline, m_Contents, history>>

LoadEnds ==
    /\ pc = "outer" /\ nextline = Empty /\ fail
    /\ pc' = "loaded"
    /\ UNCHANGED <<m_Contents, stream, parser, history>>

Store ==            \* a key that is repeated is overwritten
    /\ m_Contents' = Update(m_Contents, [k \in {key} |-> line])
    /\ pc' = "outer" /\ key' = None /\ line' = << >>

(* What stops a value that goes over several lines. *)
StopsAtComment(l) ==    \* mutant: also a line with only a comment
    IsBlank(StripComment(l))

StopsValue(l) == IsBlank(l)

ContinueOrStop ==   \* read ahead: blank lines and lines with a key stop
    /\ pc = "inner" /\ ~fail
    /\ LET next == GetLine(nextline)
       IN  IF StopsValue(next) THEN nextline' = next /\ Store
           ELSE /\ nextline' = StripComment(next)
                /\ IF HasKey(next) THEN Store
                   ELSE /\ line' = line \o TextOf(next)
                        /\ UNCHANGED <<m_Contents, pc, key>>
    /\ StreamAfter
    /\ UNCHANGED history

StopAtEnd ==
    /\ pc = "inner" /\ fail
    /\ Store
    /\ UNCHANGED <<nextline, stream, history>>

Parse == TakeNextline \/ TakeLine \/ ContinueOrStop \/ StopAtEnd \/ LoadEnds

-----------------------------------------------------------------------------
(* Use *)

KeyExists(k) == k \in DOMAIN m_Contents
Read(k, default) == IF KeyExists(k) THEN m_Contents[k] ELSE default

RemoveKey(k) ==
    /\ pc = "loaded" /\ KeyExists(k)
    /\ m_Contents' = [j \in DOMAIN m_Contents \ {k} |-> m_Contents[j]]
    /\ before' = m_Contents' /\ source' = << >> /\ saved' = NotSaved
    /\ UNCHANGED <<pc, stream, parser, loads, sent>>

(* map::erase of end() is undefined: it goes unnoticed, or not. *)
RemoveMissingKey(k) ==
    /\ pc = "loaded" /\ ~KeyExists(k)
    /\ pc' \in {"loaded", "ended"}
    /\ UNCHANGED <<m_Contents, stream, parser, history>>

TdLogin ==          \* tdapi::login
    /\ pc = "loaded"
    /\ sent' = [sent EXCEPT !["td"] = Read("investorID", << >>)]
    /\ UNCHANGED <<pc, m_Contents, stream, parser, loads, source, before, saved>>

MdLogin ==          \* MdApi::login
    /\ pc = "loaded"
    /\ sent' = [sent EXCEPT !["md"] = Read("investorId", << >>)]
    /\ UNCHANGED <<pc, m_Contents, stream, parser, loads, source, before, saved>>

Next ==
    \/ GetConfig \/ GetConfigThrows \/ ReadFile \/ SaveAndLoad
    \/ Parse
    \/ \E k \in Keys : RemoveKey(k) \/ RemoveMissingKey(k)
    \/ TdLogin \/ MdLogin

Spec == Init /\ [][Next]_vars

-----------------------------------------------------------------------------
Value == Seq(Texts)

TypeOK ==
    /\ pc \in {"closed", "outer", "inner", "loaded", "ended"}
    /\ DOMAIN m_Contents \subseteq Keys
    /\ \A k \in DOMAIN m_Contents : m_Contents[k] \in Value
    /\ nextline \in Line
    /\ pc = "inner" => key \in Keys /\ line \in Value

(* The reference: the value of a key is that of the last line with the key,
   and goes on to the next blank line, line with a key, or the end. *)
LinesOf(k) == {i \in DOMAIN source : source[i].key = k}

StopOf(i) ==
    Min({Len(source) + 1} \union
        {j \in DOMAIN source : j > i /\ (IsBlank(source[j]) \/ HasKey(source[j]))})

ValueFrom(i) ==
    LET lines == SubSeq(source, i, StopOf(i) - 1)
    IN  FlattenSeq([n \in 1 .. Len(lines) |-> TextOf(lines[n])])

Reference ==
    Update(before, [k \in {j \in Keys : LinesOf(j) # {}} |->
                        ValueFrom(Max(LinesOf(k)))])

(* Every file, with comments and blank lines between its entries and values
   over several lines, loads as the reference says, read-ahead and all, if it
   does not break off in a continued value: a last line that no newline ends
   is then added twice, since the getline that fails keeps nextline. *)
BreaksOff ==
    /\ source # << >> /\ ~newline
    /\ ~HasKey(Last(source)) /\ Last(source).text # None

LoadedAsWritten == pc = "loaded" /\ ~BreaksOff => m_Contents = Reference

(* What is saved is loaded again: no value that was read from a file is
   written in a form that reads differently. *)
SavedIsLoaded == pc = "loaded" /\ saved # NotSaved => m_Contents = saved

(* config.ini:10, "investorID = 092433": both sessions log in as the user of
   the file. *)
SameUser == sent["td"] # None /\ sent["md"] # None => sent["td"] = sent["md"]
=============================================================================
