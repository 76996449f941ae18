--------------------------- MODULE LanguageServer ---------------------------
(***************************************************************************)
(* molde-lsp, between an editor and a directory of .model files that other  *)
(* tools write to as well: `molde fmt`, a checkout.                         *)
(*                                                                         *)
(* The server reads messages in order and runs a handler's code up to its   *)
(* first await at once; every handler has sent what it sends by then, so a  *)
(* message is one step.  What it sends reaches the editor in order.  Hover, *)
(* completion, symbols and references read the state these actions keep,    *)
(* and change none of it.                                                   *)
(***************************************************************************)
EXTENDS Lang

CONSTANTS
    Corpora,   \* sets of drafts: a draft set is what each file may hold
    MaxSent,   \* messages on their way to the server ...
    MaxReplies \* ... and from it

VARIABLES
    drafts,    \* file -> the texts the developer writes; it never changes
    disk,      \* file -> text, of the files there are
    buffer,    \* file -> text, of the files open in the editor
    asked,     \* file -> the text the editor has asked to be formatted
    toServer,  \* messages the server has not read
    docs,      \* the server's open documents: file -> text
    index,     \* the server's index: name -> [file, columns]
    toClient,  \* what the server has sent and the editor not read
    shown,     \* file -> the line of the error displayed, or Fine
    stale      \* others have written to the disk since the index was built

vars == <<drafts, disk, buffer, asked, toServer, docs, index, toClient,
          shown, stale>>

File == DOMAIN drafts
Fine == -1

(* What the files may hold, and what they hold once formatted: the parser    *)
(* and the formatter as tables over these texts.                            *)
Files == UNION {DOMAIN d : d \in Corpora}

WithCanonical(f, texts) ==
    texts \cup {read.value : read \in
        {x \in {FormatModel(f, t) : t \in texts} : x.ok}}

Texts ==
    [f \in Files |->
        WithCanonical(f, WithCanonical(f,
            UNION {d[f] : d \in {c \in Corpora : f \in DOMAIN c}}))]

ASSUME EditorAssumption ==
    MaxSent \in Nat \ {0} /\ MaxReplies \in Nat /\ IsFiniteSet(Files)

Reading == [f \in Files |-> [t \in Texts[f] |-> Meaning(f, t)]]
Formatted == [f \in Files |-> [t \in Texts[f] |-> FormatModel(f, t)]]

(* An entry of a map is inserted, replaced or removed. *)
Put(map, key, value) ==
    [k \in DOMAIN map \cup {key} |-> IF k = key THEN value ELSE map[k]]
Without(map, key) == [k \in DOMAIN map \ {key} |-> map[k]]

Message(do, file, text) == [do |-> do, file |-> file, text |-> text]

-----------------------------------------------------------------------------
(* index.rs *)

TableFiles == {f \in DOMAIN disk \ {DatabaseFile} : Reading[f][disk[f]].ok}

TableName(f) == Reading[f][disk[f]].value.name

EntityInfo(f) ==
    [file |-> f,
     columns |-> {c.name : c \in ToSet(Reading[f][disk[f]].value.columns)}]

(* Mutant: a file's name takes the entry of the table of that name. *)
CandidatesByFile(name) ==
    IF name \in TableFiles THEN {name}
    ELSE {f \in TableFiles : TableName(f) = name}

(* A table is found by its name and, unless that is taken, by its file's.   *)
Candidates(name) ==
    LET named == {f \in TableFiles : TableName(f) = name} IN
    IF named # {} THEN named ELSE {name}

(* Of files with tables of one name the last one listed has the entry; the   *)
(* directory is listed in any order.                                        *)
Indexes ==
    LET names == TableFiles \cup {TableName(f) : f \in TableFiles} IN
    {[name \in names |-> EntityInfo(which[name])] :
        which \in {w \in [names -> TableFiles] :
                      \A name \in names : w[name] \in Candidates(name)}}

-----------------------------------------------------------------------------

Init ==
    /\ drafts \in Corpora
    /\ disk \in [DOMAIN drafts -> UNION {drafts[f] : f \in DOMAIN drafts}]
    /\ \A f \in DOMAIN drafts : disk[f] \in drafts[f]
    /\ buffer = <<>>
    /\ asked = <<>>
    /\ toServer = <<Message("initialized", "", <<>>)>>
    /\ docs = <<>>
    /\ index = <<>>
    /\ toClient = <<>>
    /\ shown = <<>>
    /\ stale = FALSE

(* The editor *)

Send(message) ==
    /\ Len(toServer) < MaxSent
    /\ toServer' = Append(toServer, message)

Open(f) ==
    /\ f \in DOMAIN disk \ DOMAIN buffer
    /\ buffer' = Put(buffer, f, disk[f])
    /\ Send(Message("open", f, disk[f]))
    /\ UNCHANGED <<drafts, disk, asked, docs, index, toClient, shown, stale>>

Type(f) ==
    /\ f \in DOMAIN buffer
    /\ \E text \in drafts[f] \ {buffer[f]} :
          /\ buffer' = [buffer EXCEPT ![f] = text]
          /\ Send(Message("change", f, text))
    /\ UNCHANGED <<drafts, disk, asked, docs, index, toClient, shown, stale>>

Save(f) ==
    /\ f \in DOMAIN buffer
    /\ Send(Message("save", f, <<>>))
    /\ disk' = Put(disk, f, buffer[f])
    /\ UNCHANGED <<drafts, buffer, asked, docs, index, toClient, shown, stale>>

Close(f) ==
    /\ f \in DOMAIN buffer
    /\ Send(Message("close", f, <<>>))
    /\ buffer' = Without(buffer, f)
    /\ UNCHANGED <<drafts, disk, asked, docs, index, toClient, shown, stale>>

AskFormatting(f) ==
    /\ f \in DOMAIN buffer \ DOMAIN asked
    /\ Send(Message("formatting", f, <<>>))
    /\ asked' = Put(asked, f, buffer[f])
    /\ UNCHANGED <<drafts, disk, buffer, docs, index, toClient, shown, stale>>

ShowDiagnostics ==
    /\ toClient # <<>>
    /\ Head(toClient).do = "diagnostics"
    /\ shown' = Put(shown, Head(toClient).file, Head(toClient).line)
    /\ toClient' = Tail(toClient)
    /\ UNCHANGED <<drafts, disk, buffer, asked, toServer, docs, index, stale>>

(* The editor drops an edit of a document that has changed since it asked.  *)
ApplyEdit ==
    /\ toClient # <<>>
    /\ Head(toClient).do = "edit"
    /\ LET f == Head(toClient).file
           wanted == IF f \in DOMAIN buffer /\ buffer[f] = asked[f]
                     THEN Head(toClient).edits ELSE {} IN
       /\ asked' = Without(asked, f)
       /\ IF wanted = {} THEN UNCHANGED <<buffer, toServer>>
          ELSE \E text \in wanted :
                  /\ buffer' = [buffer EXCEPT ![f] = text]
                  /\ toServer' = Append(toServer, Message("change", f, text))
    /\ toClient' = Tail(toClient)
    /\ UNCHANGED <<drafts, disk, docs, index, shown, stale>>

-----------------------------------------------------------------------------
(* The server *)

Diagnosis(f, text) ==
    LET read == Formatted[f][text] IN
    IF read.ok THEN Fine ELSE read.line

Publish(f) ==
    IF f \in DOMAIN docs'
    THEN toClient' = Append(toClient,
            [do |-> "diagnostics", file |-> f,
             line |-> Diagnosis(f, docs'[f])])
    ELSE UNCHANGED toClient

(* Mutant: the document is validated before it is replaced. *)
DidChangeLate(m) ==
    /\ docs' = Put(docs, m.file, m.text)
    /\ IF m.file \in DOMAIN docs
       THEN toClient' = Append(toClient,
               [do |-> "diagnostics", file |-> m.file,
                line |-> Diagnosis(m.file, docs[m.file])])
       ELSE UNCHANGED toClient
    /\ UNCHANGED <<index, stale>>

(* Mutant: a document that is known is not replaced. *)
DidChangeOnce(m) ==
    /\ docs' = IF m.file \in DOMAIN docs THEN docs ELSE Put(docs, m.file, m.text)
    /\ Publish(m.file)
    /\ UNCHANGED <<index, stale>>

DidChange(m) ==
    /\ docs' = Put(docs, m.file, m.text)
    /\ Publish(m.file)
    /\ UNCHANGED <<index, stale>>

RebuildIndex ==
    /\ index' \in Indexes
    /\ stale' = FALSE

DidSave(m) ==
    /\ RebuildIndex
    /\ UNCHANGED docs
    /\ Publish(m.file)

(* Mutant: a closed document is kept. *)
DidCloseKept(m) ==
    /\ UNCHANGED <<docs, index, stale, toClient>>

DidClose(m) ==
    /\ docs' = Without(docs, m.file)
    /\ UNCHANGED <<index, stale, toClient>>

(* No edit for a text that does not parse, or is formatted already.         *)
Formatting(m) ==
    /\ LET text == docs[m.file]
           read == Formatted[m.file][text]
           edits == IF m.file \in DOMAIN docs /\ read.ok /\ read.value # text
                    THEN {read.value} ELSE {} IN
       toClient' = Append(toClient,
                       [do |-> "edit", file |-> m.file, edits |-> edits])
    /\ UNCHANGED <<docs, index, stale>>

Serve ==
    /\ toServer # <<>>
    /\ Len(toClient) < MaxReplies
    /\ toServer' = Tail(toServer)
    /\ LET m == Head(toServer) IN
       \/ m.do = "initialized" /\ RebuildIndex /\ UNCHANGED <<docs, toClient>>
       \/ m.do \in {"open", "change"} /\ DidChange(m)
       \/ m.do = "save" /\ DidSave(m)
       \/ m.do = "close" /\ DidClose(m)
       \/ m.do = "formatting" /\ Formatting(m)
    /\ UNCHANGED <<drafts, disk, buffer, asked, shown>>

-----------------------------------------------------------------------------
(* Others *)

(* `molde fmt`: every file that parses is written in canonical form.        *)
Fmt ==
    /\ disk' = [f \in DOMAIN disk |->
                    LET read == Formatted[f][disk[f]] IN
                    IF read.ok THEN read.value ELSE disk[f]]
    /\ disk' # disk
    /\ stale' = TRUE
    /\ UNCHANGED <<drafts, buffer, asked, toServer, docs, index, toClient,
                   shown>>

(* A checkout brings another version of a file, or none. *)
Checkout(f) ==
    /\ \/ disk' = Without(disk, f)
       \/ \E text \in drafts[f] : disk' = Put(disk, f, text)
    /\ disk' # disk
    /\ stale' = TRUE
    /\ UNCHANGED <<drafts, buffer, asked, toServer, docs, index, toClient,
                   shown>>

Next ==
    \/ \E f \in File : Open(f) \/ Type(f) \/ Save(f) \/ Close(f)
                       \/ AskFormatting(f) \/ Checkout(f)
    \/ ShowDiagnostics
    \/ ApplyEdit
    \/ Serve
    \/ Fmt

Spec == Init /\ [][Next]_vars

(* The server reads what it is sent, and the editor what the server sends.  *)
FairSpec ==
    /\ Spec
    /\ WF_vars(Serve)
    /\ WF_vars(ShowDiagnostics)
    /\ WF_vars(ApplyEdit)

-----------------------------------------------------------------------------
(* Properties *)

(* Only files of the corpus are held anywhere, the queues are bounded, and  *)
(* the server holds no document the editor has closed, but for one whose     *)
(* closing is on its way.                                                   *)
TypeOK ==
    /\ drafts \in Corpora
    /\ DOMAIN disk \cup DOMAIN buffer \cup DOMAIN docs \cup DOMAIN shown
          \subseteq Files
    /\ DOMAIN asked \subseteq Files
    /\ Len(toServer) <= MaxSent + Cardinality(Files)
    /\ Len(toClient) <= MaxReplies
    /\ \A name \in DOMAIN index : index[name].file \in Files
    /\ stale \in BOOLEAN
    /\ \A f \in DOMAIN docs \ DOMAIN buffer :
          Message("close", f, <<>>) \in ToSet(toServer)

(* The server follows the editor: once it has read what it was sent, its     *)
(* documents are the editor's, text for text, whatever was edited, closed,   *)
(* opened again and formatted meanwhile.                                    *)
DocumentsFollow == toServer = <<>> => docs = buffer

(* Formatting keeps what a text says, and what is formatted is a fixpoint:  *)
(* whoever formats, the editor or `molde fmt`, the text that takes another's *)
(* place reads as the same table or the same globals, key for key and index  *)
(* for index (synthesized ones included), and is formatted no further.       *)
SameMeaning(f, old, new) ==
    new # old => /\ Reading[f][old].ok
                 /\ Reading[f][new] = Reading[f][old]
                 /\ Formatted[f][new] = Parsed(new)

(* It is so of each text for itself, *)
FormatKeepsMeaning ==
    \A f \in Files : \A text \in Texts[f] :
        LET read == Formatted[f][text] IN
        read.ok => read.value \in Texts[f] /\ SameMeaning(f, text, read.value)

(* and of what takes its place in a buffer or on the disk. *)
MeaningKept ==
    [][/\ Fmt => \A f \in DOMAIN disk : SameMeaning(f, disk[f], disk'[f])
       /\ ApplyEdit =>
             \A f \in DOMAIN buffer : SameMeaning(f, buffer[f], buffer'[f])
      ]_vars

(* Go-to-definition finds a table: when the server has read everything and  *)
(* nobody else has written to the disk since it indexed, a table that one    *)
(* parsable file defines is looked up by its name and leads to that file,    *)
(* with that file's columns, whatever the other files are called.            *)
Defines(f, name) ==
    /\ f # DatabaseFile
    /\ Reading[f][disk[f]].ok
    /\ Reading[f][disk[f]].value.name = name

NavigationHolds ==
    (toServer = <<>> /\ ~stale) =>
        \A f \in DOMAIN disk \ {DatabaseFile} :
            LET read == Reading[f][disk[f]]
                name == read.value.name IN
            (/\ read.ok
             /\ \A g \in DOMAIN disk \ {f} : ~Defines(g, name))
            => /\ name \in DOMAIN index
               /\ index[name].file = f
               /\ index[name].columns =
                     {c.name : c \in ToSet(read.value.columns)}

(* The diagnostics catch up: unless the developer goes on typing for ever,  *)
(* what is displayed for an open file becomes, and stays, the diagnosis of    *)
(* the text in the editor, formatting and closing in between included.       *)
DiagnosticsArrive ==
    \A f \in Files :
        \/ []<><<buffer' # buffer>>_vars
        \/ <>[](f \in DOMAIN buffer =>
                 /\ f \in DOMAIN shown
                 /\ shown[f] = Diagnosis(f, buffer[f]))
=============================================================================
