----------------------- MODULE LanguageServer_proofs -----------------------
(***************************************************************************)
(* The language server's documents follow the editor's, its edits fit the   *)
(* texts they were made for and its index follows the disk, for any files,  *)
(* any texts and queues of any length.                                      *)
(***************************************************************************)
EXTENDS LanguageServer, FiniteSetTheorems, TLAPS

-----------------------------------------------------------------------------
(* Sequences *)

LEMMA AppendFacts ==
    ASSUME NEW S, NEW s \in Seq(S), NEW e
    PROVE  /\ Append(s, e) \in Seq(S \cup {e})
           /\ Len(Append(s, e)) = Len(s) + 1
           /\ \A i \in 1..Len(s) : Append(s, e)[i] = s[i]
           /\ Append(s, e)[Len(s) + 1] = e
<1>1. s \in Seq(S \cup {e})
  OBVIOUS
<1> QED
  BY <1>1

LEMMA TailFacts ==
    ASSUME NEW S, NEW s \in Seq(S), s # <<>>
    PROVE  /\ Tail(s) \in Seq(S)
           /\ Len(Tail(s)) = Len(s) - 1
           /\ \A i \in 1..Len(Tail(s)) : Tail(s)[i] = s[i + 1]
           /\ Head(s) = s[1]
           /\ Len(s) \in Nat /\ Len(s) # 0
OBVIOUS

-----------------------------------------------------------------------------
(* The invariant *)

IsMap(map) == map = [x \in DOMAIN map |-> map[x]]

(* A message that says what the editor has of a file. *)
Tells(m, f) == m.file = f /\ m.do \in {"open", "change", "close"}

(* The editor has what a message says. *)
Holds(m) ==
    IF m.do = "close" THEN m.file \notin DOMAIN buffer
    ELSE m.file \in DOMAIN buffer /\ buffer[m.file] = m.text

SameDocument(f) ==
    /\ f \in DOMAIN docs <=> f \in DOMAIN buffer
    /\ f \in DOMAIN docs => docs[f] = buffer[f]

SilentFrom(k, f) == \A i \in k..Len(toServer) : ~Tells(toServer[i], f)

(* The editor has of a file what the last message about it says; without     *)
(* one on its way, what the server has.                                     *)
Follows(f) ==
    /\ SilentFrom(1, f) => SameDocument(f)
    /\ \A i \in 1..Len(toServer) :
          (Tells(toServer[i], f) /\ SilentFrom(i + 1, f)) => Holds(toServer[i])

FollowInv ==
    /\ \E S : toServer \in Seq(S)
    /\ IsMap(docs)
    /\ IsMap(buffer)
    /\ \A f : Follows(f)

(* Sending a message that tells nothing changes nothing. *)
LEMMA SendQuiet ==
    ASSUME FollowInv, NEW m, \A f : ~Tells(m, f), docs' = docs,
           buffer' = buffer, toServer' = Append(toServer, m)
    PROVE  FollowInv'
<1>1. PICK S : toServer \in Seq(S)
  BY DEF FollowInv
<1>2. /\ toServer' \in Seq(S \cup {m})
      /\ Len(toServer') = Len(toServer) + 1
      /\ \A i \in 1..Len(toServer) : toServer'[i] = toServer[i]
      /\ toServer'[Len(toServer) + 1] = m
      /\ Len(toServer) \in Nat
  BY <1>1, AppendFacts
<1>3. ASSUME NEW f, NEW k \in 1..(Len(toServer) + 1), SilentFrom(k, f)'
      PROVE  SilentFrom(k, f)
  BY <1>2, <1>3 DEF SilentFrom
<1>4. ASSUME NEW f PROVE Follows(f)'
  <2>1. Follows(f)
    BY DEF FollowInv
  <2>2. SilentFrom(1, f)' => SameDocument(f)'
    BY <1>2, <1>3, <2>1 DEF Follows, SameDocument
  <2>3. ASSUME NEW i \in 1..Len(toServer'), Tells(toServer'[i], f),
               SilentFrom(i + 1, f)'
        PROVE  Holds(toServer[i])'
    <3>1. i # Len(toServer) + 1
      BY <1>2, <2>3
    <3>2. i \in 1..Len(toServer) /\ i + 1 \in 1..(Len(toServer) + 1)
      BY <1>2, <3>1
    <3>3. SilentFrom(i + 1, f) /\ toServer'[i] = toServer[i]
      BY <1>2, <1>3, <2>3, <3>2
    <3> QED
      BY <2>1, <2>3, <3>2, <3>3 DEF Follows, Holds
  <2> QED
    BY <2>2, <2>3 DEF Follows
<1> QED
  BY <1>2, <1>4 DEF FollowInv

(* The editor changes what it has of one file, and says so. *)
LEMMA SendTelling ==
    ASSUME FollowInv, NEW m, Tells(m, m.file), docs' = docs,
           IsMap(buffer'), Holds(m)',
           \A f : f # m.file =>
              /\ f \in DOMAIN buffer' <=> f \in DOMAIN buffer
              /\ f \in DOMAIN buffer => buffer'[f] = buffer[f],
           toServer' = Append(toServer, m)
    PROVE  FollowInv'
<1>1. PICK S : toServer \in Seq(S)
  BY DEF FollowInv
<1>2. /\ toServer' \in Seq(S \cup {m})
      /\ Len(toServer') = Len(toServer) + 1
      /\ \A i \in 1..Len(toServer) : toServer'[i] = toServer[i]
      /\ toServer'[Len(toServer) + 1] = m
      /\ Len(toServer) \in Nat
  BY <1>1, AppendFacts
<1>3. ASSUME NEW f, NEW k \in 1..(Len(toServer) + 1), SilentFrom(k, f)'
      PROVE  f # m.file /\ SilentFrom(k, f)
  <2>1. Len(toServer) + 1 \in k..Len(toServer')
    BY <1>2
  <2>2. ~Tells(m, f)
    BY <1>2, <1>3, <2>1 DEF SilentFrom
  <2> QED
    BY <1>2, <1>3, <2>2 DEF SilentFrom
<1>4. ASSUME NEW f PROVE Follows(f)'
  <2>1. Follows(f)
    BY DEF FollowInv
  <2>2. SilentFrom(1, f)' => SameDocument(f)'
    BY <1>2, <1>3, <2>1 DEF Follows, SameDocument
  <2>3. ASSUME NEW i \in 1..Len(toServer'), Tells(toServer'[i], f),
               SilentFrom(i + 1, f)'
        PROVE  Holds(toServer[i])'
    <3>1. CASE i = Len(toServer) + 1
      BY <1>2, <3>1
    <3>2. CASE i # Len(toServer) + 1
      <4>1. i \in 1..Len(toServer) /\ i + 1 \in 1..(Len(toServer) + 1)
        BY <1>2, <3>2
      <4>2. /\ SilentFrom(i + 1, f) /\ toServer'[i] = toServer[i]
            /\ f # m.file /\ toServer[i].file = f
        BY <1>2, <1>3, <2>3, <4>1 DEF Tells
      <4>3. Holds(toServer[i])
        BY <2>1, <2>3, <4>1, <4>2 DEF Follows
      <4> QED
        BY <4>2, <4>3 DEF Holds
    <3> QED
      BY <3>1, <3>2
  <2> QED
    BY <2>2, <2>3 DEF Follows
<1> QED
  BY <1>2, <1>4 DEF FollowInv

(* The server reads the first message, and if it tells something of a file  *)
(* has what it says.                                                        *)
LEMMA ReadMessage ==
    ASSUME FollowInv, toServer # <<>>, toServer' = Tail(toServer),
           buffer' = buffer, IsMap(docs'),
           NEW m, m = Head(toServer),
           \A f : ~Tells(m, f) =>
              /\ f \in DOMAIN docs' <=> f \in DOMAIN docs
              /\ f \in DOMAIN docs => docs'[f] = docs[f],
           Tells(m, m.file) =>
              IF m.do = "close" THEN m.file \notin DOMAIN docs'
              ELSE m.file \in DOMAIN docs' /\ docs'[m.file] = m.text
    PROVE  FollowInv'
<1>1. PICK S : toServer \in Seq(S)
  BY DEF FollowInv
<1>2. /\ toServer' \in Seq(S)
      /\ Len(toServer') = Len(toServer) - 1
      /\ \A i \in 1..Len(toServer') : toServer'[i] = toServer[i + 1]
      /\ toServer[1] = m
      /\ Len(toServer) \in Nat /\ Len(toServer) # 0
  BY <1>1, TailFacts
<1>3. ASSUME NEW f, NEW k \in 1..Len(toServer), SilentFrom(k, f)'
      PROVE  SilentFrom(k + 1, f)
  <2> SUFFICES ASSUME NEW i \in (k + 1)..Len(toServer)
               PROVE  ~Tells(toServer[i], f)
    BY DEF SilentFrom
  <2>1. i - 1 \in k..Len(toServer') /\ i - 1 \in 1..Len(toServer')
    BY <1>2
  <2>2. toServer'[i - 1] = toServer[i]
    BY <1>2, <2>1
  <2> QED
    BY <1>3, <2>1, <2>2 DEF SilentFrom
<1>4. ASSUME NEW f PROVE Follows(f)'
  <2>1. Follows(f)
    BY DEF FollowInv
  <2>2. ASSUME SilentFrom(1, f)' PROVE SameDocument(f)'
    <3>1. SilentFrom(2, f)
      BY <1>2, <1>3, <2>2
    <3>2. CASE Tells(m, f)
      <4>1. Holds(m) /\ m.file = f
        BY <1>2, <2>1, <3>1, <3>2 DEF Follows, Tells
      <4> QED
        BY <3>2, <4>1 DEF Holds, SameDocument
    <3>3. CASE ~Tells(m, f)
      <4>1. SilentFrom(1, f)
        BY <1>2, <3>1, <3>3 DEF SilentFrom
      <4> QED
        BY <2>1, <3>3, <4>1 DEF Follows, SameDocument
    <3> QED
      BY <3>2, <3>3
  <2>3. ASSUME NEW i \in 1..Len(toServer'), Tells(toServer'[i], f),
               SilentFrom(i + 1, f)'
        PROVE  Holds(toServer[i])'
    <3>1. i + 1 \in 1..Len(toServer) /\ toServer'[i] = toServer[i + 1]
      BY <1>2
    <3>2. SilentFrom((i + 1) + 1, f)
      BY <1>3, <2>3, <3>1
    <3> QED
      BY <2>1, <2>3, <3>1, <3>2 DEF Follows, Holds
  <2> QED
    BY <2>2, <2>3 DEF Follows
<1> QED
  BY <1>2, <1>4 DEF FollowInv

LEMMA FollowStep == FollowInv /\ [Next]_vars => FollowInv'
<1> SUFFICES ASSUME FollowInv, [Next]_vars PROVE FollowInv'
  OBVIOUS
<1>1. ASSUME UNCHANGED <<toServer, docs, buffer>> PROVE FollowInv'
  BY <1>1
  DEF FollowInv, Follows, SilentFrom, SameDocument, Holds, IsMap
<1>2. ASSUME NEW f, NEW text, NEW m, m.file = f, m.do \in {"open", "change"},
             m.text = text, toServer' = Append(toServer, m), docs' = docs,
             buffer' = Put(buffer, f, text)
      PROVE  FollowInv'
  <2>1. Tells(m, m.file)
    BY <1>2 DEF Tells
  <2>2. buffer' = [k \in DOMAIN buffer \cup {m.file} |->
                      IF k = m.file THEN m.text ELSE buffer[k]]
    BY <1>2 DEF Put
  <2>3. Holds(m)'
    BY <1>2, <2>2 DEF Holds
  <2>4. IsMap(buffer')
    BY <2>2 DEF IsMap
  <2>5. \A g : g # m.file =>
                  /\ g \in DOMAIN buffer' <=> g \in DOMAIN buffer
                  /\ g \in DOMAIN buffer => buffer'[g] = buffer[g]
    BY <2>2
  <2> QED
    BY <1>2, <2>1, <2>3, <2>4, <2>5, SendTelling
<1>3. ASSUME NEW f, NEW text, f \in DOMAIN buffer,
             buffer' = [buffer EXCEPT ![f] = text]
      PROVE  buffer' = Put(buffer, f, text)
  BY <1>3 DEF Put
<1>4. ASSUME NEW f \in File, Open(f) PROVE FollowInv'
  <2>1. PICK text : text = disk[f]
    OBVIOUS
  <2>2. PICK m : m = Message("open", f, text)
    OBVIOUS
  <2>3. m.file = f /\ m.do = "open" /\ m.text = text
    BY <2>2 DEF Message
  <2> QED
    BY <1>2, <1>4, <2>1, <2>2, <2>3 DEF Open, Send
<1>5. ASSUME NEW f \in File, Type(f) PROVE FollowInv'
  <2>1. PICK text :
          /\ buffer' = [buffer EXCEPT ![f] = text]
          /\ toServer' = Append(toServer, Message("change", f, text))
    BY <1>5 DEF Type, Send
  <2>2. PICK m : m = Message("change", f, text)
    OBVIOUS
  <2>3. m.file = f /\ m.do = "change" /\ m.text = text
    BY <2>2 DEF Message
  <2>4. docs' = docs /\ buffer' = Put(buffer, f, text)
    BY <1>3, <1>5, <2>1 DEF Type
  <2> QED
    BY <1>2, <2>1, <2>2, <2>3, <2>4
<1>6. ASSUME NEW f \in File, Save(f) \/ AskFormatting(f) PROVE FollowInv'
  <2>1. PICK m \in {Message("save", f, <<>>), Message("formatting", f, <<>>)} :
          toServer' = Append(toServer, m)
    BY <1>6 DEF Save, AskFormatting, Send
  <2>2. \A g : ~Tells(m, g)
    BY DEF Message, Tells
  <2> QED
    BY <1>6, <2>1, <2>2, SendQuiet DEF Save, AskFormatting
<1>7. ASSUME NEW f \in File, Close(f) PROVE FollowInv'
  <2>1. PICK m : m = Message("close", f, <<>>)
    OBVIOUS
  <2>2. /\ Tells(m, m.file) /\ m.file = f /\ m.do = "close"
        /\ toServer' = Append(toServer, m) /\ docs' = docs
        /\ buffer' = [k \in DOMAIN buffer \ {m.file} |-> buffer[k]]
    BY <1>7, <2>1 DEF Close, Send, Message, Tells, Without
  <2>3. Holds(m)'
    BY <2>2 DEF Holds
  <2>4. IsMap(buffer')
    BY <2>2 DEF IsMap
  <2>5. \A g : g # m.file =>
                  /\ g \in DOMAIN buffer' <=> g \in DOMAIN buffer
                  /\ g \in DOMAIN buffer => buffer'[g] = buffer[g]
    BY <2>2
  <2> QED
    BY <2>2, <2>3, <2>4, <2>5, SendTelling
<1>8. ASSUME ApplyEdit PROVE FollowInv'
  <2>1. CASE UNCHANGED <<buffer, toServer>>
    BY <1>1, <1>8, <2>1 DEF ApplyEdit
  <2>2. CASE ~UNCHANGED <<buffer, toServer>>
    <3>1. PICK f : f = Head(toClient).file
      OBVIOUS
    <3>2. PICK text :
            /\ f \in DOMAIN buffer
            /\ buffer' = [buffer EXCEPT ![f] = text]
            /\ toServer' = Append(toServer, Message("change", f, text))
      BY <1>8, <2>2, <3>1 DEF ApplyEdit
    <3>3. PICK m : m = Message("change", f, text)
      OBVIOUS
    <3>4. m.file = f /\ m.do = "change" /\ m.text = text
      BY <3>3 DEF Message
    <3>5. docs' = docs /\ buffer' = Put(buffer, f, text)
      BY <1>3, <1>8, <3>2 DEF ApplyEdit
    <3> QED
      BY <1>2, <3>2, <3>3, <3>4, <3>5
  <2> QED
    BY <2>1, <2>2
<1>9. ASSUME Serve PROVE FollowInv'
  <2>1. PICK m : m = Head(toServer)
    OBVIOUS
  <2>2. /\ toServer # <<>> /\ toServer' = Tail(toServer) /\ buffer' = buffer
    BY <1>9 DEF Serve
  <2>3. CASE m.do \in {"open", "change"} /\ DidChange(m)
    <3>1. docs' = [k \in DOMAIN docs \cup {m.file} |->
                      IF k = m.file THEN m.text ELSE docs[k]]
      BY <2>3 DEF DidChange, Put
    <3>2. \A f : ~Tells(m, f) => m.file # f
      BY <2>3 DEF Tells
    <3>3. IsMap(docs')
      BY <3>1 DEF IsMap
    <3>4. m.file \in DOMAIN docs' /\ docs'[m.file] = m.text
      BY <3>1
    <3>5. \A f : f # m.file =>
                /\ f \in DOMAIN docs' <=> f \in DOMAIN docs
                /\ f \in DOMAIN docs => docs'[f] = docs[f]
      BY <3>1
    <3> QED
      BY <2>1, <2>2, <2>3, <3>2, <3>3, <3>4, <3>5, ReadMessage
  <2>4. CASE m.do = "close" /\ DidClose(m)
    <3>1. docs' = [k \in DOMAIN docs \ {m.file} |-> docs[k]]
      BY <2>4 DEF DidClose, Without
    <3>2. \A f : ~Tells(m, f) => m.file # f
      BY <2>4 DEF Tells
    <3>3. IsMap(docs')
      BY <3>1 DEF IsMap
    <3>4. m.file \notin DOMAIN docs'
      BY <3>1
    <3>5. \A f : f # m.file =>
                /\ f \in DOMAIN docs' <=> f \in DOMAIN docs
                /\ f \in DOMAIN docs => docs'[f] = docs[f]
      BY <3>1
    <3> QED
      BY <2>1, <2>2, <2>4, <3>2, <3>3, <3>4, <3>5, ReadMessage
  <2>5. CASE /\ m.do \in {"initialized", "save", "formatting"}
             /\ docs' = docs
    <3>1. \A f : ~Tells(m, f)
      BY <2>5 DEF Tells
    <3>2. IsMap(docs')
      BY <2>5 DEF FollowInv, IsMap
    <3> QED
      BY <2>1, <2>2, <2>5, <3>1, <3>2, ReadMessage
  <2> QED
    BY <1>9, <2>1, <2>3, <2>4, <2>5 DEF Serve, DidSave, Formatting
<1>10. ASSUME ShowDiagnostics \/ Fmt \/ \E f \in File : Checkout(f)
      PROVE  FollowInv'
  BY <1>1, <1>10 DEF ShowDiagnostics, Fmt, Checkout
<1>11. CASE UNCHANGED vars
  BY <1>1, <1>11 DEF vars
<1> QED
  BY <1>4, <1>5, <1>6, <1>7, <1>8, <1>9, <1>10, <1>11 DEF Next

LEMMA FollowInit == ASSUME Init PROVE FollowInv
<1>1. PICK m : m = Message("initialized", "", <<>>)
  OBVIOUS
<1>2. toServer = <<m>> /\ docs = <<>> /\ buffer = <<>>
  BY <1>1 DEF Init
<1>3. toServer \in Seq({m}) /\ Len(toServer) = 1 /\ toServer[1] = m
  BY <1>2
<1>4. <<>> = [x \in {} |-> x] /\ DOMAIN <<>> = {}
  OBVIOUS
<1>5. IsMap(docs) /\ IsMap(buffer)
  BY <1>2, <1>4 DEF IsMap
<1>6. \A f : ~Tells(m, f)
  BY <1>1 DEF Tells, Message
<1>7. \A f : SameDocument(f)
  BY <1>2, <1>4 DEF SameDocument
<1>8. \A f : \A i \in 1..Len(toServer) : ~Tells(toServer[i], f)
  BY <1>3, <1>6
<1>9. \A f : Follows(f)
  BY <1>7, <1>8 DEF Follows
<1> QED
  BY <1>3, <1>5, <1>9 DEF FollowInv

(* Whatever is opened, typed, formatted, saved and closed, in any order and *)
(* however long the server takes: when it has read all it was sent, it has   *)
(* the editor's documents.                                                  *)
THEOREM ServerFollowsEditor == Spec => []DocumentsFollow
<1>1. Init => FollowInv
  BY FollowInit
<1>2. FollowInv /\ [Next]_vars => FollowInv'
  BY FollowStep
<1>3. FollowInv => DocumentsFollow
  <2> SUFFICES ASSUME FollowInv, toServer = <<>> PROVE docs = buffer
    BY DEF DocumentsFollow
  <2>1. \A f : SilentFrom(1, f)
    BY DEF SilentFrom
  <2>2. \A f : SameDocument(f)
    BY <2>1 DEF FollowInv, Follows
  <2>3. DOMAIN docs = DOMAIN buffer
    BY <2>2 DEF SameDocument
  <2>4. \A f \in DOMAIN docs : docs[f] = buffer[f]
    BY <2>2 DEF SameDocument
  <2>5. docs = [x \in DOMAIN docs |-> docs[x]]
        /\ buffer = [x \in DOMAIN buffer |-> buffer[x]]
    BY DEF FollowInv, IsMap
  <2> QED
    BY <2>3, <2>4, <2>5
<1> QED
  BY <1>1, <1>2, <1>3, PTL DEF Spec
-----------------------------------------------------------------------------
(* What the editor and the server hold besides the documents: edits that     *)
(* fit the text they were made for, and an index of what is on the disk.     *)

(* The queues *)

Asks(m, f) == m.file = f /\ m.do = "formatting"
Edits(m, f) == m.file = f /\ m.do = "edit"

QueuesInv ==
    /\ \E S : toServer \in Seq(S)
    /\ \E S : toClient \in Seq(S)
    /\ \A i \in 1..Len(toServer) :
          /\ toServer[i].do \in
                {"initialized", "open", "change", "save", "close", "formatting"}
          /\ toServer[i].do # "initialized" => toServer[i].file \in Files
    /\ \A i \in 1..Len(toClient) :
          /\ toClient[i].do \in {"diagnostics", "edit"}
          /\ toClient[i].file \in Files

FilesInv ==
    /\ drafts \in Corpora
    /\ DOMAIN disk \subseteq Files
    /\ DOMAIN buffer \subseteq Files
    /\ DOMAIN asked \subseteq Files
    /\ DOMAIN docs \subseteq Files
    /\ DOMAIN shown \subseteq Files

(* What a message in the first place becomes. *)
LEMMA ServeFacts ==
    ASSUME Serve
    PROVE  LET m == Head(toServer) IN
           /\ toServer # <<>> /\ toServer' = Tail(toServer)
           /\ UNCHANGED <<drafts, disk, buffer, asked, shown>>
           /\ Len(toClient) < MaxReplies
           /\ m.do \in {"open", "change"} => docs' = Put(docs, m.file, m.text)
           /\ m.do = "close" => docs' = Without(docs, m.file)
           /\ m.do \notin {"open", "change", "close"} => docs' = docs
           /\ m.do \in {"initialized", "save"} => index' \in Indexes /\ stale' = FALSE
           /\ m.do \notin {"initialized", "save"} => UNCHANGED <<index, stale>>
           /\ m.do # "formatting" =>
                 \/ toClient' = toClient
                 \/ /\ m.do # "initialized"
                    /\ \E r : /\ toClient' = Append(toClient, r)
                              /\ r.do = "diagnostics" /\ r.file = m.file
           /\ m.do = "formatting" =>
                 \E r : /\ toClient' = Append(toClient, r)
                        /\ r.do = "edit" /\ r.file = m.file
                        /\ \A text \in r.edits :
                              LET read == Formatted[m.file][docs[m.file]] IN
                              m.file \in DOMAIN docs /\ read.ok /\ text = read.value
<1> DEFINE m == Head(toServer)
<1>1. /\ toServer # <<>> /\ toServer' = Tail(toServer)
      /\ UNCHANGED <<drafts, disk, buffer, asked, shown>>
      /\ Len(toClient) < MaxReplies
      /\ \/ m.do = "initialized" /\ RebuildIndex /\ UNCHANGED <<docs, toClient>>
         \/ m.do \in {"open", "change"} /\ DidChange(m)
         \/ m.do = "save" /\ DidSave(m)
         \/ m.do = "close" /\ DidClose(m)
         \/ m.do = "formatting" /\ Formatting(m)
  BY DEF Serve
<1> HIDE DEF m
<1>2. ASSUME Publish(m.file)
      PROVE  \/ toClient' = toClient
             \/ \E r : /\ toClient' = Append(toClient, r)
                       /\ r.do = "diagnostics" /\ r.file = m.file
  <2>1. CASE toClient' = toClient
    BY <2>1
  <2>2. CASE toClient' # toClient
    <3>1. PICK r : /\ toClient' = Append(toClient, r)
                   /\ r = [do |-> "diagnostics", file |-> m.file,
                           line |-> Diagnosis(m.file, docs'[m.file])]
      BY <1>2, <2>2 DEF Publish
    <3>2. r.do = "diagnostics" /\ r.file = m.file
      BY <3>1
    <3> QED
      BY <3>1, <3>2
  <2> QED
    BY <2>1, <2>2
<1>3. ASSUME Formatting(m)
      PROVE  /\ UNCHANGED <<docs, index, stale>>
             /\ \E r : /\ toClient' = Append(toClient, r)
                       /\ r.do = "edit" /\ r.file = m.file
                       /\ \A text \in r.edits :
                             LET read == Formatted[m.file][docs[m.file]] IN
                             m.file \in DOMAIN docs /\ read.ok /\ text = read.value
  <2> DEFINE text == docs[m.file]
             read == Formatted[m.file][text]
             edits == IF m.file \in DOMAIN docs /\ read.ok /\ read.value # text
                      THEN {read.value} ELSE {}
  <2>1. PICK r : /\ toClient' = Append(toClient, r)
                 /\ r = [do |-> "edit", file |-> m.file, edits |-> edits]
    BY <1>3 DEF Formatting
  <2>2. r.do = "edit" /\ r.file = m.file /\ r.edits = edits
    BY <2>1
  <2>3. \A t \in edits : m.file \in DOMAIN docs /\ read.ok /\ t = read.value
    OBVIOUS
  <2>4. UNCHANGED <<docs, index, stale>>
    BY <1>3 DEF Formatting
  <2> HIDE DEF edits
  <2> QED
    BY <2>1, <2>2, <2>3, <2>4
<1>4. CASE m.do = "initialized" /\ RebuildIndex /\ UNCHANGED <<docs, toClient>>
  BY <1>1, <1>4 DEF RebuildIndex, m
<1>5. CASE m.do \in {"open", "change"} /\ DidChange(m)
  BY <1>1, <1>2, <1>5 DEF DidChange, m
<1>6. CASE m.do = "save" /\ DidSave(m)
  BY <1>1, <1>2, <1>6 DEF DidSave, RebuildIndex, m
<1>7. CASE m.do = "close" /\ DidClose(m)
  BY <1>1, <1>7 DEF DidClose, m
<1>8. CASE m.do = "formatting" /\ Formatting(m)
  BY <1>1, <1>3, <1>8 DEF m
<1> QED
  BY <1>1, <1>4, <1>5, <1>6, <1>7, <1>8

(* What the editor sends. *)
Sends ==
    \E f \in File :
       \/ /\ Open(f)
          /\ toServer' = Append(toServer, Message("open", f, disk[f]))
       \/ \E text \in drafts[f] :
             /\ Type(f)
             /\ toServer' = Append(toServer, Message("change", f, text))
             /\ buffer' = [buffer EXCEPT ![f] = text]
       \/ Save(f) /\ toServer' = Append(toServer, Message("save", f, <<>>))
       \/ Close(f) /\ toServer' = Append(toServer, Message("close", f, <<>>))
       \/ /\ AskFormatting(f)
          /\ toServer' = Append(toServer, Message("formatting", f, <<>>))

(* What an edit does to its document. *)
Takes ==
    LET f == Head(toClient).file IN
    /\ ApplyEdit
    /\ asked' = Without(asked, f)
    /\ \/ UNCHANGED <<buffer, toServer>>
       \/ \E text \in Head(toClient).edits :
             /\ f \in DOMAIN buffer /\ buffer[f] = asked[f]
             /\ buffer' = [buffer EXCEPT ![f] = text]
             /\ toServer' = Append(toServer, Message("change", f, text))

(* The steps, by what they do to the queues. *)
LEMMA StepKinds ==
    ASSUME [Next]_vars
    PROVE  \/ Sends /\ UNCHANGED <<toClient, docs>>
           \/ Takes /\ UNCHANGED docs
           \/ ShowDiagnostics
           \/ Serve
           \/ (\/ Fmt
               \/ \E f \in File : Checkout(f)
               \/ UNCHANGED vars)
              /\ UNCHANGED <<buffer, asked, toServer, toClient, docs>>
<1>1. ASSUME NEW f \in File, Open(f) \/ Save(f) \/ Close(f) \/ AskFormatting(f)
      PROVE  Sends /\ UNCHANGED <<toClient, docs>>
  BY <1>1 DEF Sends, Open, Save, Close, AskFormatting, Send
<1>2. ASSUME NEW f \in File, Type(f) PROVE Sends /\ UNCHANGED <<toClient, docs>>
  BY <1>2 DEF Sends, Type, Send
<1>3. ASSUME ApplyEdit PROVE Takes /\ UNCHANGED docs
  BY <1>3 DEF Takes, ApplyEdit
<1>4. ASSUME NEW f \in File, Checkout(f)
      PROVE  UNCHANGED <<buffer, asked, toServer, toClient, docs>>
  BY <1>4 DEF Checkout
<1>5. ASSUME Fmt PROVE UNCHANGED <<buffer, asked, toServer, toClient, docs>>
  BY <1>5 DEF Fmt
<1>6. ASSUME UNCHANGED vars PROVE UNCHANGED <<buffer, asked, toServer, toClient, docs>>
  BY <1>6 DEF vars
<1> QED
  BY <1>1, <1>2, <1>3, <1>4, <1>5, <1>6 DEF Next

(* A set of drafts is for files. *)
LEMMA CorpusFiles == \A d \in Corpora : DOMAIN d \subseteq Files
BY DEF Files

(* The queues stay sequences of messages, whoever adds or takes one.        *)
LEMMA QueuesStep ==
    ASSUME QueuesInv, FilesInv, [Next]_vars PROVE QueuesInv'
<1> DEFINE Known(m) ==
       /\ m.do \in {"initialized", "open", "change", "save", "close", "formatting"}
       /\ m.do # "initialized" => m.file \in Files
           Reply(r) == r.do \in {"diagnostics", "edit"} /\ r.file \in Files
           Requests(q) == (\E S : q \in Seq(S)) /\ \A i \in 1..Len(q) : Known(q[i])
           Replies(q) == (\E S : q \in Seq(S)) /\ \A i \in 1..Len(q) : Reply(q[i])
<1>1. Requests(toServer) /\ Replies(toClient)
  BY DEF QueuesInv
<1>2. ASSUME Requests(toServer'), Replies(toClient') PROVE QueuesInv'
  BY <1>2 DEF QueuesInv
<1>3. DOMAIN drafts \subseteq Files
  BY CorpusFiles DEF FilesInv
<1> HIDE DEF Known, Reply
<1>4. ASSUME NEW m, Known(m), toServer' = Append(toServer, m) PROVE Requests(toServer')
  <2>1. PICK S : toServer \in Seq(S)
    BY <1>1
  <2>2. /\ toServer' \in Seq(S \cup {m}) /\ Len(toServer') = Len(toServer) + 1
        /\ \A i \in 1..Len(toServer) : toServer'[i] = toServer[i]
        /\ toServer'[Len(toServer) + 1] = m
        /\ Len(toServer) \in Nat
    BY <1>4, <2>1, AppendFacts
  <2>3. \A i \in 1..Len(toServer') : i \in 1..Len(toServer) \/ i = Len(toServer) + 1
    BY <2>2
  <2> QED
    BY <1>1, <1>4, <2>2, <2>3
<1>5. ASSUME toServer # <<>>, toServer' = Tail(toServer)
      PROVE  Requests(toServer') /\ Known(Head(toServer))
  BY <1>1, <1>5, TailFacts
<1>6. ASSUME NEW r, Reply(r), toClient' = Append(toClient, r) PROVE Replies(toClient')
  <2>1. PICK S : toClient \in Seq(S)
    BY <1>1
  <2>2. /\ toClient' \in Seq(S \cup {r}) /\ Len(toClient') = Len(toClient) + 1
        /\ \A i \in 1..Len(toClient) : toClient'[i] = toClient[i]
        /\ toClient'[Len(toClient) + 1] = r
        /\ Len(toClient) \in Nat
    BY <1>6, <2>1, AppendFacts
  <2>3. \A i \in 1..Len(toClient') : i \in 1..Len(toClient) \/ i = Len(toClient) + 1
    BY <2>2
  <2> QED
    BY <1>1, <1>6, <2>2, <2>3
<1>7. ASSUME toClient # <<>>, toClient' = Tail(toClient)
      PROVE  Replies(toClient') /\ Reply(Head(toClient))
  BY <1>1, <1>7, TailFacts
<1>8. \A f \in Files, do \in {"open", "change", "save", "close", "formatting"} : \A text :
         Known(Message(do, f, text))
  BY DEF Known, Message
<1>9. CASE Sends /\ UNCHANGED <<toClient, docs>>
  <2>1. PICK m : Known(m) /\ toServer' = Append(toServer, m)
    BY <1>3, <1>8, <1>9 DEF Sends, File
  <2> QED
    BY <1>1, <1>2, <1>4, <1>9, <2>1
<1>10. CASE Takes
  <2>1. toClient # <<>> /\ toClient' = Tail(toClient)
    BY <1>10 DEF Takes, ApplyEdit
  <2>2. Head(toClient).file \in Files
    BY <1>7, <2>1 DEF Reply
  <2>3. \/ toServer' = toServer
        \/ \E text : toServer' = Append(toServer, Message("change", Head(toClient).file, text))
    BY <1>10 DEF Takes
  <2>4. CASE toServer' = toServer
    BY <1>1, <1>2, <1>7, <2>1, <2>4
  <2>5. CASE toServer' # toServer
    <3>1. PICK m : Known(m) /\ toServer' = Append(toServer, m)
      BY <1>8, <2>2, <2>3, <2>5
    <3> QED
      BY <1>2, <1>4, <1>7, <2>1, <3>1
  <2> QED
    BY <2>4, <2>5
<1>11. CASE ShowDiagnostics
  <2>1. toClient # <<>> /\ toClient' = Tail(toClient) /\ toServer' = toServer
    BY <1>11 DEF ShowDiagnostics
  <2> QED
    BY <1>1, <1>2, <1>7, <2>1
<1>12. CASE Serve
  <2>1. Requests(toServer') /\ Known(Head(toServer))
    BY <1>5, <1>12, ServeFacts
  <2>2. \/ toClient' = toClient
        \/ \E r : /\ toClient' = Append(toClient, r) /\ r.do \in {"diagnostics", "edit"}
                  /\ r.file = Head(toServer).file /\ Head(toServer).do # "initialized"
    BY <1>12, ServeFacts
  <2>3. CASE toClient' = toClient
    BY <1>1, <1>2, <2>1, <2>3
  <2>4. ASSUME NEW r, toClient' = Append(toClient, r), r.do \in {"diagnostics", "edit"},
               r.file = Head(toServer).file, Head(toServer).do # "initialized"
        PROVE  QueuesInv'
    <3>1. Reply(r)
      BY <2>1, <2>4 DEF Known, Reply
    <3> QED
      BY <1>2, <1>6, <2>1, <2>4, <3>1
  <2> QED
    BY <2>2, <2>3, <2>4
<1>13. CASE UNCHANGED <<toServer, toClient>>
  BY <1>1, <1>2, <1>13
<1> QED
  BY <1>9, <1>10, <1>11, <1>12, <1>13, StepKinds

(* What is open, asked, kept and shown stays among the files.               *)
LEMMA FilesStep ==
    ASSUME QueuesInv, FilesInv, [Next]_vars PROVE FilesInv'
<1>1. DOMAIN drafts \subseteq Files /\ drafts' = drafts
  BY CorpusFiles DEF FilesInv, Next, vars, Open, Type, Save, Close, AskFormatting,
     Checkout, ShowDiagnostics, ApplyEdit, Serve, Fmt
<1>2. CASE Sends /\ UNCHANGED <<toClient, docs>>
  <2>1. PICK f \in DOMAIN drafts : Open(f) \/ Type(f) \/ Save(f) \/ Close(f) \/ AskFormatting(f)
    BY <1>2 DEF Sends, File
  <2>2. CASE Open(f)
    BY <1>1, <2>1, <2>2 DEF Put, FilesInv, Open
  <2>3. CASE Type(f)
    BY <1>1, <2>1, <2>3 DEF FilesInv, Type
  <2>4. CASE Save(f)
    BY <1>1, <2>1, <2>4 DEF Put, FilesInv, Save
  <2>5. CASE Close(f)
    BY <1>1, <2>1, <2>5 DEF Without, FilesInv, Close
  <2>6. CASE AskFormatting(f)
    BY <1>1, <2>1, <2>6 DEF Put, FilesInv, AskFormatting
  <2> QED
    BY <2>1, <2>2, <2>3, <2>4, <2>5, <2>6
<1>3. CASE Takes /\ UNCHANGED docs
  <2>1. UNCHANGED <<disk, shown>>
    BY <1>3 DEF Takes, ApplyEdit
  <2>2. DOMAIN buffer' = DOMAIN buffer /\ DOMAIN asked' \subseteq DOMAIN asked
    BY <1>3 DEF Without, Takes
  <2> QED
    BY <1>1, <1>3, <2>1, <2>2 DEF FilesInv
<1>4. CASE ShowDiagnostics
  <2>1. Head(toClient).file \in Files
    <3>1. toClient # <<>>
      BY <1>4 DEF ShowDiagnostics
    <3>2. Head(toClient) = toClient[1] /\ 1 \in 1..Len(toClient)
      BY <3>1, TailFacts DEF QueuesInv
    <3> QED
      BY <3>2 DEF QueuesInv
  <2> QED
    BY <1>1, <1>4, <2>1 DEF Put, FilesInv, ShowDiagnostics
<1>5. CASE Serve
  <2> DEFINE m == Head(toServer)
  <2>1. m.do \in {"open", "change"} => m.file \in Files
    <3>1. toServer # <<>>
      BY <1>5 DEF Serve
    <3>2. Head(toServer) = toServer[1] /\ 1 \in 1..Len(toServer)
      BY <3>1, TailFacts DEF QueuesInv
    <3> QED
      BY <3>2 DEF QueuesInv
  <2>2. /\ UNCHANGED <<disk, buffer, asked, shown>>
        /\ \/ docs' = Put(docs, m.file, m.text) /\ m.do \in {"open", "change"}
           \/ docs' = Without(docs, m.file)
           \/ docs' = docs
    BY <1>5, ServeFacts
  <2>3. DOMAIN docs' \subseteq Files
    BY <2>1, <2>2 DEF Put, Without, FilesInv
  <2> QED
    BY <1>1, <2>2, <2>3 DEF FilesInv
<1>6. CASE /\ Fmt \/ (\E f \in File : Checkout(f)) \/ UNCHANGED vars
           /\ UNCHANGED <<buffer, asked, toServer, toClient, docs>>
  <2>1. DOMAIN disk' \subseteq Files
    BY <1>1, <1>6 DEF Put, Without, FilesInv, Fmt, Checkout, File, vars
  <2>2. shown' = shown
    BY <1>6 DEF Fmt, Checkout, vars
  <2> QED
    BY <1>1, <1>6, <2>1, <2>2 DEF FilesInv
<1> QED
  BY <1>2, <1>3, <1>4, <1>5, <1>6, StepKinds

(* The editor sends, or the server reads. *)
LEMMA Sent ==
    ASSUME QueuesInv, NEW m, toServer' = Append(toServer, m)
    PROVE  /\ Len(toServer) \in Nat /\ Len(toServer') = Len(toServer) + 1
           /\ \A i \in 1..Len(toServer) : toServer'[i] = toServer[i]
           /\ toServer'[Len(toServer) + 1] = m
           /\ \A i \in 1..Len(toServer') : i # Len(toServer) + 1 => i \in 1..Len(toServer)
<1>1. PICK S : toServer \in Seq(S)
  BY DEF QueuesInv
<1> QED
  BY <1>1, AppendFacts

(* The server reads: what waits moves up. *)
LEMMA Received ==
    ASSUME QueuesInv, toServer # <<>>, toServer' = Tail(toServer)
    PROVE  /\ Len(toServer) \in Nat /\ Len(toServer') = Len(toServer) - 1
           /\ Head(toServer) = toServer[1] /\ 1 \in 1..Len(toServer)
           /\ \A i \in 1..Len(toServer') : /\ i + 1 \in 2..Len(toServer)
                                           /\ toServer'[i] = toServer[i + 1]
<1>1. PICK S : toServer \in Seq(S)
  BY DEF QueuesInv
<1> QED
  BY <1>1, TailFacts

(* The server replies, or the editor reads. *)
LEMMA Replied ==
    ASSUME QueuesInv, NEW r, toClient' = Append(toClient, r)
    PROVE  /\ Len(toClient) \in Nat /\ Len(toClient') = Len(toClient) + 1
           /\ \A i \in 1..Len(toClient) : toClient'[i] = toClient[i]
           /\ toClient'[Len(toClient) + 1] = r
           /\ \A i \in 1..Len(toClient') : i # Len(toClient) + 1 => i \in 1..Len(toClient)
<1>1. PICK S : toClient \in Seq(S)
  BY DEF QueuesInv
<1> QED
  BY <1>1, AppendFacts

(* The editor reads. *)
LEMMA Taken ==
    ASSUME QueuesInv, toClient # <<>>, toClient' = Tail(toClient)
    PROVE  /\ Len(toClient) \in Nat /\ Len(toClient') = Len(toClient) - 1
           /\ Head(toClient) = toClient[1] /\ 1 \in 1..Len(toClient)
           /\ \A i \in 1..Len(toClient') : /\ i + 1 \in 2..Len(toClient)
                                           /\ toClient'[i] = toClient[i + 1]
<1>1. PICK S : toClient \in Seq(S)
  BY DEF QueuesInv
<1> QED
  BY <1>1, TailFacts

-----------------------------------------------------------------------------
(* Formatting *)

(* What is asked for is on its way, once: as a request or as its answer. *)
AskedInv ==
    /\ \A i \in 1..Len(toServer) :
          toServer[i].do = "formatting" => toServer[i].file \in DOMAIN asked
    /\ \A i, j \in 1..Len(toServer) :
          toServer[i].do = "formatting" /\ toServer[j].do = "formatting"
             /\ toServer[i].file = toServer[j].file => i = j
    /\ \A i \in 1..Len(toServer), j \in 1..Len(toClient) :
          toServer[i].do = "formatting" /\ toClient[j].do = "edit"
             => toServer[i].file # toClient[j].file
    /\ \A j \in 1..Len(toClient) :
          toClient[j].do = "edit" => toClient[j].file \in DOMAIN asked
    /\ \A i, j \in 1..Len(toClient) :
          toClient[i].do = "edit" /\ toClient[j].do = "edit"
             /\ toClient[i].file = toClient[j].file => i = j

(* One request for formatting per file is out, or its edits are on their     *)
(* way, never both and never twice.                                         *)
LEMMA AskedStep ==
    ASSUME QueuesInv, AskedInv, [Next]_vars PROVE AskedInv'
<1>1. ASSUME NEW m, toServer' = Append(toServer, m), UNCHANGED <<toClient, asked>>,
             m.do # "formatting"
      PROVE  AskedInv'
  BY <1>1, Sent DEF AskedInv
<1>2. CASE Sends /\ UNCHANGED <<toClient, docs>>
  <2>1. PICK f \in DOMAIN drafts :
           \/ Open(f) /\ toServer' = Append(toServer, Message("open", f, disk[f]))
           \/ /\ Type(f)
              /\ \E text : toServer' = Append(toServer, Message("change", f, text))
           \/ Save(f) /\ toServer' = Append(toServer, Message("save", f, <<>>))
           \/ Close(f) /\ toServer' = Append(toServer, Message("close", f, <<>>))
           \/ /\ AskFormatting(f)
              /\ toServer' = Append(toServer, Message("formatting", f, <<>>))
    BY <1>2 DEF Sends, File
  <2>2. CASE AskFormatting(f)
    <3>1. PICK m : m.file = f /\ toServer' = Append(toServer, m)
      BY <2>2 DEF AskFormatting, Send, Message
    <3>2. f \notin DOMAIN asked /\ DOMAIN asked' = DOMAIN asked \cup {f}
      BY <2>2 DEF AskFormatting, Put
    <3> QED
      BY <1>2, <3>1, <3>2, Sent DEF AskedInv
  <2>3. CASE ~AskFormatting(f)
    <3>1. PICK m : m.do # "formatting" /\ toServer' = Append(toServer, m)
      BY <2>1, <2>3 DEF Message
    <3>2. asked' = asked
      BY <2>1, <2>3 DEF Open, Type, Save, Close
    <3> QED
      BY <1>1, <1>2, <3>1, <3>2
  <2> QED
    BY <2>2, <2>3
<1>3. CASE Takes
  <2>1. /\ toClient # <<>> /\ toClient' = Tail(toClient) /\ Head(toClient).do = "edit"
        /\ DOMAIN asked' = DOMAIN asked \ {Head(toClient).file}
    BY <1>3 DEF Takes, ApplyEdit, Without
  <2>2. CASE toServer' = toServer
    BY <2>1, <2>2, Taken DEF AskedInv
  <2>3. CASE toServer' # toServer
    <3>1. PICK m : m.do # "formatting" /\ toServer' = Append(toServer, m)
      BY <1>3, <2>3 DEF Takes, Message
    <3> QED
      BY <2>1, <3>1, Taken, Sent DEF AskedInv
  <2> QED
    BY <2>2, <2>3
<1>4. CASE ShowDiagnostics
  <2>1. toClient # <<>> /\ toClient' = Tail(toClient) /\ UNCHANGED <<toServer, asked>>
    BY <1>4 DEF ShowDiagnostics
  <2> QED
    BY <2>1, Taken DEF AskedInv
<1>5. CASE Serve
  <2>1. toServer # <<>> /\ toServer' = Tail(toServer) /\ asked' = asked
    BY <1>5, ServeFacts
  <2>2. CASE Head(toServer).do # "formatting"
    <3>1. CASE toClient' = toClient
      BY <2>1, <3>1, Received DEF AskedInv
    <3>2. CASE toClient' # toClient
      <4>1. PICK r : toClient' = Append(toClient, r) /\ r.do = "diagnostics"
        BY <1>5, <2>2, <3>2, ServeFacts
      <4> QED
        BY <2>1, <4>1, Received, Replied DEF AskedInv
    <3> QED
      BY <3>1, <3>2
  <2>3. CASE Head(toServer).do = "formatting"
    <3>1. PICK r : toClient' = Append(toClient, r) /\ r.file = Head(toServer).file
      BY <1>5, <2>3, ServeFacts
    <3> QED
      BY <2>1, <2>3, <3>1, Received, Replied DEF AskedInv
  <2> QED
    BY <2>2, <2>3
<1>6. CASE UNCHANGED <<buffer, asked, toServer, toClient, docs>>
  BY <1>6 DEF AskedInv
<1> QED
  BY <1>2, <1>3, <1>4, <1>5, <1>6, StepKinds

(* The document is, when a request for formatting is read, what it was when *)
(* the editor asked; the edits of an answer were made for that.              *)
SilentIn(k, n, f) == \A i \in k..n : ~Tells(toServer[i], f)

Meant(i, f) ==
    /\ SilentIn(1, i - 1, f) => f \in DOMAIN docs /\ docs[f] = asked[f]
    /\ \A j \in 1..(i - 1) :
          (Tells(toServer[j], f) /\ SilentIn(j + 1, i - 1, f)) =>
             toServer[j].do # "close" /\ toServer[j].text = asked[f]

Answers(r) ==
    LET read == Formatted[r.file][asked[r.file]] IN
    \A text \in r.edits : read.ok /\ text = read.value

AnswerInv ==
    /\ \A i \in 1..Len(toServer) :
          toServer[i].do = "formatting" => Meant(i, toServer[i].file)
    /\ \A i \in 1..Len(toClient) :
          toClient[i].do = "edit" => Answers(toClient[i])

(* What is sent later says nothing of what was asked before. *)
LEMMA MeantStays ==
    ASSUME QueuesInv, NEW m, toServer' = Append(toServer, m), docs' = docs,
           NEW i \in 1..Len(toServer), NEW f, asked'[f] = asked[f], Meant(i, f)
    PROVE  Meant(i, f)'
<1>1. /\ Len(toServer) \in Nat
      /\ \A j \in 1..Len(toServer) : toServer'[j] = toServer[j]
  BY Sent
<1>2. \A k \in Nat : SilentIn(k, i - 1, f)' /\ k # 0 => SilentIn(k, i - 1, f)
  BY <1>1 DEF SilentIn
<1>3. SilentIn(1, i - 1, f)' => SilentIn(1, i - 1, f)
  BY <1>2
<1>4. ASSUME NEW j \in 1..(i - 1), SilentIn(j + 1, i - 1, f)'
      PROVE  /\ SilentIn(j + 1, i - 1, f)
             /\ toServer'[j] = toServer[j]
  <2>1. j + 1 \in Nat /\ j + 1 # 0 /\ j \in 1..Len(toServer)
    BY <1>1
  <2> QED
    BY <1>1, <1>2, <1>4, <2>1
<1> QED
  BY <1>3, <1>4 DEF Meant

(* A request is for what the editor then has. *)
LEMMA MeantNow ==
    ASSUME QueuesInv, FollowInv, NEW m, toServer' = Append(toServer, m), docs' = docs,
           NEW f \in DOMAIN buffer, asked'[f] = buffer[f],
           NEW i, i = Len(toServer) + 1
    PROVE  Meant(i, f)'
<1>1. /\ Len(toServer) \in Nat
      /\ \A j \in 1..Len(toServer) : toServer'[j] = toServer[j]
  BY Sent
<1> DEFINE n == Len(toServer)
           Silent(k) == \A l \in k..n : ~Tells(toServer'[l], f)
<1>2. i - 1 = n
  BY <1>1
<1>3. Silent(1) => SilentFrom(1, f)
  BY <1>1 DEF SilentFrom
<1>4. \A j \in 1..n : Silent(j + 1) => SilentFrom(j + 1, f)
  BY <1>1 DEF SilentFrom
<1>5. Follows(f)
  BY DEF FollowInv
<1>6. Silent(1) => f \in DOMAIN docs' /\ docs'[f] = asked'[f]
  BY <1>3, <1>5 DEF Follows, SameDocument
<1>7. ASSUME NEW j \in 1..n, Tells(toServer'[j], f), Silent(j + 1)
      PROVE  toServer'[j].do # "close" /\ toServer'[j].text = asked'[f]
  <2>1. toServer'[j] = toServer[j] /\ SilentFrom(j + 1, f)
    BY <1>1, <1>4, <1>7
  <2>2. Holds(toServer[j]) /\ toServer[j].file = f
    BY <1>5, <1>7, <2>1 DEF Follows, Tells
  <2> QED
    BY <2>1, <2>2 DEF Holds
<1> HIDE DEF n
<1> QED
  BY <1>2, <1>6, <1>7 DEF Meant, SilentIn

(* The server reads the first message. *)
LEMMA MeantShifts ==
    ASSUME QueuesInv, Serve, NEW i \in 1..Len(toServer'), NEW f, Meant(i + 1, f)
    PROVE  Meant(i, f)'
<1> DEFINE m == Head(toServer)
<1>1. /\ Len(toServer) \in Nat /\ Len(toServer') = Len(toServer) - 1
      /\ m = toServer[1]
      /\ \A k \in 1..Len(toServer') : toServer'[k] = toServer[k + 1]
      /\ asked' = asked
  BY Received, ServeFacts
<1>2. (i + 1) - 1 = i /\ i \in Nat
  BY <1>1
<1>3. ASSUME NEW k \in 1..i, SilentIn(k, i - 1, f)'
      PROVE  SilentIn(k + 1, i, f)
  <2> SUFFICES ASSUME NEW l \in (k + 1)..i PROVE ~Tells(toServer[l], f)
    BY DEF SilentIn
  <2>1. l - 1 \in k..(i - 1) /\ l - 1 \in 1..Len(toServer') /\ (l - 1) + 1 = l
    BY <1>1, <1>2
  <2>2. toServer'[l - 1] = toServer[l]
    BY <1>1, <2>1
  <2> QED
    BY <1>3, <2>1, <2>2 DEF SilentIn
<1>4. ASSUME SilentIn(1, i - 1, f)' PROVE f \in DOMAIN docs' /\ docs'[f] = asked'[f]
  <2>1. SilentIn(2, i, f)
    BY <1>2, <1>3, <1>4
  <2>2. CASE Tells(m, f)
    <3>1. m.do # "close" /\ m.text = asked[f]
      BY <1>1, <1>2, <2>1, <2>2 DEF Meant
    <3>2. docs' = Put(docs, f, m.text)
      BY <2>2, <3>1, ServeFacts DEF Tells
    <3> QED
      BY <1>1, <3>1, <3>2 DEF Put
  <2>3. CASE ~Tells(m, f)
    <3>1. SilentIn(1, i, f)
      BY <1>1, <1>2, <2>1, <2>3 DEF SilentIn
    <3>2. f \in DOMAIN docs /\ docs[f] = asked[f]
      BY <1>2, <3>1 DEF Meant
    <3>3. \/ docs' = docs
          \/ m.file # f /\ docs' = Put(docs, m.file, m.text)
          \/ m.file # f /\ docs' = Without(docs, m.file)
      BY <2>3, ServeFacts DEF Tells
    <3> QED
      BY <1>1, <3>2, <3>3 DEF Put, Without
  <2> QED
    BY <2>2, <2>3
<1>5. ASSUME NEW j \in 1..(i - 1), Tells(toServer'[j], f), SilentIn(j + 1, i - 1, f)'
      PROVE  toServer'[j].do # "close" /\ toServer'[j].text = asked'[f]
  <2>1. j + 1 \in 1..i /\ j \in 1..Len(toServer')
    BY <1>1, <1>2
  <2>2. SilentIn((j + 1) + 1, i, f) /\ toServer'[j] = toServer[j + 1]
    BY <1>1, <1>3, <1>5, <2>1
  <2> QED
    BY <1>1, <1>2, <1>5, <2>1, <2>2 DEF Meant
<1> QED
  BY <1>4, <1>5 DEF Meant

(* The edits for a file are for the text that was asked about.              *)
LEMMA AnswerStep ==
    ASSUME QueuesInv, FollowInv, AskedInv, AnswerInv, [Next]_vars PROVE AnswerInv'
<1>1. CASE Sends /\ UNCHANGED <<toClient, docs>>
  <2>1. PICK f \in DOMAIN drafts :
           \/ Open(f) /\ toServer' = Append(toServer, Message("open", f, disk[f]))
           \/ /\ Type(f)
              /\ \E text : toServer' = Append(toServer, Message("change", f, text))
           \/ Save(f) /\ toServer' = Append(toServer, Message("save", f, <<>>))
           \/ Close(f) /\ toServer' = Append(toServer, Message("close", f, <<>>))
           \/ /\ AskFormatting(f)
              /\ toServer' = Append(toServer, Message("formatting", f, <<>>))
    BY <1>1 DEF Sends, File
  <2>2. CASE AskFormatting(f)
    <3>1. PICK m : m.file = f /\ toServer' = Append(toServer, m)
      BY <2>2 DEF AskFormatting, Send, Message
    <3>2. /\ f \notin DOMAIN asked /\ f \in DOMAIN buffer /\ asked'[f] = buffer[f]
          /\ \A g \in DOMAIN asked : asked'[g] = asked[g]
      BY <2>2 DEF AskFormatting, Put
    <3>3. ASSUME NEW i \in 1..Len(toServer'), toServer'[i].do = "formatting",
                 NEW g, g = toServer'[i].file
          PROVE  Meant(i, g)'
      <4>1. CASE i = Len(toServer) + 1
        <5>1. g = f
          BY <3>1, <3>3, <4>1, Sent
        <5> QED
          BY <1>1, <3>1, <3>2, <4>1, <5>1, MeantNow
      <4>2. CASE i # Len(toServer) + 1
        <5>1. i \in 1..Len(toServer) /\ toServer'[i] = toServer[i]
          BY <3>1, <4>2, Sent
        <5>2. Meant(i, g) /\ asked'[g] = asked[g]
          BY <3>2, <3>3, <5>1 DEF AnswerInv, AskedInv
        <5> QED
          BY <1>1, <3>1, <5>1, <5>2, MeantStays
      <4> QED
        BY <4>1, <4>2
    <3>4. \A i \in 1..Len(toClient) :
             toClient[i].do = "edit" =>
                /\ asked'[toClient[i].file] = asked[toClient[i].file]
                /\ Answers(toClient[i])
      BY <3>2 DEF AskedInv, AnswerInv
    <3>5. ASSUME NEW i \in 1..Len(toClient'), NEW r, r = toClient'[i], r.do = "edit"
          PROVE  Answers(r)'
      <4>1. asked'[r.file] = asked[r.file] /\ Answers(r)
        BY <1>1, <3>4, <3>5
      <4> QED
        BY <4>1 DEF Answers
    <3> QED
      BY <3>3, <3>5, Zenon DEF AnswerInv
  <2>3. CASE ~AskFormatting(f)
    <3>1. PICK m : m.do # "formatting" /\ toServer' = Append(toServer, m)
      BY <2>1, <2>3 DEF Message
    <3>2. asked' = asked
      BY <2>1, <2>3 DEF Open, Type, Save, Close
    <3>3. ASSUME NEW i \in 1..Len(toServer'), toServer'[i].do = "formatting",
                 NEW g, g = toServer'[i].file
          PROVE  Meant(i, g)'
      <4>1. i \in 1..Len(toServer) /\ toServer'[i] = toServer[i]
        BY <3>1, <3>3, Sent
      <4>2. Meant(i, g)
        BY <3>3, <4>1 DEF AnswerInv
      <4> QED
        BY <1>1, <3>1, <3>2, <4>1, <4>2, MeantStays
    <3> QED
      BY <1>1, <3>2, <3>3 DEF AnswerInv, Answers, Meant, SilentIn
  <2> QED
    BY <2>2, <2>3
<1>2. CASE Takes /\ UNCHANGED docs
  <2>1. PICK f : f = Head(toClient).file
    OBVIOUS
  <2>2. /\ toClient # <<>> /\ toClient' = Tail(toClient) /\ Head(toClient).do = "edit"
        /\ \A g \in DOMAIN asked \ {f} : asked'[g] = asked[g]
    BY <1>2, <2>1 DEF Takes, ApplyEdit, Without
  <2>3. \A i \in 1..Len(toServer) :
           toServer[i].do = "formatting" =>
              asked'[toServer[i].file] = asked[toServer[i].file]
    BY <2>1, <2>2, Taken DEF AskedInv
  <2>4. ASSUME NEW i \in 1..Len(toServer'), toServer'[i].do = "formatting",
               NEW g, g = toServer'[i].file
        PROVE  Meant(i, g)'
    <3>1. CASE toServer' = toServer
      <4>1. Meant(i, g) /\ asked'[g] = asked[g]
        BY <2>3, <2>4, <3>1 DEF AnswerInv
      <4> QED
        BY <1>2, <3>1, <4>1 DEF Meant, SilentIn
    <3>2. CASE toServer' # toServer
      <4>1. PICK m : m.do # "formatting" /\ toServer' = Append(toServer, m)
        BY <1>2, <3>2 DEF Takes, Message
      <4>2. i \in 1..Len(toServer) /\ toServer'[i] = toServer[i]
        BY <2>4, <4>1, Sent
      <4>3. Meant(i, g) /\ asked'[g] = asked[g]
        BY <2>3, <2>4, <4>2 DEF AnswerInv
      <4> QED
        BY <1>2, <4>1, <4>2, <4>3, MeantStays
    <3> QED
      BY <3>1, <3>2
  <2>5. ASSUME NEW i \in 1..Len(toClient'), NEW r, r = toClient'[i], r.do = "edit"
        PROVE  Answers(r)'
    <3>1. i + 1 \in 1..Len(toClient) /\ i + 1 # 1 /\ toClient'[i] = toClient[i + 1]
          /\ Head(toClient) = toClient[1] /\ 1 \in 1..Len(toClient)
      BY <2>2, Taken
    <3>2. Answers(r)
      BY <2>5, <3>1 DEF AnswerInv
    <3>3. asked'[r.file] = asked[r.file]
      BY <2>1, <2>2, <2>5, <3>1 DEF AskedInv
    <3> QED
      BY <3>2, <3>3 DEF Answers
  <2> QED
    BY <2>4, <2>5, Zenon DEF AnswerInv
<1>3. CASE ShowDiagnostics
  <2>1. /\ toClient # <<>> /\ toClient' = Tail(toClient)
        /\ UNCHANGED <<toServer, asked, docs>>
    BY <1>3 DEF ShowDiagnostics
  <2>2. ASSUME NEW i \in 1..Len(toServer'), toServer'[i].do = "formatting",
               NEW g, g = toServer'[i].file
        PROVE  Meant(i, g)'
    BY <2>1, <2>2 DEF AnswerInv, Meant, SilentIn
  <2>3. ASSUME NEW i \in 1..Len(toClient'), NEW r, r = toClient'[i], r.do = "edit"
        PROVE  Answers(r)'
    <3>1. i + 1 \in 1..Len(toClient) /\ toClient'[i] = toClient[i + 1]
      BY <2>1, Taken
    <3>2. Answers(r)
      BY <2>3, <3>1 DEF AnswerInv
    <3> QED
      BY <2>1, <3>2 DEF Answers
  <2> QED
    BY <2>2, <2>3, Zenon DEF AnswerInv
<1>4. CASE Serve
  <2> DEFINE m == Head(toServer)
  <2>1. /\ toServer # <<>> /\ toServer' = Tail(toServer) /\ asked' = asked
    BY <1>4, ServeFacts
  <2>2. ASSUME NEW i \in 1..Len(toServer'), toServer'[i].do = "formatting",
               NEW g, g = toServer'[i].file
        PROVE  Meant(i, g)'
    <3>1. i + 1 \in 1..Len(toServer) /\ toServer'[i] = toServer[i + 1]
      BY <2>1, Received
    <3>2. Meant(i + 1, g)
      BY <2>2, <3>1 DEF AnswerInv
    <3> QED
      BY <1>4, <3>2, MeantShifts
  <2>0. ASSUME \A i \in 1..Len(toClient') :
                  toClient'[i].do = "edit" => Answers(toClient'[i])
        PROVE  AnswerInv'
    <3>1. \A r : Answers(r)' <=> Answers(r)
      BY <2>1 DEF Answers
    <3> QED
      BY <2>0, <2>2, <3>1, Zenon DEF AnswerInv
  <2>3. CASE toClient' = toClient
    BY <2>0, <2>3 DEF AnswerInv
  <2>4. ASSUME NEW r, toClient' = Append(toClient, r), r.do = "edit" => Answers(r)
        PROVE  AnswerInv'
    <3>1. \A i \in 1..Len(toClient') :
             toClient'[i].do = "edit" => Answers(toClient'[i])
      BY <2>4, Replied DEF AnswerInv
    <3> QED
      BY <2>0, <3>1
  <2>5. CASE m.do = "formatting"
    <3>1. PICK r : /\ toClient' = Append(toClient, r)
                   /\ r.file = m.file
                   /\ \A text \in r.edits :
                         LET read == Formatted[m.file][docs[m.file]] IN
                         m.file \in DOMAIN docs /\ read.ok /\ text = read.value
      BY <1>4, <2>5, ServeFacts
    <3>2. Meant(1, m.file)
      BY <2>1, <2>5, Received DEF AnswerInv
    <3>3. docs[m.file] = asked[m.file]
      BY <3>2 DEF Meant, SilentIn
    <3> QED
      BY <2>4, <3>1, <3>3 DEF Answers
  <2>6. CASE m.do # "formatting" /\ toClient' # toClient
    <3>1. PICK r : toClient' = Append(toClient, r) /\ r.do = "diagnostics"
      BY <1>4, <2>6, ServeFacts
    <3> QED
      BY <2>4, <3>1
  <2> QED
    BY <2>3, <2>5, <2>6
<1>5. CASE UNCHANGED <<buffer, asked, toServer, toClient, docs>>
  BY <1>5 DEF AnswerInv, Meant, SilentIn, Answers
<1> QED
  BY <1>1, <1>2, <1>3, <1>4, <1>5, StepKinds

-----------------------------------------------------------------------------
(* The texts *)

IsText(map) == \A f \in DOMAIN map : f \in Files /\ map[f] \in Texts[f]

TextInv == IsText(disk) /\ IsText(buffer) /\ IsText(asked)

(* What the developer writes is among the texts the tables are of.          *)
LEMMA DraftsAreTexts ==
    ASSUME NEW d \in Corpora, NEW f \in DOMAIN d
    PROVE  f \in Files /\ d[f] \subseteq Texts[f]
<1> DEFINE all == UNION {c[f] : c \in {e \in Corpora : f \in DOMAIN e}}
<1>1. f \in Files
  BY DEF Files
<1>2. Texts[f] = WithCanonical(f, WithCanonical(f, all))
  BY <1>1 DEF Texts
<1>3. d[f] \subseteq all
  OBVIOUS
<1> HIDE DEF all
<1>4. \A texts : texts \subseteq WithCanonical(f, texts)
  BY DEF WithCanonical
<1> QED
  BY <1>1, <1>2, <1>3, <1>4

(* An edit is the text that the formatter makes of the one in the buffer. *)
LEMMA EditFits ==
    ASSUME QueuesInv, AskedInv, AnswerInv, TextInv, Takes,
           NEW f, f = Head(toClient).file
    PROVE  \/ buffer' = buffer
           \/ /\ f \in DOMAIN buffer /\ f \in Files /\ buffer[f] \in Texts[f]
              /\ Formatted[f][buffer[f]].ok
              /\ buffer' = [buffer EXCEPT ![f] = Formatted[f][buffer[f]].value]
<1>1. CASE buffer' = buffer
  BY <1>1
<1>2. CASE buffer' # buffer
  <2>1. PICK text \in Head(toClient).edits :
           /\ f \in DOMAIN buffer /\ buffer[f] = asked[f]
           /\ buffer' = [buffer EXCEPT ![f] = text]
    BY <1>2 DEF Takes
  <2>2. toClient # <<>> /\ toClient' = Tail(toClient) /\ Head(toClient).do = "edit"
    BY DEF Takes, ApplyEdit
  <2>3. Answers(Head(toClient))
    BY <2>2, Taken DEF AnswerInv
  <2>4. Formatted[f][asked[f]].ok /\ text = Formatted[f][asked[f]].value
    BY <2>1, <2>3 DEF Answers
  <2> QED
    BY <2>1, <2>4 DEF TextInv, IsText
<1> QED
  BY <1>1, <1>2

(* The disk and the buffers hold texts of these tables only.                *)
LEMMA TextStep ==
    ASSUME FormatKeepsMeaning, FilesInv, QueuesInv, AskedInv, AnswerInv, TextInv,
           [Next]_vars
    PROVE  TextInv'
<1>1. \A f \in DOMAIN drafts : f \in Files /\ drafts[f] \subseteq Texts[f]
  BY DraftsAreTexts DEF FilesInv
<1>2. \A f \in Files : \A text \in Texts[f] :
         Formatted[f][text].ok => Formatted[f][text].value \in Texts[f]
  BY DEF FormatKeepsMeaning
<1>3. CASE Sends
  <2>1. PICK f \in DOMAIN drafts :
           \/ Open(f) \/ Save(f) \/ Close(f) \/ AskFormatting(f)
           \/ \E text \in drafts[f] : Type(f) /\ buffer' = [buffer EXCEPT ![f] = text]
    BY <1>3 DEF Sends, File
  <2>2. CASE Open(f)
    BY <2>2 DEF Open, Put, TextInv, IsText
  <2>3. CASE Save(f)
    BY <2>3 DEF Save, Put, TextInv, IsText
  <2>4. CASE Close(f)
    BY <2>4 DEF Close, Without, TextInv, IsText
  <2>5. CASE AskFormatting(f)
    BY <2>5 DEF AskFormatting, Put, TextInv, IsText
  <2>6. CASE \E text \in drafts[f] : Type(f) /\ buffer' = [buffer EXCEPT ![f] = text]
    BY <1>1, <2>6 DEF Type, TextInv, IsText
  <2> QED
    BY <2>1, <2>2, <2>3, <2>4, <2>5, <2>6
<1>4. CASE Takes
  <2>1. IsText(buffer')
    BY <1>2, <1>4, EditFits DEF TextInv, IsText
  <2>2. disk' = disk /\ asked' = Without(asked, Head(toClient).file)
    BY <1>4 DEF Takes, ApplyEdit
  <2>3. IsText(asked')
    BY <2>2 DEF Without, TextInv, IsText
  <2> QED
    BY <2>1, <2>2, <2>3 DEF TextInv, IsText
<1>5. CASE ShowDiagnostics \/ Serve
  <2>1. UNCHANGED <<disk, buffer, asked>>
    BY <1>5, ServeFacts DEF ShowDiagnostics
  <2> QED
    BY <2>1 DEF TextInv, IsText
<1>6. CASE Fmt /\ UNCHANGED <<buffer, asked>>
  <2>1. IsText(disk')
    BY <1>2, <1>6 DEF Fmt, TextInv, IsText
  <2> QED
    BY <1>6, <2>1 DEF TextInv, IsText
<1>7. CASE (\E f \in File : Checkout(f)) /\ UNCHANGED <<buffer, asked>>
  <2>1. PICK f \in DOMAIN drafts : Checkout(f)
    BY <1>7 DEF File
  <2>2. IsText(disk')
    BY <1>1, <2>1 DEF Checkout, Put, Without, TextInv, IsText
  <2> QED
    BY <1>7, <2>2 DEF TextInv, IsText
<1>8. CASE UNCHANGED vars
  BY <1>8 DEF vars, TextInv, IsText
<1> QED
  BY <1>3, <1>4, <1>5, <1>6, <1>7, <1>8, StepKinds

(* What an edit, or `molde fmt`, puts in the place of a text means the same. *)
LEMMA MeaningStep ==
    ASSUME FormatKeepsMeaning, QueuesInv, AskedInv, AnswerInv, TextInv
    PROVE  /\ Fmt => \A f \in DOMAIN disk : SameMeaning(f, disk[f], disk'[f])
           /\ ApplyEdit =>
                 \A f \in DOMAIN buffer : SameMeaning(f, buffer[f], buffer'[f])
<1>1. \A f \in Files : \A text \in Texts[f] :
         Formatted[f][text].ok => SameMeaning(f, text, Formatted[f][text].value)
  BY DEF FormatKeepsMeaning
<1>2. \A f, text : SameMeaning(f, text, text)
  BY DEF SameMeaning
<1>3. ASSUME Fmt, NEW f \in DOMAIN disk PROVE SameMeaning(f, disk[f], disk'[f])
  <2>1. disk'[f] = IF Formatted[f][disk[f]].ok THEN Formatted[f][disk[f]].value ELSE disk[f]
    BY <1>3 DEF Fmt
  <2>2. f \in Files /\ disk[f] \in Texts[f]
    BY DEF TextInv, IsText
  <2> QED
    BY <1>1, <1>2, <2>1, <2>2
<1>4. ASSUME ApplyEdit, NEW f \in DOMAIN buffer
      PROVE  SameMeaning(f, buffer[f], buffer'[f])
  <2>1. Takes
    BY <1>4 DEF Takes, ApplyEdit
  <2>2. PICK g : g = Head(toClient).file
    OBVIOUS
  <2>3. CASE buffer' = buffer
    BY <1>2, <2>3
  <2>4. CASE /\ g \in DOMAIN buffer /\ g \in Files /\ buffer[g] \in Texts[g]
             /\ Formatted[g][buffer[g]].ok
             /\ buffer' = [buffer EXCEPT ![g] = Formatted[g][buffer[g]].value]
    <3>1. CASE f = g
      BY <1>1, <2>4, <3>1
    <3>2. CASE f # g
      BY <1>2, <2>4, <3>2
    <3> QED
      BY <3>1, <3>2
  <2> QED
    BY <2>1, <2>2, <2>3, <2>4, EditFits
<1> QED
  BY <1>3, <1>4

-----------------------------------------------------------------------------
(* Closing *)

Closes(m, f) == m = Message("close", f, <<>>)

(* The closing of what the editor does not have is on its way. *)
CloseInv ==
    \A f : f \notin DOMAIN buffer =>
        /\ f \in DOMAIN docs => \E j \in 1..Len(toServer) : Closes(toServer[j], f)
        /\ \A i \in 1..Len(toServer) :
              toServer[i].do \in {"open", "change"} /\ toServer[i].file = f =>
                 \E j \in (i + 1)..Len(toServer) : Closes(toServer[j], f)

(* What the editor has closed, the server has been told to close last.      *)
LEMMA CloseStep ==
    ASSUME QueuesInv, CloseInv, [Next]_vars PROVE CloseInv'
<1>1. ASSUME NEW m, toServer' = Append(toServer, m), docs' = docs,
             NEW f, f \notin DOMAIN buffer,
             m.do \in {"open", "change"} => m.file # f
      PROVE  /\ f \in DOMAIN docs' => \E j \in 1..Len(toServer') : Closes(toServer'[j], f)
             /\ \A i \in 1..Len(toServer') :
                   toServer'[i].do \in {"open", "change"} /\ toServer'[i].file = f =>
                      \E j \in (i + 1)..Len(toServer') : Closes(toServer'[j], f)
  <2>1. /\ Len(toServer) \in Nat /\ Len(toServer') = Len(toServer) + 1
        /\ \A i \in 1..Len(toServer) : toServer'[i] = toServer[i]
        /\ toServer'[Len(toServer) + 1] = m
    BY <1>1, Sent
  <2>2. ASSUME f \in DOMAIN docs'
        PROVE  \E j \in 1..Len(toServer') : Closes(toServer'[j], f)
    <3>1. PICK j \in 1..Len(toServer) : Closes(toServer[j], f)
      BY <1>1, <2>2 DEF CloseInv
    <3> QED
      BY <2>1, <3>1
  <2>3. ASSUME NEW i \in 1..Len(toServer'),
               toServer'[i].do \in {"open", "change"}, toServer'[i].file = f
        PROVE  \E j \in (i + 1)..Len(toServer') : Closes(toServer'[j], f)
    <3>1. i \in 1..Len(toServer) /\ toServer'[i] = toServer[i]
      BY <1>1, <2>1, <2>3
    <3>2. PICK j \in (i + 1)..Len(toServer) : Closes(toServer[j], f)
      BY <1>1, <2>3, <3>1 DEF CloseInv
    <3>3. j \in 1..Len(toServer) /\ j \in (i + 1)..Len(toServer')
      BY <2>1, <3>1, <3>2
    <3> QED
      BY <2>1, <3>2, <3>3
  <2> QED
    BY <2>2, <2>3
<1>2. CASE Sends /\ UNCHANGED <<toClient, docs>>
  <2>1. PICK f \in DOMAIN drafts :
           \/ Open(f) /\ toServer' = Append(toServer, Message("open", f, disk[f]))
           \/ /\ Type(f)
              /\ \E text : toServer' = Append(toServer, Message("change", f, text))
           \/ Save(f) /\ toServer' = Append(toServer, Message("save", f, <<>>))
           \/ Close(f) /\ toServer' = Append(toServer, Message("close", f, <<>>))
           \/ /\ AskFormatting(f)
              /\ toServer' = Append(toServer, Message("formatting", f, <<>>))
    BY <1>2 DEF Sends, File
  <2>2. CASE Close(f)
    <3>1. PICK m : /\ Closes(m, f) /\ m.file = f /\ m.do = "close"
                   /\ toServer' = Append(toServer, m)
      BY <2>2 DEF Close, Send, Message, Closes
    <3>2. /\ Len(toServer) \in Nat /\ Len(toServer') = Len(toServer) + 1
          /\ toServer'[Len(toServer) + 1] = m
      BY <3>1, Sent
    <3>3. ASSUME NEW g, g \notin DOMAIN buffer'
          PROVE  /\ g \in DOMAIN docs' =>
                       \E j \in 1..Len(toServer') : Closes(toServer'[j], g)
                 /\ \A i \in 1..Len(toServer') :
                       toServer'[i].do \in {"open", "change"} /\ toServer'[i].file = g =>
                          \E j \in (i + 1)..Len(toServer') : Closes(toServer'[j], g)
      <4>1. CASE g = f
        <5>1. Len(toServer) + 1 \in 1..Len(toServer')
          BY <3>2
        <5>2. \A i \in 1..Len(toServer') :
                 i # Len(toServer) + 1 => Len(toServer) + 1 \in (i + 1)..Len(toServer')
          BY <3>2
        <5>3. \A i \in 1..Len(toServer') :
                 toServer'[i].do \in {"open", "change"} => i # Len(toServer) + 1
          BY <3>1, <3>2
        <5> QED
          BY <3>1, <3>2, <4>1, <5>1, <5>2, <5>3
      <4>2. CASE g # f
        <5>1. g \notin DOMAIN buffer
          BY <2>2, <3>3, <4>2 DEF Close, Without
        <5> QED
          BY <1>1, <1>2, <3>1, <5>1
      <4> QED
        BY <4>1, <4>2
    <3> QED
      BY <3>3 DEF CloseInv
  <2>3. CASE Open(f) \/ Type(f)
    <3>1. PICK m : m.file = f /\ toServer' = Append(toServer, m)
      BY <2>3 DEF Open, Type, Send, Message
    <3>2. DOMAIN buffer' = DOMAIN buffer \cup {f}
      BY <2>3 DEF Open, Type, Put
    <3> QED
      BY <1>1, <1>2, <3>1, <3>2 DEF CloseInv
  <2>4. CASE Save(f) \/ AskFormatting(f)
    <3>1. PICK m : m.do \in {"save", "formatting"} /\ toServer' = Append(toServer, m)
      BY <2>4 DEF Save, AskFormatting, Send, Message
    <3>2. buffer' = buffer
      BY <2>4 DEF Save, AskFormatting
    <3> QED
      BY <1>1, <1>2, <3>1, <3>2 DEF CloseInv
  <2> QED
    BY <2>1, <2>2, <2>3, <2>4
<1>3. CASE Takes /\ UNCHANGED docs
  <2>1. CASE UNCHANGED <<buffer, toServer>>
    BY <1>3, <2>1 DEF CloseInv, Closes
  <2>2. CASE ~UNCHANGED <<buffer, toServer>>
    <3>1. PICK f : f = Head(toClient).file
      OBVIOUS
    <3>2. PICK m : m.file = f /\ f \in DOMAIN buffer /\ toServer' = Append(toServer, m)
      BY <1>3, <2>2, <3>1 DEF Takes, Message
    <3>3. DOMAIN buffer' = DOMAIN buffer
      BY <1>3 DEF Takes
    <3> QED
      BY <1>1, <1>3, <3>2, <3>3 DEF CloseInv
  <2> QED
    BY <2>1, <2>2
<1>4. CASE Serve
  <2> DEFINE m == Head(toServer)
  <2>1. /\ toServer # <<>> /\ toServer' = Tail(toServer) /\ buffer' = buffer
        /\ \/ m.do \in {"open", "change"} /\ docs' = Put(docs, m.file, m.text)
           \/ m.do = "close" /\ docs' = Without(docs, m.file)
           \/ m.do \notin {"open", "change", "close"} /\ docs' = docs
    <3>1. m.do \in {"initialized", "open", "change", "save", "close", "formatting"}
      BY <1>4, Received, ServeFacts DEF QueuesInv
    <3> QED
      BY <1>4, <3>1, ServeFacts
  <2>2. /\ Len(toServer) \in Nat /\ Len(toServer') = Len(toServer) - 1
        /\ m = toServer[1] /\ 1 \in 1..Len(toServer)
        /\ \A i \in 1..Len(toServer') : /\ i + 1 \in 2..Len(toServer)
                                        /\ toServer'[i] = toServer[i + 1]
    BY <2>1, Received
  <2>3. ASSUME NEW i \in 2..Len(toServer)
        PROVE  i - 1 \in 1..Len(toServer') /\ toServer'[i - 1] = toServer[i]
    <3>1. i - 1 \in 1..Len(toServer') /\ (i - 1) + 1 = i
      BY <2>2
    <3> QED
      BY <2>2, <3>1
  <2>4. ASSUME NEW f, f \notin DOMAIN buffer, f \in DOMAIN docs'
        PROVE  \E j \in 1..Len(toServer') : Closes(toServer'[j], f)
    <3>1. CASE m.do \in {"open", "change"} /\ m.file = f
      <4>1. PICK j \in 2..Len(toServer) : Closes(toServer[j], f)
        BY <2>2, <2>4, <3>1 DEF CloseInv
      <4> QED
        BY <2>3, <4>1
    <3>2. CASE ~(m.do \in {"open", "change"} /\ m.file = f)
      <4>1. f \in DOMAIN docs /\ ~Closes(m, f)
        BY <2>1, <2>4, <3>2 DEF Put, Without, Closes, Message
      <4>2. PICK j \in 1..Len(toServer) : Closes(toServer[j], f)
        BY <2>4, <4>1 DEF CloseInv
      <4>3. j \in 2..Len(toServer)
        BY <2>2, <4>1, <4>2
      <4> QED
        BY <2>3, <4>2, <4>3
    <3> QED
      BY <3>1, <3>2
  <2>5. ASSUME NEW f, f \notin DOMAIN buffer, NEW i \in 1..Len(toServer'),
               toServer'[i].do \in {"open", "change"}, toServer'[i].file = f
        PROVE  \E j \in (i + 1)..Len(toServer') : Closes(toServer'[j], f)
    <3>1. i + 1 \in 1..Len(toServer) /\ toServer'[i] = toServer[i + 1]
      BY <2>2
    <3>2. PICK j \in ((i + 1) + 1)..Len(toServer) : Closes(toServer[j], f)
      BY <2>5, <3>1 DEF CloseInv
    <3>3. j \in 2..Len(toServer) /\ j - 1 \in (i + 1)..Len(toServer')
      BY <2>2, <3>2
    <3> QED
      BY <2>3, <3>2, <3>3
  <2> QED
    BY <2>1, <2>4, <2>5 DEF CloseInv
<1>5. CASE ShowDiagnostics
  BY <1>5 DEF ShowDiagnostics, CloseInv
<1>6. CASE UNCHANGED <<buffer, asked, toServer, toClient, docs>>
  BY <1>6 DEF CloseInv
<1> QED
  BY <1>2, <1>3, <1>4, <1>5, <1>6, StepKinds

-----------------------------------------------------------------------------
(* The index *)

Rebuilds(m) == m.do \in {"initialized", "save"}

(* The index is one of the disk's, unless others have written there or the   *)
(* server is about to build it again.                                       *)
IndexInv ==
    /\ \A name \in DOMAIN index : index[name].file \in Files
    /\ \/ stale
       \/ index \in Indexes
       \/ \E i \in 1..Len(toServer) : Rebuilds(toServer[i])
    /\ stale \in BOOLEAN

(* The index is of what is on the disk alone. *)
LEMMA SameIndexes == ASSUME disk' = disk PROVE Indexes' = Indexes
BY DEF Indexes, TableFiles, TableName, EntityInfo, Candidates

(* Every write to the disk makes the index stale, or is followed by a        *)
(* message that rebuilds it.                                                *)
LEMMA IndexStep ==
    ASSUME QueuesInv, FilesInv, IndexInv, [Next]_vars PROVE IndexInv'
<1>1. CASE Sends /\ UNCHANGED <<toClient, docs>>
  <2>1. PICK f \in DOMAIN drafts :
           Open(f) \/ Type(f) \/ Save(f) \/ Close(f) \/ AskFormatting(f)
    BY <1>1 DEF Sends, File
  <2>2. UNCHANGED <<index, stale>>
    BY <2>1 DEF Open, Type, Save, Close, AskFormatting
  <2>3. PICK m : toServer' = Append(toServer, m) /\ (Save(f) => m.do = "save")
    <3>1. CASE Save(f)
      BY <3>1 DEF Save, Send, Message
    <3>2. CASE ~Save(f)
      BY <2>1, <3>2 DEF Open, Type, Close, AskFormatting, Send
    <3> QED
      BY <3>1, <3>2
  <2>4. /\ Len(toServer) \in Nat /\ Len(toServer') = Len(toServer) + 1
        /\ \A i \in 1..Len(toServer) : toServer'[i] = toServer[i]
        /\ toServer'[Len(toServer) + 1] = m
    BY <2>3, Sent
  <2>5. (\E i \in 1..Len(toServer) : Rebuilds(toServer[i]))
           => \E i \in 1..Len(toServer') : Rebuilds(toServer'[i])
    BY <2>4
  <2>6. CASE Save(f)
    <3>1. Len(toServer) + 1 \in 1..Len(toServer') /\ Rebuilds(m)
      BY <2>3, <2>4, <2>6 DEF Rebuilds
    <3> QED
      BY <2>2, <2>4, <3>1 DEF IndexInv
  <2>7. CASE ~Save(f)
    <3>1. Indexes' = Indexes
      BY <2>1, <2>7, SameIndexes DEF Open, Type, Close, AskFormatting
    <3> QED
      BY <2>2, <2>5, <3>1 DEF IndexInv
  <2> QED
    BY <2>6, <2>7
<1>2. CASE Takes /\ UNCHANGED docs
  <2>1. UNCHANGED <<disk, index, stale>>
    BY <1>2 DEF Takes, ApplyEdit
  <2>2. (\E i \in 1..Len(toServer) : Rebuilds(toServer[i]))
           => \E i \in 1..Len(toServer') : Rebuilds(toServer'[i])
    <3>1. CASE toServer' = toServer
      BY <3>1
    <3>2. CASE toServer' # toServer
      <4>1. PICK m : toServer' = Append(toServer, m)
        BY <1>2, <3>2 DEF Takes
      <4>2. /\ Len(toServer) \in Nat /\ Len(toServer') = Len(toServer) + 1
            /\ \A i \in 1..Len(toServer) : toServer'[i] = toServer[i]
        BY <4>1, Sent
      <4> QED
        BY <4>2
    <3> QED
      BY <3>1, <3>2
  <2> QED
    BY <2>1, <2>2, SameIndexes DEF IndexInv
<1>3. CASE ShowDiagnostics
  <2>1. UNCHANGED <<disk, index, stale, toServer>>
    BY <1>3 DEF ShowDiagnostics
  <2> QED
    BY <2>1, SameIndexes DEF IndexInv
<1>4. CASE Serve
  <2> DEFINE m == Head(toServer)
  <2>1. toServer # <<>> /\ toServer' = Tail(toServer) /\ disk' = disk
    BY <1>4, ServeFacts
  <2>2. Indexes' = Indexes
    BY <2>1, SameIndexes
  <2>3. CASE Rebuilds(m)
    <3>1. index' \in Indexes /\ stale' = FALSE
      BY <1>4, <2>3, ServeFacts DEF Rebuilds
    <3>2. \A name \in DOMAIN index' : index'[name].file \in Files
      <4> DEFINE names == TableFiles \cup {TableName(f) : f \in TableFiles}
      <4>1. PICK which \in [names -> TableFiles] :
               index' = [name \in names |-> EntityInfo(which[name])]
        BY <3>1 DEF Indexes
      <4>2. TableFiles \subseteq Files
        BY DEF TableFiles, FilesInv
      <4> QED
        BY <4>1, <4>2 DEF EntityInfo
    <3> QED
      BY <2>2, <3>1, <3>2 DEF IndexInv
  <2>4. CASE ~Rebuilds(m)
    <3>1. UNCHANGED <<index, stale>>
      BY <1>4, <2>4, ServeFacts DEF Rebuilds
    <3>2. /\ Len(toServer) \in Nat /\ Len(toServer') = Len(toServer) - 1
          /\ m = toServer[1]
          /\ \A i \in 1..Len(toServer') : toServer'[i] = toServer[i + 1]
      BY <2>1, Received
    <3>3. ASSUME NEW i \in 1..Len(toServer), Rebuilds(toServer[i])
          PROVE  \E j \in 1..Len(toServer') : Rebuilds(toServer'[j])
      <4>1. i - 1 \in 1..Len(toServer') /\ (i - 1) + 1 = i
        BY <2>4, <3>2, <3>3
      <4> QED
        BY <3>2, <3>3, <4>1
    <3> QED
      BY <2>2, <3>1, <3>3 DEF IndexInv
  <2> QED
    BY <2>3, <2>4
<1>5. CASE Fmt \/ \E f \in File : Checkout(f)
  <2>1. index' = index /\ stale' = TRUE
    BY <1>5 DEF Fmt, Checkout
  <2> QED
    BY <2>1 DEF IndexInv
<1>6. CASE UNCHANGED vars
  BY <1>6, SameIndexes DEF vars, IndexInv
<1> QED
  BY <1>1, <1>2, <1>3, <1>4, <1>5, <1>6, StepKinds

(* Of what is on the disk, a name leads to the one file that defines it. *)
LEMMA IndexLeads == ASSUME index \in Indexes PROVE NavigationHolds
<1> SUFFICES ASSUME NEW f \in DOMAIN disk \ {DatabaseFile},
                    Reading[f][disk[f]].ok,
                    \A g \in DOMAIN disk \ {f} : ~Defines(g, TableName(f))
             PROVE  /\ TableName(f) \in DOMAIN index
                    /\ index[TableName(f)].file = f
                    /\ index[TableName(f)].columns =
                          {c.name : c \in ToSet(Reading[f][disk[f]].value.columns)}
  BY Zenon DEF NavigationHolds, TableName
<1> DEFINE names == TableFiles \cup {TableName(g) : g \in TableFiles}
           name == TableName(f)
<1>1. PICK which \in [names -> TableFiles] :
         /\ index = [n \in names |-> EntityInfo(which[n])]
         /\ \A n \in names : which[n] \in Candidates(n)
  BY DEF Indexes
<1>2. f \in TableFiles /\ name \in names
  BY DEF TableFiles
<1>3. \A g \in TableFiles : TableName(g) = name => g = f
  BY DEF Defines, TableFiles, TableName
<1>4. Candidates(name) = {f}
  BY <1>2, <1>3 DEF Candidates
<1>5. which[name] = f
  BY <1>1, <1>2, <1>4
<1>6. name \in DOMAIN index /\ index[name] = EntityInfo(f)
  BY <1>1, <1>2, <1>5
<1> QED
  BY <1>6 DEF EntityInfo

-----------------------------------------------------------------------------
(* The queues' lengths *)

(* An edit makes room among what is asked for before it is told. *)
SizeInv ==
    /\ Len(toServer) + Cardinality(DOMAIN asked) <= MaxSent + Cardinality(Files)
    /\ Len(toClient) <= MaxReplies

(* A set of files has a size. *)
LEMMA AskedIsFinite ==
    ASSUME NEW S \in SUBSET Files
    PROVE  /\ IsFiniteSet(S) /\ Cardinality(S) \in Nat
           /\ Cardinality(S) <= Cardinality(Files)
           /\ Cardinality(Files) \in Nat
BY EditorAssumption, FS_Subset, FS_CardinalityType

(* Telling an edit takes the place of the request it answers.               *)
LEMMA SizeStep ==
    ASSUME QueuesInv, FilesInv, AskedInv, SizeInv, [Next]_vars PROVE SizeInv'
<1>1. FilesInv'
  BY FilesStep
<1>2. /\ Cardinality(DOMAIN asked) \in Nat /\ Cardinality(DOMAIN asked') \in Nat
      /\ Cardinality(DOMAIN asked') <= Cardinality(Files)
      /\ Cardinality(Files) \in Nat /\ IsFiniteSet(DOMAIN asked)
  BY <1>1, AskedIsFinite DEF FilesInv
<1>3. MaxSent \in Nat /\ MaxReplies \in Nat
  BY EditorAssumption
<1>4. CASE Sends /\ UNCHANGED <<toClient, docs>>
  <2>1. PICK m : toServer' = Append(toServer, m) /\ Len(toServer) < MaxSent
    BY <1>4 DEF Sends, Open, Type, Save, Close, AskFormatting, Send
  <2>2. Len(toServer) \in Nat /\ Len(toServer') = Len(toServer) + 1
    BY <2>1, Sent
  <2>3. Len(toServer') <= MaxSent
    BY <1>3, <2>1, <2>2
  <2> QED
    BY <1>2, <1>3, <1>4, <2>2, <2>3 DEF SizeInv
<1>5. CASE Takes /\ UNCHANGED docs
  <2>1. /\ toClient # <<>> /\ toClient' = Tail(toClient) /\ Head(toClient).do = "edit"
        /\ DOMAIN asked' = DOMAIN asked \ {Head(toClient).file}
    BY <1>5 DEF Takes, ApplyEdit, Without
  <2>2. Head(toClient).file \in DOMAIN asked
    BY <2>1, Taken DEF AskedInv
  <2>3. Cardinality(DOMAIN asked') = Cardinality(DOMAIN asked) - 1
    BY <1>2, <2>1, <2>2, FS_RemoveElement
  <2>4. Len(toServer) \in Nat /\ Len(toServer') <= Len(toServer) + 1 /\ Len(toServer') \in Nat
    <3>1. CASE toServer' = toServer
      BY <3>1 DEF QueuesInv
    <3>2. CASE toServer' # toServer
      <4>1. PICK m : toServer' = Append(toServer, m)
        BY <1>5, <3>2 DEF Takes
      <4> QED
        BY <4>1, Sent
    <3> QED
      BY <3>1, <3>2
  <2>5. Len(toClient) \in Nat /\ Len(toClient') = Len(toClient) - 1
    BY <2>1, Taken
  <2> QED
    BY <1>2, <1>3, <2>3, <2>4, <2>5 DEF SizeInv
<1>6. CASE ShowDiagnostics
  <2>1. toClient # <<>> /\ toClient' = Tail(toClient) /\ UNCHANGED <<toServer, asked>>
    BY <1>6 DEF ShowDiagnostics
  <2>2. Len(toClient) \in Nat /\ Len(toClient') = Len(toClient) - 1
    BY <2>1, Taken
  <2> QED
    BY <1>3, <2>1, <2>2 DEF SizeInv
<1>7. CASE Serve
  <2>1. /\ toServer # <<>> /\ toServer' = Tail(toServer) /\ asked' = asked
        /\ Len(toClient) < MaxReplies
    BY <1>7, ServeFacts
  <2>2. Len(toServer) \in Nat /\ Len(toServer') = Len(toServer) - 1
    BY <2>1, Received
  <2>3. Len(toClient') <= MaxReplies
    <3>1. CASE toClient' = toClient
      BY <3>1 DEF SizeInv
    <3>2. CASE toClient' # toClient
      <4>1. PICK r : toClient' = Append(toClient, r)
        BY <1>7, <3>2, ServeFacts
      <4>2. Len(toClient) \in Nat /\ Len(toClient') = Len(toClient) + 1
        BY <4>1, Replied
      <4> QED
        BY <1>3, <2>1, <4>2
    <3> QED
      BY <3>1, <3>2
  <2> QED
    BY <1>2, <1>3, <2>1, <2>2, <2>3 DEF SizeInv
<1>8. CASE UNCHANGED <<buffer, asked, toServer, toClient, docs>>
  BY <1>8 DEF SizeInv
<1> QED
  BY <1>4, <1>5, <1>6, <1>7, <1>8, StepKinds

-----------------------------------------------------------------------------
(* All of it *)

IInv ==
    /\ QueuesInv /\ FilesInv /\ FollowInv /\ AskedInv /\ AnswerInv
    /\ CloseInv /\ IndexInv /\ SizeInv

(* All of it holds at first. *)
LEMMA InitIInv == ASSUME Init PROVE IInv
<1>1. PICK m : m = Message("initialized", "", <<>>)
  OBVIOUS
<1>2. m.do = "initialized"
  BY <1>1 DEF Message
<1>3. /\ toServer = <<m>> /\ toClient = <<>> /\ buffer = <<>> /\ asked = <<>>
      /\ docs = <<>> /\ index = <<>> /\ shown = <<>> /\ stale = FALSE
      /\ drafts \in Corpora /\ DOMAIN disk = DOMAIN drafts
  BY <1>1 DEF Init
<1>4. /\ toServer \in Seq({m}) /\ Len(toServer) = 1 /\ toServer[1] = m
      /\ \A i \in 1..Len(toServer) : i = 1
  BY <1>3
<1>5. toClient \in Seq({m}) /\ Len(toClient) = 0 /\ 1..Len(toClient) = {}
  BY <1>3
<1>6. DOMAIN <<>> = {}
  OBVIOUS
<1>7. QueuesInv
  BY <1>2, <1>4, <1>5 DEF QueuesInv
<1>8. FilesInv
  BY <1>3, <1>6, CorpusFiles DEF FilesInv
<1>9. AskedInv /\ AnswerInv
  BY <1>2, <1>4, <1>5 DEF AskedInv, AnswerInv
<1>10. CloseInv
  BY <1>2, <1>3, <1>4, <1>6 DEF CloseInv
<1>11. IndexInv
  <2>1. Rebuilds(toServer[1]) /\ 1 \in 1..Len(toServer)
    BY <1>2, <1>4 DEF Rebuilds
  <2> QED
    BY <1>3, <1>6, <2>1 DEF IndexInv
<1>12. SizeInv
  <2>1. Cardinality(DOMAIN asked) = 0
    BY <1>3, <1>6, FS_EmptySet
  <2>2. Cardinality(Files) \in Nat
    BY AskedIsFinite
  <2> QED
    BY <1>4, <1>5, <2>1, <2>2, EditorAssumption DEF SizeInv
<1> QED
  BY <1>7, <1>8, <1>9, <1>10, <1>11, <1>12, FollowInit DEF IInv

(* Every step keeps all of it. *)
LEMMA NextIInv == IInv /\ [Next]_vars => IInv'
BY QueuesStep, FilesStep, FollowStep, AskedStep, AnswerStep, CloseStep, IndexStep,
   SizeStep DEF IInv

(* TypeOK: the queues stay bounded, edits being told while requests for      *)
(* formatting are out, and the server never keeps a document for good that   *)
(* the editor has closed.                                                   *)
THEOREM Typed == Spec => []TypeOK
<1>1. IInv => TypeOK
  <2> SUFFICES ASSUME IInv PROVE TypeOK
    OBVIOUS
  <2>1. Len(toServer) <= MaxSent + Cardinality(Files)
    <3>1. Cardinality(DOMAIN asked) \in Nat /\ Cardinality(Files) \in Nat
      BY AskedIsFinite DEF IInv, FilesInv
    <3>2. Len(toServer) \in Nat
      BY DEF IInv, QueuesInv
    <3> QED
      BY <3>1, <3>2, EditorAssumption DEF IInv, SizeInv
  <2>2. ASSUME NEW f \in DOMAIN docs \ DOMAIN buffer
        PROVE  Message("close", f, <<>>) \in ToSet(toServer)
    <3>1. PICK j \in 1..Len(toServer) : toServer[j] = Message("close", f, <<>>)
      BY DEF IInv, CloseInv, Closes
    <3>2. j \in DOMAIN toServer
      BY DEF IInv, QueuesInv
    <3> QED
      BY <3>1, <3>2 DEF ToSet
  <2> QED
    BY <2>1, <2>2 DEF TypeOK, IInv, FilesInv, IndexInv, SizeInv
<1> QED
  BY <1>1, InitIInv, NextIInv, PTL DEF Spec

(* NavigationHolds: whatever files are called, when the server has read what *)
(* it was sent and others have let the disk alone since, the name of a table *)
(* that one file defines leads there.                                       *)
THEOREM NavigationLeads == Spec => []NavigationHolds
<1>1. IInv => NavigationHolds
  <2> SUFFICES ASSUME IInv, toServer = <<>>, ~stale PROVE NavigationHolds
    BY DEF NavigationHolds
  <2>1. \A i \in 1..Len(toServer) : FALSE
    OBVIOUS
  <2> QED
    BY <2>1, IndexLeads DEF IInv, IndexInv
<1> QED
  BY <1>1, InitIInv, NextIInv, PTL DEF Spec

(* MeaningKept: if the formatter keeps what each text means (on the corpora   *)
(* it does: `molde fmt` may meet any text there), then so does formatting in *)
(* the editor, however late the edit comes and whatever was typed, closed    *)
(* and opened meanwhile: an edit only replaces the text it was made for.     *)
THEOREM FormattingKeepsMeaning ==
    ASSUME FormatKeepsMeaning PROVE Spec => MeaningKept
<1>1. Init => TextInv
  <2> SUFFICES ASSUME Init PROVE TextInv
    OBVIOUS
  <2>1. /\ buffer = <<>> /\ asked = <<>> /\ drafts \in Corpora
        /\ DOMAIN disk = DOMAIN drafts /\ \A f \in DOMAIN drafts : disk[f] \in drafts[f]
    BY DEF Init
  <2>2. DOMAIN <<>> = {}
    OBVIOUS
  <2> QED
    BY <2>1, <2>2, DraftsAreTexts DEF TextInv, IsText
<1>2. IInv /\ TextInv /\ [Next]_vars => TextInv'
  BY TextStep DEF IInv
<1> DEFINE Kept ==
       /\ Fmt => \A f \in DOMAIN disk : SameMeaning(f, disk[f], disk'[f])
       /\ ApplyEdit => \A f \in DOMAIN buffer : SameMeaning(f, buffer[f], buffer'[f])
<1>3. IInv /\ TextInv => Kept
  BY MeaningStep DEF IInv
<1> HIDE DEF Kept
<1>4. [][Kept]_vars => MeaningKept
  BY PTL DEF MeaningKept, Kept
<1> QED
  BY <1>1, <1>2, <1>3, <1>4, InitIInv, NextIInv, PTL DEF Spec
=============================================================================
