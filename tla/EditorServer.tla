---------------------------- MODULE EditorServer ----------------------------
(***************************************************************************)
(* `penv lsp` (commands/lsp.rs): the server an editor runs for             *)
(* `.env.schema` files, one message after the other from a pipe.  It keeps *)
(* a copy of each open document and publishes what `check` would say of it,*)
(* which also depends on files it only reads: the files the schema imports *)
(* and the rotation clocks in `.penv/config.toml`.                         *)
(*                                                                         *)
(* The editor is external: it speaks the protocol the server's             *)
(* capabilities ask for, and writes its messages ahead of the answers.     *)
(***************************************************************************)
EXTENDS Naturals, Sequences, SequencesExt, FiniteSets

CONSTANTS
  Uris,      \* the documents of the editor
  Schemas,   \* those named .env.schema
  Texts,     \* what a document may hold
  Disks,     \* states of the files a document depends on
  Findings,  \* <<text, disk>> to the diagnostics
  Clean,     \* no diagnostics
  Closed,    \* no text
  MaxSent    \* bound on the messages the editor writes

VARIABLES
  pipe,         \* messages written and not read
  documents,    \* the server's copies
  initialized,
  shutdown,
  ended,        \* the code the server ended with, or Serving
  disk,
  buffer,       \* what the editor holds
  since,        \* the disks there were since the editor last spoke of a document
  shown,        \* the diagnostics the editor last got
  told,         \* the last answer: the text it is about and the text it was asked of
  sent

editorVars == <<buffer, since, sent>>
vars == <<pipe, documents, initialized, shutdown, ended, disk, buffer, since, shown, told, sent>>

Message(is, uri, texts, held) == [is |-> is, uri |-> uri, texts |-> texts, held |-> held]
NoDocument == CHOOSE u \in Uris : TRUE

Serving == 2

-----------------------------------------------------------------------------
Init ==
  /\ pipe = <<>>
  /\ documents = [u \in Uris |-> Closed]
  /\ initialized = FALSE
  /\ shutdown = FALSE
  /\ ended = Serving
  /\ disk \in Disks
  /\ buffer = [u \in Uris |-> Closed]
  /\ since = [u \in Uris |-> {}]
  /\ shown = [u \in Uris |-> Clean]
  /\ told = <<>>
  /\ sent = 0

-----------------------------------------------------------------------------
(* The editor.                                                             *)

Send(message) ==
  /\ sent < MaxSent
  /\ sent' = sent + 1
  /\ pipe' = Append(pipe, message)
  /\ UNCHANGED <<documents, initialized, shutdown, ended, disk, shown, told>>

\* initialize, shutdown, exit, a method the server does not know, a message that
\* is no JSON or larger than the server reads.
Say ==
  /\ \E is \in {"initialize", "shutdown", "exit", "unknown", "junk"} :
       Send(Message(is, NoDocument, <<>>, Closed))
  /\ UNCHANGED <<buffer, since>>

\* Documents are spoken of once the editor asked to initialize.
Greeted == initialized \/ \E i \in DOMAIN pipe : pipe[i].is = "initialize"

Open(u, t) ==
  /\ Greeted /\ buffer[u] = Closed
  /\ Send(Message("open", u, <<t>>, t))
  /\ buffer' = [buffer EXCEPT ![u] = t]
  /\ since' = [since EXCEPT ![u] = {disk}]

\* Whole documents, the last of them what the editor holds.
Change(u, texts) ==
  /\ buffer[u] # Closed
  /\ Send(Message("change", u, texts, Last(texts)))
  /\ buffer' = [buffer EXCEPT ![u] = Last(texts)]
  /\ since' = [since EXCEPT ![u] = {disk}]

Save(u) ==
  /\ buffer[u] # Closed
  /\ Send(Message("save", u, <<>>, buffer[u]))
  /\ since' = [since EXCEPT ![u] = {disk}]
  /\ UNCHANGED buffer

Close(u) ==
  /\ buffer[u] # Closed
  /\ Send(Message("close", u, <<>>, Closed))
  /\ buffer' = [buffer EXCEPT ![u] = Closed]
  /\ since' = [since EXCEPT ![u] = {}]

\* Completion, hover, definition or symbols, of the text the editor holds.
Ask(u) ==
  /\ Greeted
  /\ Send(Message("ask", u, <<>>, buffer[u]))
  /\ UNCHANGED <<buffer, since>>

\* Another program writes an import or a clock.
DiskChange ==
  /\ \E d \in Disks \ {disk} :
       /\ disk' = d
       /\ since' = [u \in Uris |-> IF since[u] = {} THEN {} ELSE since[u] \cup {d}]
  /\ UNCHANGED <<pipe, documents, initialized, shutdown, ended, buffer, shown, told, sent>>

-----------------------------------------------------------------------------
(* The server.                                                             *)

Publish(u, text) == shown' = [shown EXCEPT ![u] = Findings[<<text, disk>>]]

\* The text of a change: the last one that is a whole document.
\* A mutant: the first.
ChangedFirst(texts) == Head(texts)
Changed(texts) == Last(texts)

\* One message read; a request is answered, a notification is not.
Read(is) ==
  /\ ended = Serving
  /\ pipe # <<>> /\ Head(pipe).is \in is
  /\ pipe' = Tail(pipe)
  /\ UNCHANGED editorVars
  /\ UNCHANGED disk

Requests == {"shutdown", "ask", "unknown"}
Notifications == {"open", "change", "save", "close"}

\* A frame that is too large is read past, and what is no JSON is answered.
Skip ==
  /\ Read({"junk"})
  /\ UNCHANGED <<documents, initialized, shutdown, ended, shown, told>>

Initialize ==
  /\ Read({"initialize"})
  /\ initialized' = TRUE
  /\ UNCHANGED <<documents, shutdown, ended, shown, told>>

\* Before initialize and after shutdown, and of a method it does not know.
Refuse ==
  /\ Read(Requests)
  /\ Head(pipe).is = "unknown" \/ ~ initialized \/ shutdown
  /\ UNCHANGED <<documents, initialized, shutdown, ended, shown, told>>

Shutdown ==
  /\ Read({"shutdown"})
  /\ initialized /\ ~ shutdown
  /\ shutdown' = TRUE
  /\ UNCHANGED <<documents, initialized, ended, shown, told>>

Answer ==
  /\ Read({"ask"})
  /\ initialized /\ ~ shutdown
  /\ told' = <<documents[Head(pipe).uri], Head(pipe).held, Head(pipe).uri>>
  /\ UNCHANGED <<documents, initialized, shutdown, ended, shown>>

Ignore ==
  /\ Read(Notifications)
  /\ \/ ~ initialized \/ shutdown
     \/ Head(pipe).is = "open" /\ Head(pipe).uri \notin Schemas
     \/ Head(pipe).is # "open" /\ documents[Head(pipe).uri] = Closed
  /\ UNCHANGED <<documents, initialized, shutdown, ended, shown, told>>

DidOpen ==
  /\ Read({"open"})
  /\ initialized /\ ~ shutdown
  /\ Head(pipe).uri \in Schemas
  /\ documents' = [documents EXCEPT ![Head(pipe).uri] = Head(Head(pipe).texts)]
  /\ Publish(Head(pipe).uri, Head(Head(pipe).texts))
  /\ UNCHANGED <<initialized, shutdown, ended, told>>

DidChange ==
  LET uri == Head(pipe).uri
      text == Changed(Head(pipe).texts)
  IN /\ Read({"change"})
     /\ initialized /\ ~ shutdown
     /\ documents[uri] # Closed
     /\ documents' = [documents EXCEPT ![uri] = text]
     /\ Publish(uri, text)
     /\ UNCHANGED <<initialized, shutdown, ended, told>>

\* The clocks may have moved: the document is looked at again.
DidSave ==
  /\ Read({"save"})
  /\ initialized /\ ~ shutdown
  /\ documents[Head(pipe).uri] # Closed
  /\ Publish(Head(pipe).uri, documents[Head(pipe).uri])
  /\ UNCHANGED <<documents, initialized, shutdown, ended, told>>

\* A closed document shows nothing.
DidClose ==
  /\ Read({"close"})
  /\ initialized /\ ~ shutdown
  /\ documents[Head(pipe).uri] # Closed
  /\ documents' = [documents EXCEPT ![Head(pipe).uri] = Closed]
  /\ shown' = [shown EXCEPT ![Head(pipe).uri] = Clean]
  /\ UNCHANGED <<initialized, shutdown, ended, told>>

Exit ==
  /\ Read({"exit"})
  /\ ended' = IF shutdown THEN 0 ELSE 1
  /\ UNCHANGED <<documents, initialized, shutdown, shown, told>>

\* The editor is gone: the input ends.
Hangup ==
  /\ ended = Serving /\ pipe = <<>>
  /\ ended' = 1
  /\ UNCHANGED <<pipe, documents, initialized, shutdown, disk, buffer, since, shown, told, sent>>

Server ==
  \/ Skip \/ Initialize \/ Refuse \/ Shutdown \/ Answer \/ Ignore
  \/ DidOpen \/ DidChange \/ DidSave \/ DidClose \/ Exit \/ Hangup

Editor ==
  /\ ended = Serving
  /\ \/ Say \/ DiskChange
     \/ \E u \in Uris :
          \/ Save(u) \/ Close(u) \/ Ask(u)
          \/ \E t \in Texts : Open(u, t)
          \/ \E s, t \in Texts : Change(u, <<s, t>>)

Next == Server \/ Editor

Spec == Init /\ [][Next]_vars

-----------------------------------------------------------------------------
\* The text whose diagnostics a document shows.
Diagnosed(u) ==
  IF u \in Schemas /\ buffer[u] # Closed THEN {Findings[<<buffer[u], d>>] : d \in since[u]} ELSE {Clean}

\* Whatever was written ahead of the server, and whatever else was in the pipe:
\* once it has read all of it, what the editor shows for each document is what
\* the text it holds has, on a disk no older than the last time the editor spoke
\* of it; a document it closed, or that is no schema, shows nothing; and an
\* answer was about the text the editor held when it asked.
ShownIsCurrent ==
  /\ (ended = Serving /\ initialized /\ ~ shutdown /\ pipe = <<>>) =>
       \A u \in Uris : shown[u] \in Diagnosed(u)
  /\ (told # <<>> /\ told[3] \in Schemas) => told[1] = told[2]

-----------------------------------------------------------------------------
(* The inductive invariant behind it.                                      *)

\* What the constants are taken to be; the runs assume it.
EditorAssumption == Uris # {} /\ Schemas \subseteq Uris /\ Closed \notin Texts

Holds == Texts \cup {Closed}
Kinds == Requests \cup Notifications \cup {"initialize", "exit", "junk"}
Messages == [is : Kinds, uri : Uris, texts : Seq(Texts), held : Holds]

TypeOK ==
  /\ pipe \in Seq(Messages)
  /\ documents \in [Uris -> Holds] /\ buffer \in [Uris -> Holds]
  /\ since \in [Uris -> SUBSET Disks] /\ disk \in Disks
  /\ DOMAIN shown = Uris

\* The editor speaks of no document before it asked to initialize.
GreetedFirst ==
  /\ \A i \in 1 .. Len(pipe) : pipe[i].is \in Notifications =>
       initialized \/ \E j \in 1 .. (i - 1) : pipe[j].is = "initialize"
  /\ \A u \in Uris : buffer[u] # Closed => Greeted

\* A message about u takes the text held of it from `a` to `b`.
About(m, u) == m.is \in Notifications \cup {"ask"} /\ m.uri = u
Leads(a, m, b, u) ==
  IF ~About(m, u) THEN b = a
  ELSE /\ b = m.held
       /\ m.is = "open" => a = Closed /\ b # Closed /\ Head(m.texts) = b
       /\ m.is = "change" => a # Closed /\ b # Closed /\ Changed(m.texts) = b
       /\ m.is = "save" => a # Closed /\ b = a
       /\ m.is = "close" => a # Closed /\ b = Closed
       /\ m.is = "ask" => b = a

\* The texts along the pipe, from the server's copy to what the editor holds.
Along(texts, u) ==
  /\ texts[1] = documents[u] /\ texts[Len(pipe) + 1] = buffer[u]
  /\ \A i \in 1 .. Len(pipe) : Leads(texts[i], pipe[i], texts[i + 1], u)
Carried ==
  ~shutdown => \A u \in Schemas : \E texts \in [1 .. (Len(pipe) + 1) -> Holds] : Along(texts, u)

\* The editor spoke of an open document on a disk no newer than this one, and what is
\* shown is of such a disk, unless more of it is in the pipe.
Spoken(u) == \E i \in 1 .. Len(pipe) : pipe[i].is \in Notifications /\ pipe[i].uri = u
Current ==
  \A u \in Uris :
    /\ buffer[u] # Closed => disk \in since[u]
    /\ u \notin Schemas => documents[u] = Closed /\ shown[u] = Clean
    /\ ~shutdown /\ ~Spoken(u) => shown[u] \in Diagnosed(u)

EditorInv ==
  /\ TypeOK /\ GreetedFirst /\ Carried /\ Current
  /\ (told # <<>> /\ told[3] \in Schemas) => told[1] = told[2]
=============================================================================
