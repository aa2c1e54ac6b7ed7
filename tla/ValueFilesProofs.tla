-------------------------- MODULE ValueFilesProofs --------------------------
(***************************************************************************)
(* ImplementsStore, EncryptionHolds and RunsAgree for any number of        *)
(* commands, keys and faults.                                              *)
(***************************************************************************)
EXTENDS ValueFiles, TLAPS

-----------------------------------------------------------------------------
(* Types.                                                                  *)

LEMMA Texts ==
  /\ \A v \in Sources, u \in KeyIds \cup {Plain} : [value |-> v, under |-> u] \in Text
  /\ \A t \in Text, u \in KeyIds \cup {Plain} : [t EXCEPT !.under = u] \in Text
  /\ \A t \in Text : t.value \in Sources /\ t.under \in KeyIds \cup {Plain} /\ t # Absent
  /\ Nothing \in Content
  BY EmptyAssumption DEF Text, Content, Nothing

LEMMA ContentTyped ==
  ASSUME NEW base \in Content
  PROVE  /\ \A key \in KeyIds : EncryptAll(base, key) \in Content
         /\ DecryptAll(base) \in Content
         /\ \A n \in Names, t \in Text \cup {Absent} : [base EXCEPT ![n] = t] \in Content
  <1>1. ASSUME NEW key \in KeyIds PROVE EncryptAll(base, key) \in Content
    <2>1. ASSUME NEW n \in Names, base[n] # Absent PROVE [base[n] EXCEPT !.under = key] \in Text
      BY <2>1, Texts DEF Content
    <2> QED
      BY <2>1 DEF EncryptAll, Content
  <1>2. DecryptAll(base) \in Content
    <2>1. ASSUME NEW n \in Encrypted(base) PROVE [base[n] EXCEPT !.under = Plain] \in Text
      BY Texts DEF Content, Encrypted
    <2> QED
      BY <2>1 DEF DecryptAll, Content
  <1>3. \A n \in Names, t \in Text \cup {Absent} : [base EXCEPT ![n] = t] \in Content
    BY DEF Content
  <1> QED
    BY <1>1, <1>2, <1>3

\* What a command does, by what it was asked.
LEMMA JobTyped ==
  ASSUME TypeOK, NEW p \in Processes
  PROVE  /\ Converts(p) => job[p].cmd \in {"encrypt", "decrypt"}
         /\ ~Converts(p) => job[p].name \in Names /\ job[p].cmd \in {"set", "unset", "run"}
         /\ Target(p) \in Files
         /\ Cascade[proc[p].at] \in Files
  <1>1. proc[p].at \in 1..2
    BY DEF TypeOK, Process
  <1>2. Cascade[1] \in Files /\ Cascade[2] \in Files
    BY DEF Cascade, Files
  <1>3. Cascade[proc[p].at] \in Files
    BY <1>1, <1>2
  <1>4. job[p] \in Jobs
    BY DEF TypeOK
  <1> QED
    BY <1>3, <1>4, ValueAssumption DEF Jobs, Converts, Target, Files

Keying == {"ask", "make", "file", "makeFile"}

\* It is where the key is needed, or away getting it.
Needs(p, label) == proc[p].pc = label \/ (proc[p].pc \in Keying /\ proc[p].then = label)

\* The steps a command is on its way through, by its job.
Steps(p) ==
  LET pc == proc[p].pc IN
  /\ Needs(p, "begin") \/ pc = "convert" => Converts(p)
  /\ pc = "layer" => Converts(p) \/ job[p].cmd = "run"
  /\ Needs(p, "open") => job[p].cmd = "run"
  /\ pc = "read" => ~Converts(p)
  /\ pc = "store" \/ Needs(p, "seal") => job[p].cmd \in {"set", "run"}
  /\ pc \in {"load", "truncate", "save"} => Reconfigures(p)
  /\ Converts(p) /\ pc \in {"layer", "convert", "write"} => proc[p].key # NoKey
  /\ p \in wrote => pc \in {"load", "truncate", "save", "done", "failed"}

TypeInv == TypeOK /\ \A p \in Processes : Steps(p)

\* What a command is after a step of its own, field by field, the others as they were.
Turn(p, pc, then, at, base, text, key, cfg, value) ==
  /\ proc' \in [Processes -> Process]
  /\ \A q \in Processes \ {p} : proc'[q] = proc[q]
  /\ proc'[p].pc = pc /\ proc'[p].then = then /\ proc'[p].at = at
  /\ proc'[p].base = base /\ proc'[p].text = text /\ proc'[p].key = key
  /\ proc'[p].cfg = cfg /\ proc'[p].value = value

LEMMA TurnIs ==
  ASSUME TypeOK, NEW p \in Processes, NEW x \in Process, proc' = [proc EXCEPT ![p] = x]
  PROVE  Turn(p, x.pc, x.then, x.at, x.base, x.text, x.key, x.cfg, x.value)
  BY DEF Turn, TypeOK

Moves(p, label) ==
  Turn(p, label, proc[p].then, proc[p].at, proc[p].base, proc[p].text,
       proc[p].key, proc[p].cfg, proc[p].value)

LEMMA GotoIs ==
  ASSUME TypeOK, NEW p \in Processes, NEW label \in Labels, Goto(p, label)
  PROVE  Moves(p, label)
  <1> DEFINE x == [proc[p] EXCEPT !.pc = label]
  <1>1. proc[p] \in Process
    BY DEF TypeOK
  <1>2. /\ x \in Process /\ x.pc = label /\ x.then = proc[p].then /\ x.at = proc[p].at
        /\ x.base = proc[p].base /\ x.text = proc[p].text /\ x.key = proc[p].key
        /\ x.cfg = proc[p].cfg /\ x.value = proc[p].value
    BY <1>1 DEF Process
  <1>3. proc' = [proc EXCEPT ![p] = x]
    BY DEF Goto, TypeOK
  <1> HIDE DEF x
  <1> QED
    BY <1>2, <1>3, TurnIs DEF Moves

LEMMA WithKeyIs ==
  ASSUME TypeOK, NEW p \in Processes, NEW label \in {"begin", "seal"}, WithKey(p, label)
  PROVE  \/ proc[p].key # NoKey /\ Moves(p, label)
         \/ proc[p].key = NoKey
            /\ Turn(p, "ask", label, proc[p].at, proc[p].base, proc[p].text,
                    proc[p].key, proc[p].cfg, proc[p].value)
  <1>1. proc[p] \in Process
    BY DEF TypeOK
  <1>2. CASE proc[p].key # NoKey
    BY <1>2, GotoIs DEF WithKey, Labels
  <1>3. CASE proc[p].key = NoKey
    <2> DEFINE x == [proc[p] EXCEPT !.pc = "ask", !.then = label]
    <2>1. /\ x \in Process /\ x.pc = "ask" /\ x.then = label /\ x.at = proc[p].at
          /\ x.base = proc[p].base /\ x.text = proc[p].text /\ x.key = proc[p].key
          /\ x.cfg = proc[p].cfg /\ x.value = proc[p].value
      BY <1>1 DEF Process, Labels
    <2>2. proc' = [proc EXCEPT ![p] = x]
      BY <1>3 DEF WithKey, TypeOK
    <2> HIDE DEF x
    <2> QED
      BY <1>3, <2>1, <2>2, TurnIs
  <1> QED
    BY <1>2, <1>3

LEMMA FoundIs ==
  ASSUME TypeOK, NEW p \in Processes, NEW key \in KeyIds \cup {NoKey}, Found(p, key)
  PROVE  Turn(p, proc[p].then, proc[p].then, proc[p].at, proc[p].base, proc[p].text,
              key, proc[p].cfg, proc[p].value)
  <1> DEFINE x == [proc[p] EXCEPT !.key = key, !.pc = proc[p].then]
  <1>1. proc[p] \in Process
    BY DEF TypeOK
  <1>2. /\ x \in Process /\ x.pc = proc[p].then /\ x.then = proc[p].then /\ x.at = proc[p].at
        /\ x.base = proc[p].base /\ x.text = proc[p].text /\ x.key = key
        /\ x.cfg = proc[p].cfg /\ x.value = proc[p].value
    BY <1>1 DEF Process, Labels
  <1>3. proc' = [proc EXCEPT ![p] = x]
    BY DEF Found, TypeOK
  <1> HIDE DEF x
  <1> QED
    BY <1>2, <1>3, TurnIs

LEMMA PutTextIs ==
  ASSUME TypeOK, NEW p \in Processes, NEW under \in KeyIds \cup {Plain}, PutText(p, under),
         job[p].name \in Names
  PROVE  Turn(p, "write", proc[p].then, proc[p].at, proc[p].base,
              [proc[p].text EXCEPT ![job[p].name] = [value |-> p, under |-> under]],
              proc[p].key, proc[p].cfg, proc[p].value)
  <1> DEFINE text == [proc[p].text EXCEPT ![job[p].name] = [value |-> p, under |-> under]]
             x == [proc[p] EXCEPT !.text = text, !.pc = "write"]
  <1>1. proc[p] \in Process /\ proc[p].text \in Content
    BY DEF TypeOK, Process
  <1>2. [value |-> p, under |-> under] \in Text
    BY Texts DEF Sources
  <1>3. text \in Content
    BY <1>1, <1>2, ContentTyped
  <1>4. proc' = [proc EXCEPT ![p] = x]
    BY DEF PutText, TypeOK
  <1> HIDE DEF text
  <1>5. /\ x \in Process /\ x.pc = "write" /\ x.then = proc[p].then /\ x.at = proc[p].at
        /\ x.base = proc[p].base /\ x.text = text /\ x.key = proc[p].key
        /\ x.cfg = proc[p].cfg /\ x.value = proc[p].value
    BY <1>1, <1>3 DEF Process, Labels
  <1> HIDE DEF x
  <1>6. Turn(p, "write", proc[p].then, proc[p].at, proc[p].base, text,
             proc[p].key, proc[p].cfg, proc[p].value)
    BY <1>4, <1>5, TurnIs
  <1> QED
    BY <1>6 DEF text

LEMMA ReadLayerIs ==
  ASSUME TypeOK, NEW p \in Processes, ReadLayer(p)
  PROVE  \E then \in {"begin", "open", "seal"}, pc \in {"ask", "convert", "open"} :
           /\ Turn(p, pc, then, proc[p].at, files[Cascade[proc[p].at]], proc[p].text,
                   proc[p].key, proc[p].cfg, proc[p].value)
           /\ pc = "ask" => then = "open"
           /\ pc = "convert" <=> Converts(p)
  <1> DEFINE content == files[Cascade[proc[p].at]]
             ready == IF Converts(p) THEN "convert" ELSE "open"
             asks == ready = "open" /\ Encrypted(content) # {} /\ proc[p].key = NoKey
             x(then, pc) == [proc[p] EXCEPT !.base = content, !.then = then, !.pc = pc]
  <1>1. content \in Content /\ proc[p] \in Process /\ proc[p].then \in {"begin", "open", "seal"}
    BY JobTyped DEF TypeOK, Process
  <1>2. proc' = [proc EXCEPT ![p] = x(IF asks THEN "open" ELSE proc[p].then, IF asks THEN "ask" ELSE ready)]
    BY DEF ReadLayer, TypeOK
  <1>3. ASSUME NEW then \in {"begin", "open", "seal"}, NEW pc \in {"ask", "convert", "open"},
               proc' = [proc EXCEPT ![p] = x(then, pc)]
        PROVE  Turn(p, pc, then, proc[p].at, content, proc[p].text, proc[p].key, proc[p].cfg, proc[p].value)
    <2> DEFINE y == x(then, pc)
    <2>1. /\ y \in Process /\ y.pc = pc /\ y.then = then /\ y.at = proc[p].at
          /\ y.base = content /\ y.text = proc[p].text /\ y.key = proc[p].key
          /\ y.cfg = proc[p].cfg /\ y.value = proc[p].value
      <3> HIDE DEF content
      <3> QED
        BY <1>1 DEF Process, Labels
    <2>2. proc' = [proc EXCEPT ![p] = y]
      BY <1>3
    <2> HIDE DEF y
    <2> QED
      BY <2>1, <2>2, TurnIs
  <1>4. CASE asks
    <2>1. proc' = [proc EXCEPT ![p] = x("open", "ask")] /\ ~Converts(p)
      BY <1>2, <1>4
    <2> HIDE DEF x, content, asks, ready
    <2> QED
      BY <1>3, <2>1 DEF content
  <1>5. CASE ~asks /\ Converts(p)
    <2>1. proc' = [proc EXCEPT ![p] = x(proc[p].then, "convert")]
      BY <1>2, <1>5
    <2> HIDE DEF x, content, asks, ready
    <2> QED
      BY <1>1, <1>3, <1>5, <2>1 DEF content
  <1>6. CASE ~asks /\ ~Converts(p)
    <2>1. proc' = [proc EXCEPT ![p] = x(proc[p].then, "open")]
      BY <1>2, <1>6
    <2> HIDE DEF x, content, asks, ready
    <2> QED
      BY <1>1, <1>3, <1>6, <2>1 DEF content
  <1> QED
    BY <1>4, <1>5, <1>6

\* The value a run has once a layer is opened.
Opened(p) ==
  IF proc[p].base[job[p].name] # Absent THEN proc[p].base[job[p].name].value ELSE proc[p].value

LEMMA OpenLayerIs ==
  ASSUME TypeOK, NEW p \in Processes, OpenLayer(p), job[p].cmd = "run"
  PROVE  /\ Opened(p) \in Sources \cup {Absent}
         /\ \/ Moves(p, "failed")
            \/ /\ proc[p].at = 1
               /\ Turn(p, "layer", proc[p].then, 2, proc[p].base, proc[p].text, proc[p].key,
                       proc[p].cfg, Opened(p))
            \/ /\ proc[p].at = 2
               /\ Turn(p, IF Opened(p) = Absent THEN "read" ELSE "done", proc[p].then, 2,
                       proc[p].base, proc[p].text, proc[p].key, proc[p].cfg, Opened(p))
  <1>1. proc[p] \in Process /\ job[p].name \in Names /\ proc[p].at \in 1..2 /\ proc[p].base \in Content
    BY JobTyped DEF TypeOK, Process, Converts
  <1>2. Opened(p) \in Sources \cup {Absent}
    <2>1. proc[p].base[job[p].name] # Absent => proc[p].base[job[p].name] \in Text
      BY <1>1 DEF Content
    <2> QED
      BY <1>1, <2>1, Texts DEF Opened, Process
  <1>3. CASE Goto(p, "failed")
    BY <1>2, <1>3, GotoIs DEF Labels
  <1>4. ASSUME NEW pc \in {"layer", "read", "done"}, NEW value \in Sources \cup {Absent},
               \/ proc' = [proc EXCEPT ![p] = [proc[p] EXCEPT !.value = value, !.at = 2, !.pc = pc]]
               \/ /\ proc[p].at = 2
                  /\ proc' = [proc EXCEPT ![p] = [proc[p] EXCEPT !.value = value, !.pc = pc]]
        PROVE  Turn(p, pc, proc[p].then, 2, proc[p].base, proc[p].text, proc[p].key, proc[p].cfg, value)
    <2>1. \E x \in {[proc[p] EXCEPT !.value = value, !.at = 2, !.pc = pc], [proc[p] EXCEPT !.value = value, !.pc = pc]} :
            /\ proc' = [proc EXCEPT ![p] = x]
            /\ x = [proc[p] EXCEPT !.value = value, !.pc = pc] => proc[p].at = 2 \/ x.at = 2
      BY <1>1, <1>4 DEF Process
    <2>2. PICK x \in {[proc[p] EXCEPT !.value = value, !.at = 2, !.pc = pc], [proc[p] EXCEPT !.value = value, !.pc = pc]} :
            /\ proc' = [proc EXCEPT ![p] = x]
            /\ x = [proc[p] EXCEPT !.value = value, !.pc = pc] => proc[p].at = 2 \/ x.at = 2
      BY <2>1
    <2>3. /\ x \in Process /\ x.pc = pc /\ x.then = proc[p].then /\ x.at = 2
          /\ x.base = proc[p].base /\ x.text = proc[p].text /\ x.key = proc[p].key
          /\ x.cfg = proc[p].cfg /\ x.value = value
      <3>1. 2 \in 1..2
        OBVIOUS
      <3> QED
        BY <1>1, <2>2, <3>1 DEF Process, Labels
    <2> QED
      BY <2>2, <2>3, TurnIs
  <1>5. CASE proc[p].at = 1 /\ ~Goto(p, "failed")
    <2>1. proc' = [proc EXCEPT ![p] = [proc[p] EXCEPT !.value = Opened(p), !.at = 2, !.pc = "layer"]]
      BY <1>5 DEF OpenLayer, Opened, TypeOK
    <2> QED
      BY <1>2, <1>4, <1>5, <2>1
  <1>6. CASE proc[p].at = 2 /\ ~Goto(p, "failed")
    <2>0. proc' = [proc EXCEPT ![p].value = Opened(p),
                               ![p].pc = IF Opened(p) = Absent THEN "read" ELSE "done"]
      BY <1>6 DEF OpenLayer, Opened
    <2>1. CASE Opened(p) = Absent
      <3>1. proc' = [proc EXCEPT ![p].value = Opened(p), ![p].pc = "read"]
        BY <2>0, <2>1
      <3>2. proc' = [proc EXCEPT ![p] = [proc[p] EXCEPT !.value = Opened(p), !.pc = "read"]]
        BY <3>1 DEF TypeOK
      <3> QED
        BY <1>2, <1>4, <1>6, <2>1, <3>2
    <2>2. CASE Opened(p) # Absent
      <3>1. proc' = [proc EXCEPT ![p].value = Opened(p), ![p].pc = "done"]
        BY <2>0, <2>2
      <3>2. proc' = [proc EXCEPT ![p] = [proc[p] EXCEPT !.value = Opened(p), !.pc = "done"]]
        BY <3>1 DEF TypeOK
      <3> QED
        BY <1>2, <1>4, <1>6, <2>2, <3>2
    <2> QED
      BY <2>1, <2>2
  <1> QED
    BY <1>1, <1>3, <1>5, <1>6

LEMMA ReadFileIs ==
  ASSUME TypeOK, NEW p \in Processes, ReadFile(p), ~Converts(p)
  PROVE  \E pc \in {"store", "write", "done"} :
           /\ Turn(p, pc, proc[p].then, proc[p].at, files[Target(p)],
                   [files[Target(p)] EXCEPT ![job[p].name] = Absent],
                   proc[p].key, proc[p].cfg, proc[p].value)
           /\ pc = "store" <=> job[p].cmd # "unset"
           /\ pc = "write" => files[Target(p)][job[p].name] # Absent
  <1> DEFINE content == files[Target(p)]
             text == [content EXCEPT ![job[p].name] = Absent]
             pc == IF job[p].cmd # "unset" THEN "store"
                   ELSE IF content[job[p].name] # Absent THEN "write" ELSE "done"
             x == [proc[p] EXCEPT !.base = content, !.text = text, !.pc = pc]
  <1>1. proc[p] \in Process /\ content \in Content /\ job[p].name \in Names
    BY JobTyped DEF TypeOK
  <1>2. text \in Content
    BY <1>1, ContentTyped
  <1>3. proc' = [proc EXCEPT ![p] = x]
    BY DEF ReadFile, TypeOK
  <1>4. /\ pc \in {"store", "write", "done"}
        /\ pc = "store" <=> job[p].cmd # "unset"
        /\ pc = "write" => content[job[p].name] # Absent
    OBVIOUS
  <1> HIDE DEF pc, text, content
  <1>5. /\ x \in Process /\ x.pc = pc /\ x.then = proc[p].then /\ x.at = proc[p].at
        /\ x.base = content /\ x.text = text /\ x.key = proc[p].key
        /\ x.cfg = proc[p].cfg /\ x.value = proc[p].value
    BY <1>1, <1>2, <1>4 DEF Process, Labels
  <1> HIDE DEF x
  <1>6. Turn(p, pc, proc[p].then, proc[p].at, content, text, proc[p].key, proc[p].cfg, proc[p].value)
    BY <1>3, <1>5, TurnIs
  <1> QED
    BY <1>4, <1>6 DEF content, text

LEMMA NextFileIs ==
  ASSUME TypeOK, NEW p \in Processes, NextFile(p, proc[p])
  PROVE  \/ /\ proc[p].at = 1
            /\ Turn(p, "layer", proc[p].then, 2, proc[p].base, proc[p].text, proc[p].key,
                    proc[p].cfg, proc[p].value)
         \/ proc[p].at = 2 /\ Moves(p, "load")
  <1>1. proc[p] \in Process /\ proc[p].at \in 1..2 /\ 2 \in 1..2
    BY DEF TypeOK, Process
  <1>2. CASE proc[p].at = 1
    <2> DEFINE x == [proc[p] EXCEPT !.at = 2, !.pc = "layer"]
    <2>1. /\ x \in Process /\ x.pc = "layer" /\ x.then = proc[p].then /\ x.at = 2
          /\ x.base = proc[p].base /\ x.text = proc[p].text /\ x.key = proc[p].key
          /\ x.cfg = proc[p].cfg /\ x.value = proc[p].value
      BY <1>1 DEF Process, Labels
    <2>2. proc' = [proc EXCEPT ![p] = x]
      BY <1>2 DEF NextFile, TypeOK
    <2> HIDE DEF x
    <2> QED
      BY <1>2, <2>1, <2>2, TurnIs
  <1>3. CASE proc[p].at = 2
    <2>1. proc' = [proc EXCEPT ![p] = proc[p], ![p].pc = "load"]
      BY <1>3 DEF NextFile
    <2>2. Goto(p, "load")
      BY <2>1 DEF Goto, TypeOK
    <2> QED
      BY <1>3, <2>2, GotoIs DEF Labels
  <1> QED
    BY <1>1, <1>2, <1>3

\* What a conversion makes of the file it read.
Converted(p) ==
  IF job[p].cmd = "encrypt" THEN EncryptAll(proc[p].base, proc[p].key) ELSE DecryptAll(proc[p].base)

LEMMA ConvertIs ==
  ASSUME TypeOK, NEW p \in Processes, Convert(p), proc[p].key # NoKey
  PROVE  \/ Moves(p, "failed") /\ calm' = FALSE
         \/ /\ job[p].cmd = "decrypt" => Opens(proc[p].base, proc[p].key)
            /\ calm' = calm
            /\ \/ Converted(p) = proc[p].base /\ NextFile(p, proc[p])
               \/ Turn(p, "write", proc[p].then, proc[p].at, proc[p].base, Converted(p),
                       proc[p].key, proc[p].cfg, proc[p].value)
  <1>1. proc[p] \in Process /\ proc[p].base \in Content /\ proc[p].key \in KeyIds
    BY DEF TypeOK, Process
  <1>2. Converted(p) \in Content
    BY <1>1, ContentTyped DEF Converted
  <1>0. \/ Goto(p, "failed") /\ calm' = FALSE
        \/ /\ job[p].cmd = "decrypt" => Opens(proc[p].base, proc[p].key)
           /\ calm' = calm
           /\ \/ Converted(p) = proc[p].base /\ NextFile(p, proc[p])
              \/ proc' = [proc EXCEPT ![p].text = Converted(p), ![p].pc = "write"]
    BY DEF Convert, Converted
  <1>3. CASE Goto(p, "failed") /\ calm' = FALSE
    BY <1>3, GotoIs DEF Labels
  <1>4. CASE /\ job[p].cmd = "decrypt" => Opens(proc[p].base, proc[p].key)
             /\ calm' = calm
             /\ proc' = [proc EXCEPT ![p].text = Converted(p), ![p].pc = "write"]
    <2> DEFINE x == [proc[p] EXCEPT !.text = Converted(p), !.pc = "write"]
    <2>1. /\ x \in Process /\ x.pc = "write" /\ x.then = proc[p].then /\ x.at = proc[p].at
          /\ x.base = proc[p].base /\ x.text = Converted(p) /\ x.key = proc[p].key
          /\ x.cfg = proc[p].cfg /\ x.value = proc[p].value
      BY <1>1, <1>2 DEF Process, Labels
    <2>2. proc' = [proc EXCEPT ![p] = x]
      BY <1>4 DEF TypeOK
    <2> HIDE DEF x
    <2>3. Turn(p, "write", proc[p].then, proc[p].at, proc[p].base, Converted(p),
               proc[p].key, proc[p].cfg, proc[p].value)
      BY <2>1, <2>2, TurnIs
    <2> QED
      BY <2>3, <1>4
  <1> QED
    BY <1>0, <1>3, <1>4

LEMMA WriteIs ==
  ASSUME TypeOK, NEW p \in Processes, Write(p)
  PROVE  \/ Converts(p) /\ NextFile(p, proc[p])
         \/ /\ job[p].cmd = "run"
            /\ Turn(p, "done", proc[p].then, proc[p].at, proc[p].base, proc[p].text,
                    proc[p].key, proc[p].cfg, p)
         \/ /\ job[p].cmd \in {"set", "unset"}
            /\ \/ Moves(p, "done")
               \/ Reconfigures(p) /\ Moves(p, "load")
  <1>1. proc[p] \in Process /\ (~Converts(p) => job[p].cmd \in {"set", "unset", "run"})
    BY JobTyped DEF TypeOK
  <1>2. CASE Converts(p)
    BY <1>2 DEF Write, Converts
  <1>3. CASE job[p].cmd = "run"
    <2> DEFINE x == [proc[p] EXCEPT !.value = p, !.pc = "done"]
    <2>1. /\ x \in Process /\ x.pc = "done" /\ x.then = proc[p].then /\ x.at = proc[p].at
          /\ x.base = proc[p].base /\ x.text = proc[p].text /\ x.key = proc[p].key
          /\ x.cfg = proc[p].cfg /\ x.value = p
      BY <1>1 DEF Process, Labels, Sources
    <2>2. proc' = [proc EXCEPT ![p] = x]
      BY <1>3 DEF Write, Converts, TypeOK
    <2> HIDE DEF x
    <2> QED
      BY <1>3, <2>1, <2>2, TurnIs
  <1>4. CASE job[p].cmd \in {"set", "unset"}
    <2>1. Goto(p, IF Reconfigures(p) THEN "load" ELSE "done")
      BY <1>4 DEF Write, Converts
    <2> QED
      BY <1>4, <2>1, GotoIs DEF Labels
  <1> QED
    BY <1>1, <1>2, <1>3, <1>4

LEMMA LoadConfigIs ==
  ASSUME TypeOK, NEW p \in Processes, LoadConfig(p)
  PROVE  LET cfg == IF Converts(p) THEN job[p].cmd = "encrypt" ELSE setting IN
         \/ Converts(p) /\ cfg = setting /\ Moves(p, "done")
         \/ Turn(p, "truncate", proc[p].then, proc[p].at, proc[p].base, proc[p].text,
                 proc[p].key, cfg, proc[p].value)
  <1> DEFINE cfg == IF Converts(p) THEN job[p].cmd = "encrypt" ELSE setting
  <1>1. proc[p] \in Process /\ setting \in BOOLEAN
    BY DEF TypeOK
  <1>2. cfg \in BOOLEAN
    BY <1>1
  <1>3. CASE Converts(p) /\ cfg = setting
    BY <1>3, GotoIs DEF LoadConfig, Labels
  <1>4. CASE proc' = [proc EXCEPT ![p].cfg = cfg, ![p].pc = "truncate"]
    <2> DEFINE x == [proc[p] EXCEPT !.cfg = cfg, !.pc = "truncate"]
    <2> HIDE DEF cfg
    <2>1. /\ x \in Process /\ x.pc = "truncate" /\ x.then = proc[p].then /\ x.at = proc[p].at
          /\ x.base = proc[p].base /\ x.text = proc[p].text /\ x.key = proc[p].key
          /\ x.cfg = cfg /\ x.value = proc[p].value
      BY <1>1, <1>2, Zenon DEF Process, Labels
    <2>2. proc' = [proc EXCEPT ![p] = x]
      BY <1>4 DEF TypeOK
    <2> HIDE DEF x
    <2>3. Turn(p, "truncate", proc[p].then, proc[p].at, proc[p].base, proc[p].text,
               proc[p].key, cfg, proc[p].value)
      BY <2>1, <2>2, TurnIs
    <2> QED
      BY <2>3 DEF cfg
  <1> QED
    BY <1>3, <1>4 DEF LoadConfig

-----------------------------------------------------------------------------
(* Types, and how far each command is.                                     *)

\* One command takes a step; the others are where they were.
LEMMA OneTyped ==
  ASSUME TypeInv, NEW p \in Processes, proc' \in [Processes -> Process],
         \A q \in Processes \ {p} : proc'[q] = proc[q],
         job' = job, Steps(p)',
         wrote' \in {wrote, wrote \cup {p}}, overtaken' \subseteq Processes,
         files' \in [Files -> Content], setting' \in BOOLEAN,
         keychain' \in Processes \cup {OldKey, NoKey}, keyFile' \in Processes \cup {OldKey, NoKey},
         raced' \in BOOLEAN, passed' \subseteq KeyIds, calm' \in BOOLEAN
  PROVE  TypeInv'
  <1>1. TypeOK'
    BY DEF TypeInv, TypeOK
  <1>2. ASSUME NEW q \in Processes, q # p PROVE Steps(q)'
    <2>1. proc'[q] = proc[q] /\ job'[q] = job[q] /\ (q \in wrote' => q \in wrote)
      BY <1>2 DEF TypeInv, TypeOK
    <2> QED
      BY <2>1 DEF TypeInv, Steps, Needs, Converts, Reconfigures
  <1> QED
    BY <1>1, <1>2 DEF TypeInv

\* A step after which nobody else sees a difference.
LEMMA QuietTyped ==
  ASSUME TypeInv, NEW p \in Processes, proc' \in [Processes -> Process],
         \A q \in Processes \ {p} : proc'[q] = proc[q], Steps(p)',
         UNCHANGED <<shared, job, wrote, overtaken, raced, passed>>, calm' \in BOOLEAN
  PROVE  TypeInv'
  BY OneTyped DEF TypeInv, TypeOK, shared

LEMMA InitTyped == Init => TypeInv
  <1> SUFFICES ASSUME Init PROVE TypeInv
    OBVIOUS
  <1>1. PICK present \in SUBSET Names :
          /\ setting /\ present \cap Sensitive # {} => Answer # NoKey
          /\ files = [f \in Files |->
               [n \in Names |->
                 IF f = ".env" /\ n \in present
                   THEN [value |-> First,
                         under |-> IF setting /\ n \in Sensitive THEN Answer ELSE Plain]
                   ELSE Absent]]
    BY DEF Init
  <1>2. Answer \in {OldKey, NoKey}
    BY DEF Init, Answer
  <1>3. files \in [Files -> Content]
    <2>1. ASSUME NEW n \in present
          PROVE  [value |-> First, under |-> IF setting /\ n \in Sensitive THEN Answer ELSE Plain] \in Text
      <3>1. (IF setting /\ n \in Sensitive THEN Answer ELSE Plain) \in KeyIds \cup {Plain}
        BY <1>1, <1>2, <2>1 DEF KeyIds
      <3> QED
        BY <3>1, Texts DEF Sources
    <2> QED
      BY <1>1, <2>1 DEF Content
  <1>4. PICK given \in SUBSET Given :
          proc = [p \in Processes |->
            [pc |-> "idle", then |-> "begin", at |-> 1, base |-> Nothing, text |-> Nothing,
             key |-> IF p \in given THEN GivenKey ELSE NoKey, cfg |-> FALSE, value |-> Absent]]
    BY DEF Init
  <1>5. proc \in [Processes -> Process]
    <2>1. ASSUME NEW key \in {GivenKey, NoKey}
          PROVE  [pc |-> "idle", then |-> "begin", at |-> 1, base |-> Nothing, text |-> Nothing,
                  key |-> key, cfg |-> FALSE, value |-> Absent] \in Process
      BY Texts DEF Process, Labels, KeyIds
    <2> QED
      BY <1>4, <2>1
  <1>6. TypeOK
    BY <1>3, <1>5 DEF Init, TypeOK
  <1>7. \A p \in Processes : Steps(p)
    BY <1>4 DEF Init, Steps, Needs, Keying
  <1> QED
    BY <1>6, <1>7 DEF TypeInv

\* The actions that only move a command and what it holds.
Quiet(p) ==
  \/ Begin(p) \/ BeginConverting(p) \/ AskKeychain(p) \/ ReadKeyFile(p)
  \/ ReadLayer(p) \/ OpenLayer(p) \/ ReadFile(p) \/ Store(p) \/ Seal(p) \/ Convert(p)
  \/ LoadConfig(p) \/ DiskRefuses(p) \/ Crash(p)

LEMMA QuietNext == ASSUME TypeInv, NEW p \in Processes, Quiet(p) PROVE TypeInv'
  <1>t. /\ TypeOK /\ Steps(p) /\ UNCHANGED <<shared, job, wrote, overtaken, raced, passed>> /\ job' = job /\ wrote' = wrote
        /\ proc[p] \in Process
        /\ ~Converts(p) => job[p].name \in Names /\ job[p].cmd \in {"set", "unset", "run"}
    BY JobTyped DEF TypeInv, TypeOK, Quiet, Begin, BeginConverting, AskKeychain, ReadKeyFile, ReadLayer, OpenLayer, ReadFile, Store,
       Seal, Convert, LoadConfig, DiskRefuses, Crash, Fail, history
  <1>c. calm' \in BOOLEAN
    BY DEF TypeInv, TypeOK, Quiet, Begin, BeginConverting, AskKeychain, ReadKeyFile, ReadLayer, OpenLayer, ReadFile, Store,
       Seal, Convert, LoadConfig, DiskRefuses, Crash, Fail, history
  <1>k. keychain \in KeyIds \cup {NoKey} /\ keyFile \in KeyIds \cup {NoKey} /\ proc[p].key \in KeyIds \cup {NoKey}
    BY <1>t DEF TypeOK, KeyIds, Process
  <1> DEFINE Goal == /\ proc' \in [Processes -> Process]
                     /\ \A q \in Processes \ {p} : proc'[q] = proc[q]
                     /\ Steps(p)'
  <1> SUFFICES Goal
    BY <1>t, <1>c, QuietTyped
  <1> USE DEF Turn, Moves, Steps, Needs, Keying, Converts, Reconfigures
  <1>1. CASE Begin(p)
    <2>1. CASE Converts(p)
      BY <1>t, <1>1, <2>1, WithKeyIs DEF Begin
    <2>2. CASE job[p].cmd = "run"
      BY <1>t, <1>1, <2>2, GotoIs DEF Begin, Labels
    <2>3. CASE ~Converts(p) /\ job[p].cmd # "run"
      BY <1>t, <1>1, <2>3, GotoIs DEF Begin, Labels
    <2> QED
      BY <2>1, <2>2, <2>3
  <1>2. CASE BeginConverting(p)
    BY <1>t, <1>2, GotoIs DEF BeginConverting, Labels
  <1>3. CASE AskKeychain(p)
    <2>1. CASE Found(p, keychain)
      BY <1>t, <1>k, <1>3, <2>1, FoundIs DEF AskKeychain, Process
    <2>2. ASSUME NEW label \in {"make", "file"}, Goto(p, label) PROVE Goal
      BY <1>t, <1>3, <2>2, GotoIs DEF AskKeychain, Labels
    <2> QED
      BY <1>3, <2>1, <2>2 DEF AskKeychain
  <1>4. CASE ReadKeyFile(p)
    <2>1. ASSUME NEW key \in {keyFile, NoKey}, Found(p, key) PROVE Goal
      BY <1>t, <1>k, <1>4, <2>1, FoundIs DEF ReadKeyFile, Process
    <2>2. CASE Goto(p, "makeFile")
      BY <1>t, <1>4, <2>2, GotoIs DEF ReadKeyFile, Labels
    <2> QED
      BY <1>4, <2>1, <2>2 DEF ReadKeyFile
  <1>5. CASE ReadLayer(p)
    BY <1>t, <1>5, ReadLayerIs DEF ReadLayer
  <1>6. CASE OpenLayer(p)
    BY <1>t, <1>6, OpenLayerIs DEF OpenLayer
  <1>7. CASE ReadFile(p)
    BY <1>t, <1>7, ReadFileIs DEF ReadFile
  <1>8. CASE Store(p)
    BY <1>t, <1>8, WithKeyIs, PutTextIs DEF Store
  <1>9. CASE Seal(p)
    BY <1>t, <1>k, <1>9, PutTextIs DEF Seal
  <1>10. CASE Convert(p)
    BY <1>t, <1>10, ConvertIs, NextFileIs DEF Convert
  <1>11. CASE LoadConfig(p)
    BY <1>t, <1>11, LoadConfigIs DEF LoadConfig
  <1>12. CASE DiskRefuses(p) \/ Crash(p)
    BY <1>t, <1>12, GotoIs DEF DiskRefuses, Crash, Fail, Labels
  <1> QED
    BY <1>1, <1>2, <1>3, <1>4, <1>5, <1>6, <1>7, <1>8, <1>9, <1>10, <1>11, <1>12 DEF Quiet

LEMMA SharedNext ==
  ASSUME TypeInv, NEW p \in Processes,
         MakeInKeychain(p) \/ MakeKeyFile(p) \/ Write(p) \/ Truncate(p) \/ Save(p)
  PROVE  TypeInv'
  <1>t. /\ TypeOK /\ Steps(p) /\ job' = job /\ wrote' \in {wrote, wrote \cup {p}} /\ (~Write(p) => wrote' = wrote)
        /\ proc[p] \in Process /\ Target(p) \in Files /\ p \in KeyIds
        /\ ~Converts(p) => job[p].name \in Names /\ job[p].cmd \in {"set", "unset", "run"}
    BY JobTyped DEF TypeInv, TypeOK, KeyIds, MakeInKeychain, MakeKeyFile, Write, Truncate, Save, history
  <1>c. /\ overtaken' \subseteq Processes /\ setting' \in BOOLEAN
        /\ keychain' \in Processes \cup {OldKey, NoKey} /\ keyFile' \in Processes \cup {OldKey, NoKey}
        /\ raced' \in BOOLEAN /\ passed' \subseteq KeyIds /\ calm' \in BOOLEAN
    BY <1>t DEF TypeOK, Process, MakeInKeychain, MakeKeyFile, Write, Truncate, Save, history, Overtake, Stale,
       PassedByKeychain, PassedByFile, KeyIds
  <1>f. files' \in [Files -> Content]
    <2>1. CASE Write(p)
      BY <1>t, <2>1 DEF Write, Written, TypeOK, Process
    <2> QED
      BY <1>t, <2>1 DEF TypeOK, MakeInKeychain, MakeKeyFile, Truncate, Save
  <1> DEFINE Goal == /\ proc' \in [Processes -> Process]
                     /\ \A q \in Processes \ {p} : proc'[q] = proc[q]
                     /\ Steps(p)'
  <1> SUFFICES Goal
    BY <1>t, <1>c, <1>f, OneTyped
  <1> USE DEF Turn, Moves, Steps, Needs, Keying, Converts, Reconfigures
  <1>1. CASE MakeInKeychain(p)
    <2>1. CASE Found(p, p)
      BY <1>t, <1>1, <2>1, FoundIs DEF MakeInKeychain, Process, Write
    <2>2. CASE Goto(p, "file")
      BY <1>t, <1>1, <2>2, GotoIs DEF MakeInKeychain, Labels, Write
    <2> QED
      BY <1>1, <2>1, <2>2 DEF MakeInKeychain
  <1>2. CASE MakeKeyFile(p)
    BY <1>t, <1>2, FoundIs DEF MakeKeyFile, Process, Write
  <1>3. CASE Write(p)
    BY <1>t, <1>3, WriteIs, NextFileIs DEF Write
  <1>4. CASE Truncate(p) \/ Save(p)
    BY <1>t, <1>4, GotoIs DEF Truncate, Save, Labels, Write
  <1> QED
    BY <1>1, <1>2, <1>3, <1>4

LEMMA TypeNext == TypeInv /\ [Next]_vars => TypeInv'
  <1> SUFFICES ASSUME TypeInv, [Next]_vars PROVE TypeInv'
    OBVIOUS
  <1>1. CASE UNCHANGED vars
    BY <1>1 DEF TypeInv, TypeOK, Steps, Needs, Converts, Reconfigures, vars, shared, history
  <1>2. ASSUME NEW p \in Processes, Proceed(p) \/ DiskRefuses(p) \/ Crash(p) PROVE TypeInv'
    BY <1>2, QuietNext, SharedNext DEF Proceed, Quiet
  <1> QED
    BY <1>1, <1>2 DEF Next

\* Every variable keeps its type, whatever the commands do to the files at once: each
\* file is always a whole file of penv's, with values somebody wrote.
THEOREM Typing == Spec => []TypeOK
  <1>1. TypeInv => TypeOK
    BY DEF TypeInv
  <1> QED
    BY <1>1, InitTyped, TypeNext, PTL DEF Spec

-----------------------------------------------------------------------------
(* Each command works from a copy, which is the file until another writes. *)

\* From reading what it will rewrite to rewriting it.
Holding(p) == proc[p].pc \in {"store", "convert", "write"} \/ Needs(p, "seal")

Same(p)  == proc[p].base = files[Target(p)]
Blank(p) == proc[p].text = [proc[p].base EXCEPT ![job[p].name] = Absent]
Held(p)  == proc[p].base[job[p].name] # Absent

Filled(p) == \E under \in KeyIds \cup {Plain} :
  proc[p].text = [proc[p].base EXCEPT ![job[p].name] = [value |-> p, under |-> under]]

\* What is about to be written is what the job makes of the copy.
Ready(p) ==
  /\ Converts(p) => proc[p].text = Converted(p)
  /\ job[p].cmd = "unset" => Blank(p) /\ Held(p)
  /\ job[p].cmd \in {"set", "run"} => Filled(p)

Copies(p) ==
  /\ Holding(p) /\ p \notin overtaken => Same(p)
  /\ proc[p].pc = "store" \/ Needs(p, "seal") => Blank(p)
  /\ proc[p].pc = "write" => Ready(p)

\* A run on its way to generate a value has seen that there is none.
Generates(p) == proc[p].pc \in {"read", "store", "write"} \/ Needs(p, "seal")

InLayer(p) == proc[p].base = files[Cascade[proc[p].at]]
Second(p)  == proc[p].at = 2 /\ proc[p].value = Absent
Lacks(p, f) == files[f][job[p].name] = Absent

Misses(p) ==
  job[p].cmd = "run" /\ p \notin overtaken =>
    /\ proc[p].pc = "idle" => ~Second(p)
    /\ Needs(p, "open") => InLayer(p)
    /\ (proc[p].pc = "layer" \/ Needs(p, "open")) /\ Second(p) => Lacks(p, ".env")
    /\ Generates(p) => Lacks(p, ".env") /\ Lacks(p, ".env.local")

CopyInv == TypeInv /\ \A p \in Processes : Copies(p) /\ Misses(p)

\* What a command knows depends on what it holds and on the files.
LEMMA Knows ==
  ASSUME NEW p \in Processes, job' = job, files' = files,
         proc'[p].base = proc[p].base, proc'[p].at = proc[p].at
  PROVE  /\ Target(p)' = Target(p) /\ Same(p)' = Same(p) /\ Held(p)' = Held(p)
         /\ InLayer(p)' = InLayer(p) /\ \A f \in Files : Lacks(p, f)' = Lacks(p, f)
         /\ proc'[p].key = proc[p].key => Converted(p)' = Converted(p)
         /\ proc'[p].text = proc[p].text => Blank(p)' = Blank(p) /\ Filled(p)' = Filled(p)
         /\ proc'[p].value = proc[p].value => Second(p)' = Second(p)
  <1>1. Target(p)' = Target(p)
    BY DEF Target
  <1> QED
    BY <1>1 DEF Same, Held, InLayer, Lacks, Converted, Blank, Filled, Second

\* A command that another's step leaves alone, or that is told the files changed.
LEMMA OtherCopies ==
  ASSUME CopyInv, NEW q \in Processes, proc'[q] = proc[q], job' = job, overtaken \subseteq overtaken',
         files' = files \/ (Active(q) => q \in overtaken')
  PROVE  Copies(q)' /\ Misses(q)'
  <1>1. Copies(q) /\ Misses(q)
    BY DEF CopyInv
  <1>2. /\ Blank(q)' = Blank(q) /\ Ready(q)' = Ready(q) /\ Holding(q)' = Holding(q) /\ Generates(q)' = Generates(q)
        /\ \A label \in Labels : Needs(q, label)' = Needs(q, label)
    BY DEF Blank, Held, Filled, Ready, Converts, Converted, Holding, Generates, Needs
  <1>3. /\ Holding(q) \/ Generates(q) \/ Needs(q, "open") \/ proc[q].pc = "layer" => Active(q)
        /\ Second(q)' = Second(q)
    BY DEF Holding, Generates, Needs, Keying, Active, Second
  <1>4. CASE files' = files
    <2>1. Same(q)' = Same(q) /\ InLayer(q)' = InLayer(q)
          /\ Lacks(q, ".env")' = Lacks(q, ".env") /\ Lacks(q, ".env.local")' = Lacks(q, ".env.local")
      BY <1>4, Knows DEF Files
    <2> QED
      BY <1>1, <1>2, <1>3, <2>1 DEF Copies, Misses, Labels
  <1>5. CASE Active(q) => q \in overtaken'
    BY <1>1, <1>2, <1>3, <1>5 DEF Copies, Misses, Labels
  <1> QED
    BY <1>4, <1>5

LEMMA InitCopies == Init => CopyInv
  <1> SUFFICES ASSUME Init PROVE CopyInv
    OBVIOUS
  <1>1. \E given \in SUBSET Given :
          proc = [p \in Processes |->
            [pc |-> "idle", then |-> "begin", at |-> 1, base |-> Nothing, text |-> Nothing,
             key |-> IF p \in given THEN GivenKey ELSE NoKey, cfg |-> FALSE, value |-> Absent]]
    BY DEF Init
  <1>2. ASSUME NEW p \in Processes PROVE Copies(p) /\ Misses(p)
    <2>1. proc[p].pc = "idle" /\ proc[p].at = 1
      BY <1>1
    <2>2. ~Holding(p) /\ proc[p].pc # "layer" /\ ~Second(p) /\ ~Generates(p) /\ ~Needs(p, "seal") /\ ~Needs(p, "open")
      BY <2>1 DEF Holding, Generates, Needs, Keying, Second
    <2> QED
      BY <2>1, <2>2 DEF Copies, Misses
  <1> QED
    BY InitTyped, <1>2 DEF CopyInv

\* A step that leaves a command with what it holds.
LEMMA Keeps ==
  ASSUME NEW p \in Processes, NEW pc \in Labels, NEW then \in {"begin", "open", "seal"},
         NEW key \in KeyIds \cup {NoKey}, NEW cfg \in BOOLEAN, job' = job, files' = files,
         Turn(p, pc, then, proc[p].at, proc[p].base, proc[p].text, key, cfg, proc[p].value)
  PROVE  /\ proc'[p].pc = pc /\ proc'[p].then = then
         /\ Same(p)' = Same(p) /\ Blank(p)' = Blank(p) /\ Held(p)' = Held(p) /\ Filled(p)' = Filled(p)
         /\ InLayer(p)' = InLayer(p) /\ Second(p)' = Second(p)
         /\ Lacks(p, ".env")' = Lacks(p, ".env") /\ Lacks(p, ".env.local")' = Lacks(p, ".env.local")
  BY Knows DEF Turn, Files

\* Nothing changes but where the command is on its way to the key.
LEMMA KeyCopies ==
  ASSUME CopyInv, NEW p \in Processes, job' = job, files' = files, overtaken \subseteq overtaken',
         proc[p].pc \in Keying, NEW pc \in Keying \cup {proc[p].then}, NEW key \in KeyIds \cup {NoKey},
         Turn(p, pc, proc[p].then, proc[p].at, proc[p].base, proc[p].text, key, proc[p].cfg, proc[p].value)
  PROVE  Copies(p)' /\ Misses(p)'
  <1>1. /\ pc \in Labels /\ proc[p].then \in {"begin", "open", "seal"} /\ proc[p].cfg \in BOOLEAN
        /\ Copies(p) /\ Misses(p)
    BY DEF CopyInv, TypeInv, TypeOK, Process, Labels, Keying
  <1>2. /\ proc'[p].pc = pc /\ proc'[p].then = proc[p].then
        /\ Same(p)' = Same(p) /\ Blank(p)' = Blank(p)
        /\ InLayer(p)' = InLayer(p) /\ Second(p)' = Second(p)
        /\ Lacks(p, ".env")' = Lacks(p, ".env") /\ Lacks(p, ".env.local")' = Lacks(p, ".env.local")
    BY <1>1, Keeps
  <1>3. Needs(p, "open")' = Needs(p, "open") /\ Needs(p, "seal")' = Needs(p, "seal")
    BY <1>1, <1>2 DEF Needs, Keying
  <1>4. proc'[p].pc \notin {"idle", "store", "convert", "write", "layer", "read"}
    BY <1>1, <1>2 DEF Keying
  <1> QED
    BY <1>1, <1>2, <1>3, <1>4 DEF Copies, Misses, Holding, Generates

\* The steps that change no file but go on from one.
LEMMA QuietCopies == ASSUME CopyInv, NEW p \in Processes, Quiet(p), TypeInv' PROVE CopyInv'
  <1>t. /\ TypeOK /\ Steps(p) /\ Copies(p) /\ Misses(p)
        /\ files' = files /\ job' = job /\ overtaken' = overtaken
        /\ proc[p] \in Process /\ files \in [Files -> Content]
        /\ ~Converts(p) => job[p].name \in Names /\ job[p].cmd \in {"set", "unset", "run"}
        /\ Converts(p)' = Converts(p)
    BY JobTyped DEF CopyInv, TypeInv, TypeOK, Quiet, Begin, BeginConverting, AskKeychain, ReadKeyFile, ReadLayer, OpenLayer, ReadFile,
       Store, Seal, Convert, LoadConfig, DiskRefuses, Crash, Fail, history, shared, Converts
  <1>k. keychain \in KeyIds \cup {NoKey} /\ keyFile \in KeyIds \cup {NoKey} /\ proc[p].key \in KeyIds \cup {NoKey}
    BY <1>t DEF TypeOK, KeyIds, Process
  <1> DEFINE Others == \A q \in Processes \ {p} : proc'[q] = proc[q]
             Goal == Others /\ Copies(p)' /\ Misses(p)'
  <1> SUFFICES Goal
    BY <1>t, OtherCopies DEF CopyInv
  <1> USE DEF Steps, Needs, Keying
  \* Steps that leave the copy as it is.
  <1>0. ASSUME NEW pc \in Labels, NEW then \in {"begin", "open", "seal"}, NEW key \in KeyIds \cup {NoKey},
               NEW cfg \in BOOLEAN,
               Turn(p, pc, then, proc[p].at, proc[p].base, proc[p].text, key, cfg, proc[p].value)
        PROVE  /\ Others /\ proc'[p].pc = pc /\ proc'[p].then = then
               /\ Same(p)' = Same(p) /\ Blank(p)' = Blank(p) /\ Held(p)' = Held(p) /\ Filled(p)' = Filled(p)
               /\ InLayer(p)' = InLayer(p) /\ Second(p)' = Second(p)
               /\ Lacks(p, ".env")' = Lacks(p, ".env") /\ Lacks(p, ".env.local")' = Lacks(p, ".env.local")
    BY <1>0, <1>t, Keeps DEF Turn
  <1>m. ASSUME NEW pc \in Labels, Moves(p, pc)
        PROVE  /\ Others /\ proc'[p].pc = pc /\ proc'[p].then = proc[p].then
               /\ Same(p)' = Same(p) /\ Blank(p)' = Blank(p) /\ Held(p)' = Held(p) /\ Filled(p)' = Filled(p)
               /\ InLayer(p)' = InLayer(p) /\ Second(p)' = Second(p)
               /\ Lacks(p, ".env")' = Lacks(p, ".env") /\ Lacks(p, ".env.local")' = Lacks(p, ".env.local")
    BY <1>m, <1>0, <1>t DEF Moves, Process
  <1>i. ASSUME NEW label \in {"begin", "load", "truncate", "done", "failed"},
               Others, proc'[p].pc = label
        PROVE  Goal
    BY <1>i DEF Copies, Misses, Holding, Generates
  <1>1. CASE Begin(p)
    <2>1. CASE Converts(p)
      <3>1. CASE Moves(p, "begin")
        BY <1>m, <1>i, <3>1 DEF Labels
      <3>2. CASE Turn(p, "ask", "begin", proc[p].at, proc[p].base, proc[p].text,
                      proc[p].key, proc[p].cfg, proc[p].value)
        <4>1. Others /\ proc'[p].pc = "ask" /\ proc'[p].then = "begin"
          BY <3>2 DEF Turn
        <4> QED
          BY <4>1 DEF Copies, Misses, Holding, Generates
      <3> QED
        <4>1. WithKey(p, "begin")
          BY <1>1, <2>1 DEF Begin, Converts
        <4> QED
          BY <1>t, <3>1, <3>2, <4>1, WithKeyIs
    <2>2. CASE job[p].cmd = "run"
      <3>1. Moves(p, "layer")
        BY <1>t, <1>1, <2>2, GotoIs DEF Begin, Labels, Converts
      <3>2. proc'[p].pc = "layer" /\ Others /\ Second(p)' = Second(p) /\ Lacks(p, ".env")' = Lacks(p, ".env")
        BY <1>m, <3>1 DEF Labels
      <3>3. proc[p].pc = "idle"
        BY <1>1 DEF Begin
      <3> QED
        BY <1>t, <3>2, <3>3 DEF Copies, Misses, Holding, Generates
    <2>3. CASE ~Converts(p) /\ job[p].cmd # "run"
      <3>1. Moves(p, "read")
        BY <1>t, <1>1, <2>3, GotoIs DEF Begin, Labels
      <3> QED
        BY <1>m, <1>t, <2>3, <3>1 DEF Labels, Copies, Misses, Holding, Generates
    <2> QED
      BY <2>1, <2>2, <2>3
  <1>2. CASE BeginConverting(p)
    <2>1. Moves(p, IF proc[p].key = NoKey THEN "failed" ELSE "layer") /\ Converts(p)
      BY <1>t, <1>2, GotoIs DEF BeginConverting, Labels
    <2>2. Others /\ proc'[p].pc \in {"failed", "layer"}
      BY <1>m, <2>1 DEF Labels
    <2>3. job'[p].cmd # "run"
      BY <1>t, <2>1 DEF Converts
    <2> QED
      BY <2>2, <2>3 DEF Copies, Misses, Holding, Generates
  \* Nothing changes but where the command is on its way to the key.
  <1>w. ASSUME NEW pc \in Keying \cup {proc[p].then}, NEW key \in KeyIds \cup {NoKey}, proc[p].pc \in Keying,
               Turn(p, pc, proc[p].then, proc[p].at, proc[p].base, proc[p].text, key, proc[p].cfg, proc[p].value)
        PROVE  Goal
    BY <1>t, <1>w, KeyCopies DEF Turn
  <1>3. CASE AskKeychain(p)
    <2>1. CASE Found(p, keychain)
      BY <1>t, <1>k, <1>3, <1>w, <2>1, FoundIs DEF AskKeychain
    <2>2. ASSUME NEW label \in {"make", "file"}, Goto(p, label) PROVE Goal
      BY <1>t, <1>k, <1>3, <1>w, <2>2, GotoIs DEF AskKeychain, Labels, Moves
    <2> QED
      BY <1>3, <2>1, <2>2 DEF AskKeychain
  <1>4. CASE ReadKeyFile(p)
    <2>1. ASSUME NEW key \in {keyFile, NoKey}, Found(p, key) PROVE Goal
      BY <1>t, <1>k, <1>4, <1>w, <2>1, FoundIs DEF ReadKeyFile
    <2>2. CASE Goto(p, "makeFile")
      BY <1>t, <1>k, <1>4, <1>w, <2>2, GotoIs DEF ReadKeyFile, Labels, Moves
    <2> QED
      BY <1>4, <2>1, <2>2 DEF ReadKeyFile
  <1>5. CASE ReadLayer(p)
    <2>1. PICK then \in {"begin", "open", "seal"}, pc \in {"ask", "convert", "open"} :
            /\ Turn(p, pc, then, proc[p].at, files[Cascade[proc[p].at]], proc[p].text,
                    proc[p].key, proc[p].cfg, proc[p].value)
            /\ pc = "ask" => then = "open"
            /\ pc = "convert" <=> Converts(p)
      BY <1>t, <1>5, ReadLayerIs
    <2>2. Others /\ proc'[p].pc = pc /\ proc'[p].then = then /\ InLayer(p)'
      BY <1>t, <2>1 DEF Turn, InLayer
    <2>3. Second(p)' = Second(p) /\ Lacks(p, ".env")' = Lacks(p, ".env")
      BY <1>t, <2>1 DEF Turn, Second, Lacks
    <2>4. pc = "convert" => Same(p)'
      BY <1>t, <2>1, <2>2 DEF Same, InLayer, Target, Converts
    <2>5. proc[p].pc = "layer"
      BY <1>5 DEF ReadLayer
    <2> QED
      BY <1>t, <2>1, <2>2, <2>3, <2>4, <2>5 DEF Copies, Misses, Holding, Generates
  <1>6. CASE OpenLayer(p)
    <2>0. proc[p].pc = "open" /\ job[p].cmd = "run" /\ ~Converts(p) /\ job'[p].cmd = "run"
      BY <1>t, <1>6 DEF OpenLayer, Converts
    <2>f. Lacks(p, ".env")' = Lacks(p, ".env") /\ Lacks(p, ".env.local")' = Lacks(p, ".env.local")
      BY <1>t DEF Lacks
    <2>1. CASE Moves(p, "failed")
      BY <1>m, <1>i, <2>1 DEF Labels
    <2>o. Opened(p) = Absent => proc[p].base[job[p].name] = Absent /\ proc[p].value = Absent
      <3>1. proc[p].base[job[p].name] # Absent => proc[p].base[job[p].name] \in Text
        BY <1>t, <2>0 DEF Process, Content
      <3> QED
        BY <3>1, Texts, EmptyAssumption DEF Opened
    <2>2. CASE /\ proc[p].at = 1
               /\ Turn(p, "layer", proc[p].then, 2, proc[p].base, proc[p].text, proc[p].key,
                       proc[p].cfg, Opened(p))
      <3>1. Others /\ proc'[p].pc = "layer" /\ (Second(p)' => Opened(p) = Absent)
        BY <2>2 DEF Turn, Second
      <3>2. InLayer(p) /\ Opened(p) = Absent => Lacks(p, ".env")
        BY <2>2, <2>o DEF InLayer, Cascade, Lacks
      <3> QED
        BY <1>t, <2>0, <2>f, <3>1, <3>2 DEF Copies, Misses, Holding, Generates
    <2>3. CASE /\ proc[p].at = 2
               /\ Turn(p, IF Opened(p) = Absent THEN "read" ELSE "done", proc[p].then, 2,
                       proc[p].base, proc[p].text, proc[p].key, proc[p].cfg, Opened(p))
      <3>1. Others /\ proc'[p].pc = IF Opened(p) = Absent THEN "read" ELSE "done"
        BY <2>3 DEF Turn
      <3>2. InLayer(p) /\ Opened(p) = Absent => Lacks(p, ".env.local") /\ Second(p)
        BY <2>3, <2>o DEF InLayer, Cascade, Lacks, Second
      <3> QED
        BY <1>t, <2>0, <2>f, <3>1, <3>2 DEF Copies, Misses, Holding, Generates
    <2> QED
      BY <1>t, <1>6, <2>0, <2>1, <2>2, <2>3, OpenLayerIs
  <1>7. CASE ReadFile(p)
    <2>1. ~Converts(p) /\ proc[p].pc = "read" /\ Target(p)' = Target(p)
      BY <1>t, <1>7 DEF ReadFile, Target, Converts
    <2>2. PICK pc \in {"store", "write", "done"} :
            /\ Turn(p, pc, proc[p].then, proc[p].at, files[Target(p)],
                    [files[Target(p)] EXCEPT ![job[p].name] = Absent],
                    proc[p].key, proc[p].cfg, proc[p].value)
            /\ pc = "store" <=> job[p].cmd # "unset"
            /\ pc = "write" => files[Target(p)][job[p].name] # Absent
      BY <1>t, <1>7, <2>1, ReadFileIs
    <2>3. Others /\ proc'[p].pc = pc /\ Same(p)' /\ Blank(p)'
      BY <1>t, <2>1, <2>2 DEF Turn, Same, Blank
    <2>4. Lacks(p, ".env")' = Lacks(p, ".env") /\ Lacks(p, ".env.local")' = Lacks(p, ".env.local")
      BY <1>t DEF Lacks
    <2>5. pc = "write" => Ready(p)'
      <3>1. pc = "write" => job'[p].cmd = "unset" /\ Held(p)'
        BY <1>t, <2>1, <2>2 DEF Turn, Held
      <3> QED
        BY <1>t, <2>1, <2>3, <3>1 DEF Ready
    <2> QED
      BY <1>t, <2>1, <2>2, <2>3, <2>4, <2>5 DEF Copies, Misses, Holding, Generates
  \* Putting the value in the copy.
  <1>p. ASSUME NEW under \in KeyIds \cup {Plain}, PutText(p, under), Blank(p), ~Converts(p),
               proc[p].pc \in {"store", "seal"}, job[p].cmd \in {"set", "run"}
        PROVE  Goal
    <2>1. Turn(p, "write", proc[p].then, proc[p].at, proc[p].base,
               [proc[p].text EXCEPT ![job[p].name] = [value |-> p, under |-> under]],
               proc[p].key, proc[p].cfg, proc[p].value)
      BY <1>t, <1>p, PutTextIs
    <2>2. Others /\ proc'[p].pc = "write" /\ Same(p)' = Same(p)
          /\ Lacks(p, ".env")' = Lacks(p, ".env") /\ Lacks(p, ".env.local")' = Lacks(p, ".env.local")
      BY <1>t, <2>1, Knows DEF Turn, Files
    <2>3. Filled(p)'
      <3>1. proc[p].base \in Content /\ job[p].name \in Names
        BY <1>t, <1>p DEF Process
      <3>2. proc'[p].text = [proc[p].base EXCEPT ![job[p].name] = [value |-> p, under |-> under]]
        BY <1>p, <2>1, <3>1 DEF Turn, Blank, Content
      <3> QED
        BY <1>t, <1>p, <2>1, <3>2 DEF Turn, Filled
    <2>4. Ready(p)'
      BY <1>t, <1>p, <2>3 DEF Ready
    <2> QED
      BY <1>t, <1>p, <2>2, <2>4 DEF Copies, Misses, Holding, Generates
  <1>8. CASE Store(p)
    <2>0. proc[p].pc = "store" /\ Blank(p) /\ ~Converts(p) /\ job[p].cmd \in {"set", "run"}
      BY <1>t, <1>8 DEF Store, Copies, Converts
    <2>1. CASE WithKey(p, "seal")
      <3>1. \E pc \in {"seal", "ask"}, then \in {"begin", "open", "seal"} :
              /\ pc = "ask" => then = "seal"
              /\ Turn(p, pc, then, proc[p].at, proc[p].base, proc[p].text,
                      proc[p].key, proc[p].cfg, proc[p].value)
        BY <1>t, <2>1, WithKeyIs DEF Moves, Process
      <3>2. PICK pc \in {"seal", "ask"}, then \in {"begin", "open", "seal"} :
              /\ pc = "ask" => then = "seal"
              /\ Turn(p, pc, then, proc[p].at, proc[p].base, proc[p].text,
                      proc[p].key, proc[p].cfg, proc[p].value)
        BY <3>1
      <3>3. pc \in Labels /\ proc[p].cfg \in BOOLEAN
        BY <1>t DEF Process, Labels
      <3>4. /\ Others /\ proc'[p].pc = pc /\ proc'[p].then = then
            /\ Same(p)' = Same(p) /\ Blank(p)' = Blank(p)
            /\ Lacks(p, ".env")' = Lacks(p, ".env") /\ Lacks(p, ".env.local")' = Lacks(p, ".env.local")
        BY <1>0, <1>k, <3>2, <3>3
      <3>5. ~Needs(p, "open")'
        BY <3>2, <3>4
      <3> QED
        BY <1>t, <2>0, <3>2, <3>4, <3>5 DEF Copies, Misses, Holding, Generates
    <2>2. CASE PutText(p, Plain)
      BY <1>p, <2>0, <2>2
    <2> QED
      BY <1>8, <2>1, <2>2 DEF Store
  <1>9. CASE Seal(p)
    <2>0. proc[p].pc = "seal" /\ Blank(p) /\ ~Converts(p) /\ job[p].cmd \in {"set", "run"}
      BY <1>t, <1>9 DEF Seal, Copies, Converts
    <2>1. PutText(p, IF proc[p].key = NoKey THEN Plain ELSE proc[p].key)
      BY <1>9 DEF Seal
    <2> QED
      BY <1>k, <1>p, <2>0, <2>1
  <1>10. CASE Convert(p)
    <2>0. proc[p].pc = "convert" /\ Converts(p) /\ job'[p].cmd # "run" /\ job'[p].cmd \notin {"unset", "set"}
      BY <1>t, <1>10 DEF Convert, Converts
    <2>1. CASE Moves(p, "failed")
      BY <1>m, <1>i, <2>1 DEF Labels
    <2>2. CASE NextFile(p, proc[p])
      <3>1. Others /\ proc'[p].pc \in {"layer", "load"}
        BY <1>t, <2>2, NextFileIs DEF Turn, Moves
      <3> QED
        BY <2>0, <3>1 DEF Copies, Misses, Holding
    <2>3. CASE Turn(p, "write", proc[p].then, proc[p].at, proc[p].base, Converted(p),
                    proc[p].key, proc[p].cfg, proc[p].value)
      <3>1. Others /\ proc'[p].pc = "write" /\ Same(p)' = Same(p) /\ proc'[p].text = Converted(p)'
        BY <1>t, <2>3, Knows DEF Turn
      <3>2. Ready(p)'
        BY <2>0, <3>1 DEF Ready
      <3> QED
        BY <1>t, <2>0, <3>1, <3>2 DEF Copies, Misses, Holding
    <2> QED
      BY <1>t, <1>10, <2>0, <2>1, <2>2, <2>3, ConvertIs
  <1>11. CASE LoadConfig(p)
    <2>1. Others /\ proc'[p].pc \in {"done", "truncate"}
      BY <1>t, <1>11, LoadConfigIs DEF Turn, Moves
    <2> QED
      BY <1>i, <2>1
  <1>12. CASE DiskRefuses(p) \/ Crash(p)
    <2>1. Moves(p, "failed")
      BY <1>t, <1>12, GotoIs DEF DiskRefuses, Crash, Fail, Labels
    <2> QED
      BY <1>m, <1>i, <2>1 DEF Labels
  <1> QED
    BY <1>1, <1>2, <1>3, <1>4, <1>5, <1>6, <1>7, <1>8, <1>9, <1>10, <1>11, <1>12 DEF Quiet

\* The steps that change a file, a key or the setting.
LEMMA SharedCopies ==
  ASSUME CopyInv, NEW p \in Processes, TypeInv',
         MakeInKeychain(p) \/ MakeKeyFile(p) \/ Write(p) \/ Truncate(p) \/ Save(p)
  PROVE  CopyInv'
  <1>t. /\ TypeOK /\ Steps(p) /\ job' = job /\ overtaken \subseteq overtaken'
        /\ Converts(p)' = Converts(p) /\ p \in KeyIds \cup {NoKey}
        /\ proc[p].key \in KeyIds \cup {NoKey}
    BY DEF CopyInv, TypeInv, TypeOK, Process, KeyIds, MakeInKeychain, MakeKeyFile, Write, Truncate, Save,
       history, Converts, Overtake
  <1>o. files' = files \/ \A q \in Processes \ {p} : Active(q) => q \in overtaken'
    BY DEF MakeInKeychain, MakeKeyFile, Write, Truncate, Save, Overtake
  <1> DEFINE Others == \A q \in Processes \ {p} : proc'[q] = proc[q]
             Goal == Others /\ Copies(p)' /\ Misses(p)'
  <1> SUFFICES Goal
    BY <1>t, <1>o, OtherCopies DEF CopyInv
  <1>1. CASE MakeInKeychain(p) \/ MakeKeyFile(p)
    <2>1. proc[p].pc \in Keying /\ files' = files
      BY <1>1 DEF MakeInKeychain, MakeKeyFile, Keying
    <2>2. CASE Found(p, p)
      <3>1. Turn(p, proc[p].then, proc[p].then, proc[p].at, proc[p].base, proc[p].text,
                 p, proc[p].cfg, proc[p].value)
        BY <1>t, <2>2, FoundIs
      <3> QED
        BY <1>t, <2>1, <3>1, KeyCopies DEF Turn
    <2>3. CASE Goto(p, "file")
      <3>1. Moves(p, "file")
        BY <1>t, <2>3, GotoIs DEF Labels
      <3> QED
        BY <1>t, <2>1, <3>1, KeyCopies DEF Moves, Turn, Keying
    <2> QED
      BY <1>1, <2>2, <2>3 DEF MakeInKeychain, MakeKeyFile
  <1>i. ASSUME NEW label \in {"load", "truncate", "save", "done", "failed"}, proc'[p].pc = label
        PROVE  Copies(p)' /\ Misses(p)'
    BY <1>i DEF Copies, Misses, Holding, Generates, Needs, Keying
  <1>2. CASE Write(p)
    <2>1. CASE Converts(p) /\ NextFile(p, proc[p])
      <3>1. Others /\ proc'[p].pc \in {"layer", "load"}
        BY <1>t, <2>1, NextFileIs DEF Turn, Moves
      <3>2. job'[p].cmd # "run"
        BY <1>t, <2>1 DEF Converts
      <3> QED
        BY <3>1, <3>2 DEF Copies, Misses, Holding, Needs, Keying
    <2>2. CASE ~(Converts(p) /\ NextFile(p, proc[p]))
      <3>1. Others /\ proc'[p].pc \in {"done", "load"}
        BY <1>t, <1>2, <2>2, WriteIs DEF Turn, Moves
      <3> QED
        BY <1>i, <3>1
    <2> QED
      BY <2>1, <2>2
  <1>3. CASE Truncate(p) \/ Save(p)
    <2>1. Others /\ proc'[p].pc \in {"save", "done"}
      BY <1>t, <1>3, GotoIs DEF Truncate, Save, Labels, Moves, Turn
    <2> QED
      BY <1>i, <2>1
  <1> QED
    BY <1>1, <1>2, <1>3

LEMMA CopyNext == CopyInv /\ [Next]_vars => CopyInv'
  <1> SUFFICES ASSUME CopyInv, [Next]_vars PROVE CopyInv'
    OBVIOUS
  <1>t. TypeInv'
    BY TypeNext DEF CopyInv
  <1>1. CASE UNCHANGED vars
    <2>1. ASSUME NEW q \in Processes PROVE Copies(q)' /\ Misses(q)'
      BY <1>1, OtherCopies DEF vars, shared, history
    <2> QED
      BY <1>t, <2>1 DEF CopyInv
  <1>2. ASSUME NEW p \in Processes, Proceed(p) \/ DiskRefuses(p) \/ Crash(p) PROVE CopyInv'
    BY <1>2, <1>t, QuietCopies, SharedCopies DEF Proceed, Quiet
  <1> QED
    BY <1>1, <1>2 DEF Next

-----------------------------------------------------------------------------
(* The refinement of ValueStore.                                           *)

\* What a file with this content says.
Say(content) == [n \in Names |-> IF content[n] = Absent THEN Absent ELSE content[n].value]

LEMMA Sayings ==
  ASSUME NEW base \in Content
  PROVE  /\ Say(base) \in [Names -> Sources \cup {Absent}]
         /\ \A n \in Names : Say(base)[n] = Absent <=> base[n] = Absent
         /\ \A key \in KeyIds : Say(EncryptAll(base, key)) = Say(base)
         /\ Say(DecryptAll(base)) = Say(base)
         /\ \A n \in Names : Say([base EXCEPT ![n] = Absent]) = [Say(base) EXCEPT ![n] = Absent]
         /\ \A n \in Names, v \in Sources, u \in KeyIds \cup {Plain} :
              Say([base EXCEPT ![n] = [value |-> v, under |-> u]]) = [Say(base) EXCEPT ![n] = v]
  <1>1. \A n \in Names : base[n] # Absent => base[n] \in Text /\ base[n].value \in Sources
    BY Texts DEF Content
  <1>2. Say(base) \in [Names -> Sources \cup {Absent}] /\ \A n \in Names : Say(base)[n] = Absent <=> base[n] = Absent
    BY <1>1, EmptyAssumption DEF Say
  <1>u. \A t \in Text, u \in KeyIds \cup {Plain} :
          [t EXCEPT !.under = u].value = t.value /\ [t EXCEPT !.under = u] # Absent
    BY Texts DEF Text
  <1>3. ASSUME NEW key \in KeyIds PROVE Say(EncryptAll(base, key)) = Say(base)
    <2>1. ASSUME NEW n \in Names PROVE Say(EncryptAll(base, key))[n] = Say(base)[n]
      <3>1. EncryptAll(base, key)[n] \in {base[n], [base[n] EXCEPT !.under = key]}
            /\ (base[n] = Absent => EncryptAll(base, key)[n] = Absent)
        BY DEF EncryptAll
      <3> QED
        BY <1>1, <1>u, <3>1 DEF Say
    <2> QED
      BY <2>1 DEF Say
  <1>4. Say(DecryptAll(base)) = Say(base)
    <2>1. ASSUME NEW n \in Names PROVE Say(DecryptAll(base))[n] = Say(base)[n]
      <3>1. DecryptAll(base)[n] \in {base[n], [base[n] EXCEPT !.under = Plain]}
            /\ (base[n] = Absent => DecryptAll(base)[n] = Absent)
        BY DEF DecryptAll, Encrypted
      <3> QED
        BY <1>1, <1>u, <3>1 DEF Say
    <2> QED
      BY <2>1 DEF Say
  <1>5. ASSUME NEW n \in Names PROVE Say([base EXCEPT ![n] = Absent]) = [Say(base) EXCEPT ![n] = Absent]
    BY DEF Say, Content
  <1>6. ASSUME NEW n \in Names, NEW v \in Sources, NEW u \in KeyIds \cup {Plain}
        PROVE  Say([base EXCEPT ![n] = [value |-> v, under |-> u]]) = [Say(base) EXCEPT ![n] = v]
    <2> DEFINE t == [value |-> v, under |-> u]
    <2>1. t # Absent /\ t.value = v
      BY Texts
    <2> HIDE DEF t
    <2>2. Say([base EXCEPT ![n] = t]) = [Say(base) EXCEPT ![n] = v]
      BY <2>1 DEF Say, Content
    <2> QED
      BY <2>2 DEF t
  <1> QED
    BY <1>2, <1>3, <1>4, <1>5, <1>6

LEMMA AllSaid ==
  ASSUME NEW contents \in [Files -> Content]
  PROVE  /\ [f \in Files |-> [n \in Names |->
               IF contents[f][n] = Absent THEN Absent ELSE contents[f][n].value]]
               = [f \in Files |-> Say(contents[f])]
         /\ [f \in Files |-> Say(contents[f])] \in Promise!Stores
  BY Sayings DEF Say, Promise!Stores, Promise!Files, Files

LEMMA SaidIs ==
  ASSUME TypeOK
  PROVE  Said = [f \in Files |-> Say(files[f])] /\ Said \in Promise!Stores
  BY AllSaid DEF Said, TypeOK

\* A write nobody came between is of what the file still is.
LEMMA WritesFromTheFile ==
  ASSUME CopyInv, NEW p \in Processes, Write(p), ~raced'
  PROVE  /\ Same(p) /\ Ready(p) /\ p \notin wrote
         /\ job[p].cmd = "run" => Lacks(p, ".env") /\ Lacks(p, ".env.local")
  <1>1. Copies(p) /\ Misses(p) /\ Steps(p) /\ proc[p].pc = "write"
    BY DEF CopyInv, TypeInv, Write
  <1>2. CASE p \notin overtaken
    BY <1>1, <1>2 DEF Copies, Misses, Holding, Generates, Steps
  <1>3. CASE ~Stale(p)
    BY <1>1, <1>3 DEF Copies, Stale, Same, Steps, Lacks, Files
  <1> QED
    BY <1>2, <1>3 DEF Write

LEMMA InitSaid == Init => Promise!Init
  <1> SUFFICES ASSUME Init PROVE Promise!Init
    OBVIOUS
  <1>1. TypeOK
    BY InitTyped DEF TypeInv
  <1>2. Jobs \subseteq Promise!Jobs
    BY ValueAssumption DEF Jobs, Promise!Jobs
  <1> QED
    BY <1>1, <1>2, SaidIs DEF Init, Promise!Init

\* One write is one step of the store, or none.
LEMMA WriteSaid ==
  ASSUME CopyInv, TypeInv', NEW p \in Processes, Write(p)
  PROVE  \/ raced' /\ Promise!Race
         \/ ~raced' /\ Converts(p) /\ UNCHANGED Promise!vars
         \/ ~raced' /\ (Promise!Set(p) \/ Promise!Unset(p) \/ Promise!Generate(p))
  <1>t. /\ TypeOK /\ TypeOK' /\ job' = job /\ proc[p].pc = "write" /\ Steps(p)
        /\ proc[p] \in Process /\ files \in [Files -> Content] /\ proc[p].base \in Content
        /\ Target(p) \in Files
        /\ ~Converts(p) => job[p].name \in Names /\ job[p].cmd \in {"set", "unset", "run"}
    BY JobTyped DEF CopyInv, TypeInv, TypeOK, Process, Write
  <1>1. CASE raced'
    BY <1>1, <1>t, AllSaid DEF Promise!Race, TypeOK, Said
  <1>2. CASE ~raced'
    <2>1. /\ proc[p].base = files[Target(p)] /\ Ready(p) /\ p \notin wrote /\ raced' = raced
          /\ job[p].cmd = "run" => Lacks(p, ".env") /\ Lacks(p, ".env.local")
      BY <1>2, WritesFromTheFile DEF Same, Write, CopyInv, TypeInv, TypeOK
    <2>2. Said = [f \in Files |-> Say(files[f])] /\ Said' = [f \in Files |-> Say(files'[f])]
      BY <1>t, AllSaid DEF Said, TypeOK
    <2>3. Said' = [Said EXCEPT ![Target(p)] = Say(proc[p].text)]
      BY <1>t, <2>2 DEF Write, Written
    <2>4. Said[Target(p)] = Say(proc[p].base)
      BY <1>t, <2>1, <2>2
    <2>5. CASE Converts(p)
      <3>1. Say(proc[p].text) = Say(proc[p].base)
        BY <1>t, <2>1, <2>5, Sayings DEF Ready, Converted, Steps, Process
      <3>2. Said' = Said
        BY <2>2, <2>3, <2>4, <3>1
      <3> QED
        BY <1>t, <1>2, <2>1, <2>5, <3>2 DEF Write, Promise!vars
    <2>6. CASE job[p].cmd = "unset"
      <3>1. /\ Say(proc[p].text) = [Say(proc[p].base) EXCEPT ![job[p].name] = Absent]
            /\ Say(proc[p].base)[job[p].name] # Absent /\ Target(p) = ".env"
        BY <1>t, <2>1, <2>6, Sayings DEF Ready, Blank, Held, Target, Converts
      <3>2. Said' = [Said EXCEPT ![".env"][job[p].name] = Absent]
        BY <1>t, <2>2, <2>3, <2>4, <3>1
      <3>3. Promise!Unset(p)
        BY <1>t, <2>1, <2>4, <2>6, <3>1, <3>2 DEF Promise!Unset, Promise!Change, Write, Converts
      <3> QED
        BY <1>2, <3>3
    <2>7. CASE job[p].cmd \in {"set", "run"}
      <3>1. PICK under \in KeyIds \cup {Plain} :
              proc[p].text = [proc[p].base EXCEPT ![job[p].name] = [value |-> p, under |-> under]]
        BY <2>1, <2>7 DEF Ready, Filled
      <3>2. Say(proc[p].text) = [Say(proc[p].base) EXCEPT ![job[p].name] = p]
        <4>1. p \in Sources /\ job[p].name \in Names /\ proc[p].base \in Content
          BY <1>t, <2>7 DEF Sources, Converts
        <4>2. Say([proc[p].base EXCEPT ![job[p].name] = [value |-> p, under |-> under]])
                = [Say(proc[p].base) EXCEPT ![job[p].name] = p]
          <5> DEFINE base == proc[p].base
          <5>1. base \in Content
            BY <4>1
          <5> HIDE DEF base
          <5>2. \A n \in Names, v \in Sources, u \in KeyIds \cup {Plain} :
                  Say([base EXCEPT ![n] = [value |-> v, under |-> u]]) = [Say(base) EXCEPT ![n] = v]
            BY <5>1, Sayings
          <5>3. Say([base EXCEPT ![job[p].name] = [value |-> p, under |-> under]])
                  = [Say(base) EXCEPT ![job[p].name] = p]
            BY <4>1, <5>2
          <5> QED
            BY <5>3 DEF base
        <4> QED
          BY <3>1, <4>2
      <3>3. Said' = [Said EXCEPT ![Target(p)][job[p].name] = p]
        BY <1>t, <2>2, <2>3, <2>4, <3>2
      <3>4. CASE job[p].cmd = "set"
        <4>1. Promise!Set(p)
          BY <1>t, <2>1, <3>3, <3>4 DEF Promise!Set, Promise!Change, Write, Converts, Target
        <4> QED
          BY <1>2, <4>1
      <3>5. CASE job[p].cmd = "run"
        <4>1. \A f \in Promise!Files : Said[f][job[p].name] = Absent
          BY <1>t, <2>1, <2>2, <3>5, Sayings DEF Promise!Files, Files, Lacks, Converts
        <4>2. Promise!Generate(p)
          BY <1>t, <2>1, <3>3, <3>5, <4>1 DEF Promise!Generate, Promise!Change, Write, Converts, Target
        <4> QED
          BY <1>2, <4>2
      <3> QED
        BY <2>7, <3>4, <3>5
    <2> QED
      BY <1>t, <2>5, <2>6, <2>7
  <1> QED
    BY <1>1, <1>2

LEMMA NextSaid == CopyInv /\ TypeInv' /\ [Next]_vars => [Promise!Next]_Promise!vars
  <1> SUFFICES ASSUME CopyInv, TypeInv', [Next]_vars PROVE Promise!Next \/ UNCHANGED Promise!vars
    OBVIOUS
  <1>q. ASSUME UNCHANGED <<files, job, wrote, raced>> PROVE UNCHANGED Promise!vars
    BY <1>q DEF Said, Promise!vars
  <1>1. CASE UNCHANGED vars
    BY <1>1, <1>q DEF vars, shared, history
  <1>2. ASSUME NEW p \in Processes, Proceed(p) \/ DiskRefuses(p) \/ Crash(p)
        PROVE  Promise!Next \/ UNCHANGED Promise!vars
    <2>1. CASE Write(p)
      BY <2>1, WriteSaid DEF Promise!Next
    <2>2. CASE ~Write(p)
      <3>1. UNCHANGED <<files, job, wrote, raced>>
        BY <1>2, <2>2 DEF Proceed, Begin, BeginConverting, AskKeychain, MakeInKeychain, ReadKeyFile, MakeKeyFile,
           ReadLayer, OpenLayer, ReadFile, Store, Seal, Convert, LoadConfig, Truncate, Save, DiskRefuses, Crash,
           Fail, shared, history
      <3> QED
        BY <1>q, <3>1
    <2> QED
      BY <2>1, <2>2
  <1> QED
    BY <1>1, <1>2 DEF Next

\* Whatever the commands, keys and faults, a command changes what the files say once and
\* as its job says, a conversion changes nothing, and a value is lost only to a command
\* that was overtaken and wrote what was no longer so (set_local, unset_local, randoms,
\* crypt::run, localcrypt::stored).
THEOREM Implements == Spec => ImplementsStore
  <1>1. CopyInv => TypeInv
    BY DEF CopyInv
  <1> QED
    BY <1>1, InitCopies, CopyNext, InitSaid, NextSaid, PTL DEF Spec, ImplementsStore, Promise!Spec

-----------------------------------------------------------------------------
(* RunsAgree: what a file says of a key stays, once it says something.     *)

Says(f, n) == Said[f][n]

\* What a run, and only a run, has of its key, and what it is about to take from the layer it read, is
\* what that file still says.
Current(p) ==
  /\ proc[p].value # Absent =>
       job[p].cmd = "run" /\ \E f \in Files : proc[p].value = Says(f, job[p].name)
  /\ job[p].cmd = "run" /\ Needs(p, "open") /\ proc[p].base[job[p].name] # Absent =>
       proc[p].base[job[p].name].value = Says(Cascade[proc[p].at], job[p].name)

Agreed ==
  /\ \A n \in Names : Says(".env", n) = Absent \/ Says(".env.local", n) = Absent
  /\ \A p \in Processes : Current(p)

AgreeInv == NobodyEdits => raced \/ Agreed

LEMMA SaysIs ==
  ASSUME TypeOK, NEW f \in Files, NEW n \in Names
  PROVE  /\ files[f][n] = Absent => Says(f, n) = Absent
         /\ files[f][n] # Absent => Says(f, n) = files[f][n].value /\ Says(f, n) # Absent
  <1>1. files[f][n] # Absent => files[f][n] \in Text
    BY DEF TypeOK, Content
  <1> QED
    BY <1>1, Texts, EmptyAssumption DEF Says, Said

LEMMA InitAgreed == Init => Agreed
  <1> SUFFICES ASSUME Init PROVE Agreed
    OBVIOUS
  <1>1. \A n \in Names : files[".env.local"][n] = Absent
    BY DEF Init, Files
  <1>2. \E given \in SUBSET Given :
          proc = [p \in Processes |->
            [pc |-> "idle", then |-> "begin", at |-> 1, base |-> Nothing, text |-> Nothing,
             key |-> IF p \in given THEN GivenKey ELSE NoKey, cfg |-> FALSE, value |-> Absent]]
    BY DEF Init
  <1>3. ASSUME NEW p \in Processes PROVE Current(p)
    <2>1. proc[p].pc = "idle" /\ proc[p].value = Absent
      BY <1>2
    <2> QED
      BY <2>1 DEF Current, Needs, Keying
  <1>4. \A n \in Names : Says(".env.local", n) = Absent
    BY <1>1 DEF Says, Said, Files
  <1> QED
    BY <1>3, <1>4 DEF Agreed

\* While nobody writes, what a command took or read stays current.
LEMMA StaysCurrent ==
  ASSUME NEW q \in Processes, Current(q), TypeOK, job' = job,
         \A f \in Files, n \in Names : Says(f, n) # Absent => Says(f, n)' = Says(f, n),
         proc'[q].value = proc[q].value,
         Needs(q, "open")' => Needs(q, "open") /\ proc'[q].base = proc[q].base /\ proc'[q].at = proc[q].at,
         proc[q].base \in Content
  PROVE  Current(q)'
  <1>0. CASE job[q].cmd # "run"
    BY <1>0 DEF Current
  <1> SUFFICES ASSUME job[q].cmd = "run" PROVE Current(q)'
    BY <1>0
  <1>1. job[q].name \in Names /\ Cascade[proc[q].at] \in Files
    BY JobTyped DEF Converts
  <1>2. proc[q].value # Absent => \E f \in Files : proc[q].value = Says(f, job[q].name)'
    BY <1>1 DEF Current
  <1>3. ASSUME Needs(q, "open"), proc[q].base[job[q].name] # Absent
        PROVE  \E f \in Files : /\ f = Cascade[proc[q].at]
                                /\ proc[q].base[job[q].name].value = Says(f, job[q].name)'
    <2>1. proc[q].base[job[q].name].value # Absent
      BY <1>1, <1>3, Texts, EmptyAssumption DEF Content
    <2>2. proc[q].base[job[q].name].value = Says(Cascade[proc[q].at], job[q].name)
      BY <1>3 DEF Current
    <2>3. \A f \in Files : Says(f, job[q].name) # Absent => Says(f, job[q].name)' = Says(f, job[q].name)
      BY <1>1
    <2>4. ASSUME NEW f \in Files, f = Cascade[proc[q].at]
          PROVE  proc[q].base[job[q].name].value = Says(f, job[q].name)'
      BY <2>1, <2>2, <2>3, <2>4
    <2>5. PICK f \in Files : f = Cascade[proc[q].at]
      BY <1>1
    <2> QED
      BY <2>4, <2>5
  <1>4. Needs(q, "open")' /\ proc'[q].base[job'[q].name] # Absent =>
          proc'[q].base[job'[q].name].value = Says(Cascade[proc[q].at], job[q].name)'
    BY <1>3
  <1> QED
    BY <1>2, <1>4 DEF Current

\* Without edits, what a file says of a key is said for good, and by one file.
LEMMA Steady ==
  ASSUME CopyInv, TypeInv', Agreed, NobodyEdits, ~raced', NEW p \in Processes,
         Write(p) \/ files' = files
  PROVE  /\ \A f \in Files, n \in Names : Says(f, n) # Absent => Says(f, n)' = Says(f, n)
         /\ \A n \in Names : Says(".env", n)' = Absent \/ Says(".env.local", n)' = Absent
         /\ Write(p) => Converts(p) \/ Says(".env.local", job[p].name)' = p
  <1>t. TypeOK /\ Said \in Promise!Stores /\ (~Converts(p) => job[p].name \in Names)
    BY SaidIs, JobTyped DEF CopyInv, TypeInv
  <1>1. CASE Said' = Said /\ ~(Write(p) /\ ~Converts(p))
    BY <1>1 DEF Says, Agreed
  <1>2. CASE Promise!Generate(p)
    <2>1. /\ \A f \in Files : Said[f][job[p].name] = Absent
          /\ Said' = [Said EXCEPT ![".env.local"][job[p].name] = p] /\ job[p].cmd = "run"
      BY <1>2 DEF Promise!Generate, Promise!Change, Promise!Files, Files
    <2>2. job[p].name \in Names
      BY <1>t, <2>1 DEF Converts
    <2>3. ASSUME NEW f \in Files, NEW n \in Names
          PROVE  Said'[f][n] = IF f = ".env.local" /\ n = job[p].name THEN p ELSE Said[f][n]
      BY <1>t, <2>1 DEF Promise!Stores, Promise!Files, Files
    <2>4. \A f \in Files, n \in Names : Says(f, n) # Absent => Says(f, n)' = Says(f, n)
      BY <2>1, <2>2, <2>3 DEF Says
    <2>5. \A n \in Names : Says(".env", n)' = Absent \/ Says(".env.local", n)' = Absent
      BY <2>1, <2>2, <2>3 DEF Says, Agreed, Files
    <2>6. Said'[".env.local"][job[p].name] = p /\ job' = job
      BY <1>2, <2>2, <2>3 DEF Files, Promise!Generate, Promise!Change
    <2> QED
      BY <2>4, <2>5, <2>6 DEF Says
  <1>3. CASE Write(p)
    <2>1. ~Promise!Set(p) /\ ~Promise!Unset(p)
      BY DEF NobodyEdits, Promise!Set, Promise!Unset
    <2> QED
      BY <1>1, <1>2, <1>3, <2>1, WriteSaid DEF Promise!vars
  <1> QED
    BY <1>1, <1>3 DEF Said

LEMMA AgreeNext ==
  ASSUME CopyInv, TypeInv', AgreeInv, NEW p \in Processes, Proceed(p) \/ DiskRefuses(p) \/ Crash(p)
  PROVE  AgreeInv'
  <1>j. job' = job /\ (raced => raced')
    <2>1. job' = job /\ (Write(p) \/ UNCHANGED raced)
      BY DEF Proceed, Begin, BeginConverting, AskKeychain, MakeInKeychain, ReadKeyFile, MakeKeyFile,
         ReadLayer, OpenLayer, ReadFile, Store, Seal, Convert, Write, LoadConfig, Truncate, Save,
         DiskRefuses, Crash, Fail, shared, history
    <2>2. Write(p) => raced' = (raced \/ (p \in overtaken /\ Stale(p)))
      BY DEF Write
    <2> QED
      BY <2>1, <2>2 DEF CopyInv, TypeInv, TypeOK
  <1> SUFFICES ASSUME NobodyEdits, ~raced' PROVE Agreed'
    BY <1>j DEF AgreeInv, NobodyEdits
  <1>a. Agreed
    BY <1>j DEF AgreeInv
  <1>t. /\ TypeOK /\ Steps(p) /\ proc[p] \in Process
        /\ \A q \in Processes : proc[q].base \in Content
        /\ ~Converts(p) => job[p].name \in Names /\ job[p].cmd \in {"set", "unset", "run"}
        /\ keychain \in KeyIds \cup {NoKey} /\ keyFile \in KeyIds \cup {NoKey} /\ proc[p].key \in KeyIds \cup {NoKey}
        /\ p \in KeyIds \cup {NoKey}
    BY JobTyped DEF CopyInv, TypeInv, TypeOK, Process, KeyIds
  <1>f. Write(p) \/ files' = files
    BY DEF Proceed, Begin, BeginConverting, AskKeychain, MakeInKeychain, ReadKeyFile, MakeKeyFile,
       ReadLayer, OpenLayer, ReadFile, Store, Seal, Convert, Write, LoadConfig, Truncate, Save,
       DiskRefuses, Crash, Fail, shared, history
  <1>s. /\ \A f \in Files, n \in Names : Says(f, n) # Absent => Says(f, n)' = Says(f, n)
        /\ \A n \in Names : Says(".env", n)' = Absent \/ Says(".env.local", n)' = Absent
        /\ Write(p) => Converts(p) \/ Says(".env.local", job[p].name)' = p
    BY <1>a, <1>f, Steady
  <1> DEFINE Others == \A q \in Processes \ {p} : proc'[q] = proc[q]
             Calmly == /\ Others /\ proc'[p].value = proc[p].value
                       /\ Needs(p, "open")' =>
                            Needs(p, "open") /\ proc'[p].base = proc[p].base /\ proc'[p].at = proc[p].at
  <1> SUFFICES Others /\ Current(p)'
    <2>1. ASSUME NEW q \in Processes, q # p PROVE Current(q)'
      <3>1. proc'[q] = proc[q]
        BY <2>1
      <3> QED
        BY <1>a, <1>j, <1>t, <1>s, <3>1, StaysCurrent DEF Agreed, Needs
    <2> QED
      BY <1>s, <2>1 DEF Agreed
  <1>c. ASSUME Calmly PROVE Current(p)'
    BY <1>a, <1>j, <1>t, <1>s, <1>c, StaysCurrent DEF Agreed
  <1>m. ASSUME NEW label \in Labels, Moves(p, label), label # "open", label \in Keying => proc[p].pc \in Keying
        PROVE  Calmly
    BY <1>m DEF Moves, Turn, Needs
  <1>g. ASSUME NEW label \in Labels, Goto(p, label), label # "open", label \in Keying => proc[p].pc \in Keying
        PROVE  Calmly
    BY <1>t, <1>g, <1>m, GotoIs
  <1>d. ASSUME NEW key \in KeyIds \cup {NoKey}, Found(p, key), proc[p].pc \in Keying PROVE Calmly
    BY <1>t, <1>d, FoundIs DEF Turn, Needs, Keying
  <1>w. ASSUME NEW label \in {"begin", "seal"}, WithKey(p, label) PROVE Calmly
    BY <1>t, <1>w, WithKeyIs DEF Moves, Turn, Needs, Keying
  <1>p. ASSUME NEW under \in KeyIds \cup {Plain}, PutText(p, under), ~Converts(p) PROVE Calmly
    BY <1>t, <1>p, PutTextIs DEF Turn, Needs, Keying
  <1>n. ASSUME NextFile(p, proc[p]) PROVE Calmly
    BY <1>t, <1>n, NextFileIs DEF Moves, Turn, Needs, Keying
  <1>1. CASE Begin(p) \/ BeginConverting(p)
    <2>1. \/ WithKey(p, "begin") \/ Goto(p, "layer") \/ Goto(p, "read") \/ Goto(p, "failed")
      BY <1>1 DEF Begin, BeginConverting, Converts
    <2> QED
      BY <1>c, <1>g, <1>w, <2>1 DEF Labels, Keying
  <1>2. CASE AskKeychain(p) \/ MakeInKeychain(p) \/ ReadKeyFile(p) \/ MakeKeyFile(p)
    <2>1. /\ proc[p].pc \in Keying
          /\ \/ \E key \in KeyIds \cup {NoKey} : Found(p, key)
             \/ \E label \in Keying : Goto(p, label)
      BY <1>t, <1>2 DEF AskKeychain, MakeInKeychain, ReadKeyFile, MakeKeyFile, Keying
    <2> QED
      BY <1>c, <1>d, <1>g, <2>1 DEF Labels, Keying
  <1>3. CASE ReadLayer(p)
    <2>1. PICK then \in {"begin", "open", "seal"}, pc \in {"ask", "convert", "open"} :
            Turn(p, pc, then, proc[p].at, files[Cascade[proc[p].at]], proc[p].text,
                 proc[p].key, proc[p].cfg, proc[p].value)
      BY <1>t, <1>3, ReadLayerIs
    <2>2. /\ Others /\ proc'[p].value = proc[p].value /\ proc'[p].at = proc[p].at
          /\ proc'[p].base = files[Cascade[proc[p].at]] /\ files' = files
      BY <1>3, <2>1 DEF Turn, ReadLayer, shared
    <2>3. Says(Cascade[proc[p].at], job[p].name)' = Says(Cascade[proc[p].at], job[p].name)
          /\ \A f \in Files : Says(f, job[p].name)' = Says(f, job[p].name)
      BY <1>j, <2>2 DEF Says, Said
    <2>4. job[p].cmd = "run" => Cascade[proc[p].at] \in Files /\ job[p].name \in Names
      BY <1>t, JobTyped DEF Converts
    <2>5. job[p].cmd = "run" /\ files[Cascade[proc[p].at]][job[p].name] # Absent =>
            files[Cascade[proc[p].at]][job[p].name].value = Says(Cascade[proc[p].at], job[p].name)
      BY <1>t, <2>4, SaysIs
    <2> QED
      BY <1>a, <1>j, <2>2, <2>3, <2>5 DEF Agreed, Current
  <1>4. CASE OpenLayer(p)
    <2>1. proc[p].pc = "open" /\ job[p].cmd = "run"
      BY <1>t, <1>4 DEF OpenLayer, Steps, Needs
    <2>2. /\ Others /\ proc'[p].value \in {Opened(p), proc[p].value}
          /\ proc'[p].pc \in {"failed", "layer", "read", "done"} /\ files' = files
      BY <1>t, <1>4, <2>1, OpenLayerIs DEF Moves, Turn, OpenLayer, shared
    <2>3. \A f \in Files : Says(f, job[p].name)' = Says(f, job[p].name)
      BY <1>j, <2>2 DEF Says, Said
    <2>4. Cascade[proc[p].at] \in Files
      BY <1>t, JobTyped
    <2>5. Opened(p) # Absent => \E f \in Files : Opened(p) = Says(f, job[p].name)
      BY <1>a, <2>1, <2>4 DEF Agreed, Current, Opened, Needs
    <2>6. ~Needs(p, "open")'
      BY <2>2 DEF Needs, Keying
    <2> QED
      BY <1>a, <1>j, <2>1, <2>2, <2>3, <2>5, <2>6 DEF Agreed, Current
  <1>5. CASE ReadFile(p)
    <2>1. ~Converts(p)
      BY <1>t, <1>5 DEF ReadFile, Steps
    <2>2. Calmly
      BY <1>t, <1>5, <2>1, ReadFileIs DEF Turn, Needs, Keying
    <2> QED
      BY <1>c, <2>2
  <1>6. CASE Store(p) \/ Seal(p)
    <2>1. ~Converts(p)
      BY <1>t, <1>6 DEF Store, Seal, Steps, Needs, Converts
    <2>2. WithKey(p, "seal") \/ \E under \in KeyIds \cup {Plain} : PutText(p, under)
      BY <1>t, <1>6 DEF Store, Seal
    <2> QED
      BY <1>c, <1>p, <1>w, <2>1, <2>2
  <1>7. CASE Convert(p)
    <2>1. proc[p].key # NoKey
      BY <1>t, <1>7 DEF Convert, Steps
    <2>2. CASE Moves(p, "failed")
      BY <1>c, <1>m, <2>2 DEF Labels, Keying
    <2>3. CASE NextFile(p, proc[p])
      BY <1>c, <1>n, <2>3
    <2>4. CASE Turn(p, "write", proc[p].then, proc[p].at, proc[p].base, Converted(p),
                    proc[p].key, proc[p].cfg, proc[p].value)
      BY <1>c, <2>4 DEF Turn, Needs, Keying
    <2> QED
      BY <1>t, <1>7, <2>1, <2>2, <2>3, <2>4, ConvertIs
  <1>8. CASE Write(p)
    <2>1. CASE Converts(p)
      <3>1. Calmly
        BY <1>t, <1>8, <1>n, <2>1, WriteIs DEF Converts
      <3> QED
        BY <1>c, <3>1
    <2>2. CASE job[p].cmd = "run"
      <3>1. Others /\ proc'[p].pc = "done" /\ proc'[p].value = p
        BY <1>t, <1>8, <2>2, WriteIs DEF Turn, Converts
      <3>2. Says(".env.local", job[p].name)' = p
        BY <1>s, <1>8, <2>2 DEF Converts
      <3> QED
        <4>1. /\ job'[p].cmd = "run" /\ ".env.local" \in Files /\ ~Needs(p, "open")'
              /\ proc'[p].value = Says(".env.local", job[p].name)'
          BY <1>j, <2>2, <3>1, <3>2 DEF Needs, Keying, Files
        <4> QED
          BY <3>1, <4>1 DEF Current
    <2> QED
      BY <1>t, <2>1, <2>2 DEF NobodyEdits
  <1>9. CASE LoadConfig(p)
    <2>1. Calmly
      BY <1>t, <1>9, LoadConfigIs DEF Moves, Turn, Needs, Keying
    <2> QED
      BY <1>c, <2>1
  <1>10. CASE Truncate(p) \/ Save(p) \/ DiskRefuses(p) \/ Crash(p)
    <2>1. Goto(p, "save") \/ Goto(p, "done") \/ Goto(p, "failed")
      BY <1>10 DEF Truncate, Save, DiskRefuses, Crash, Fail
    <2> QED
      BY <1>c, <1>g, <2>1 DEF Labels, Keying
  <1> QED
    BY <1>1, <1>2, <1>3, <1>4, <1>5, <1>6, <1>7, <1>8, <1>9, <1>10 DEF Proceed

\* Two runs that end with a value of a key have the same one, unless one wrote what was
\* no longer so: what a run generated is what later runs read (source.rs:782).
THEOREM Agreement == Spec => []RunsAgree
  <1>1. Init => CopyInv /\ AgreeInv
    BY InitCopies, InitAgreed DEF AgreeInv
  <1>2. CopyInv /\ AgreeInv /\ [Next]_vars => (CopyInv /\ AgreeInv)'
    <2> SUFFICES ASSUME CopyInv, AgreeInv, [Next]_vars PROVE AgreeInv'
      BY CopyNext
    <2>t. TypeInv'
      BY CopyNext DEF CopyInv
    <2>1. CASE UNCHANGED vars
      <3>1. UNCHANGED <<files, job, proc, raced>>
        BY <2>1 DEF vars, shared, history
      <3> QED
        BY <3>1 DEF AgreeInv, Agreed, Current, Says, Said, Needs, NobodyEdits
    <2> QED
      BY <2>t, <2>1, AgreeNext DEF Next
  <1>3. CopyInv /\ AgreeInv => RunsAgree
    <2> SUFFICES ASSUME CopyInv, Agreed, NobodyEdits PROVE GeneratedOnce
      BY DEF AgreeInv, RunsAgree, GeneratedOnce
    <2>1. ASSUME NEW p \in Processes, proc[p].value # Absent
          PROVE  /\ job[p].name \in Names
                 /\ \/ proc[p].value = Says(".env", job[p].name)
                    \/ proc[p].value = Says(".env.local", job[p].name)
      BY <2>1, JobTyped DEF Agreed, Current, Files, CopyInv, TypeInv, Converts
    <2> QED
      BY <2>1 DEF GeneratedOnce, Agreed
  <1> QED
    BY <1>1, <1>2, <1>3, PTL DEF Spec

-----------------------------------------------------------------------------
(* EncryptionHolds, its keys: every ciphertext is under a key that is kept, *)
(* in the files and in what each command holds.                            *)

Kept == {keychain, keyFile, GivenKey} \cup passed

Under(content, keys) == \A n \in Encrypted(content) : content[n].under \in keys

LEMMA Unders ==
  ASSUME NEW base \in Content, NEW keys, Under(base, keys)
  PROVE  /\ \A n \in Names : Under([base EXCEPT ![n] = Absent], keys)
         /\ \A n \in Names, v \in Sources, u \in KeyIds \cup {Plain} :
              u \in keys \cup {Plain} => Under([base EXCEPT ![n] = [value |-> v, under |-> u]], keys)
         /\ \A key \in KeyIds : key \in keys => Under(EncryptAll(base, key), keys)
         /\ Under(DecryptAll(base), keys)
  <1>1. ASSUME NEW n \in Names PROVE Under([base EXCEPT ![n] = Absent], keys)
    BY DEF Under, Encrypted, Content
  <1>2. ASSUME NEW n \in Names, NEW v \in Sources, NEW u \in KeyIds \cup {Plain}, u \in keys \cup {Plain}
        PROVE  Under([base EXCEPT ![n] = [value |-> v, under |-> u]], keys)
    <2> DEFINE t == [value |-> v, under |-> u]
    <2>1. t.under = u
      OBVIOUS
    <2> HIDE DEF t
    <2>2. Under([base EXCEPT ![n] = t], keys)
      BY <1>2, <2>1 DEF Under, Encrypted, Content
    <2> QED
      BY <2>2 DEF t
  <1>3. ASSUME NEW key \in KeyIds, key \in keys PROVE Under(EncryptAll(base, key), keys)
    <2>1. ASSUME NEW n \in Encrypted(EncryptAll(base, key)) PROVE EncryptAll(base, key)[n].under \in keys
      <3>1. n \in Names /\ (base[n] # Absent => base[n] \in Text)
        BY DEF Encrypted, Content
      <3>2. CASE n \in Sensitive /\ base[n] # Absent /\ n \notin Encrypted(base)
        <4>1. EncryptAll(base, key)[n] = [base[n] EXCEPT !.under = key]
          BY <3>1, <3>2 DEF EncryptAll
        <4>2. [base[n] EXCEPT !.under = key].under = key
          BY <3>1, <3>2 DEF Text
        <4> QED
          BY <1>3, <4>1, <4>2
      <3>3. CASE ~(n \in Sensitive /\ base[n] # Absent /\ n \notin Encrypted(base))
        <4>1. EncryptAll(base, key)[n] = base[n]
          BY <3>1, <3>3 DEF EncryptAll
        <4>2. n \in Encrypted(base)
          BY <2>1, <3>1, <4>1 DEF Encrypted
        <4> QED
          BY <4>1, <4>2 DEF Under
      <3> QED
        BY <3>2, <3>3
    <2> QED
      BY <2>1 DEF Under
  <1>4. Under(DecryptAll(base), keys)
    <2>1. ASSUME NEW n \in Encrypted(DecryptAll(base)) PROVE FALSE
      <3>1. n \in Names /\ (base[n] # Absent => base[n] \in Text)
        BY DEF Encrypted, Content
      <3>2. DecryptAll(base)[n] = IF n \in Encrypted(base) THEN [base[n] EXCEPT !.under = Plain] ELSE base[n]
        BY <3>1 DEF DecryptAll
      <3>3. base[n] # Absent => [base[n] EXCEPT !.under = Plain].under = Plain
        BY <3>1 DEF Text
      <3> QED
        BY <2>1, <3>1, <3>2, <3>3 DEF Encrypted
    <2> QED
      BY <2>1 DEF Under
  <1> QED
    BY <1>1, <1>2, <1>3, <1>4

\* A ciphertext is not under "no key": keys may only be added.
LEMMA StaysUnder ==
  ASSUME NEW base \in Content, NEW keys, NEW more, Under(base, keys), keys \ {NoKey} \subseteq more
  PROVE  Under(base, more)
  <1>1. ASSUME NEW n \in Encrypted(base) PROVE base[n].under # NoKey
    BY Texts, EmptyAssumption DEF Encrypted, Content
  <1> QED
    BY <1>1 DEF Under

\* A command about to make a key has seen that there is none, unless another moved.
KeyOf(p) ==
  /\ proc[p].key \in Kept \cup {NoKey}
  /\ Under(proc[p].base, Kept)
  /\ Under(proc[p].text, Kept)
  /\ proc[p].pc = "make" /\ p \notin overtaken => keychain = NoKey
  /\ proc[p].pc = "makeFile" /\ p \notin overtaken => keyFile = NoKey

Lasting ==
  /\ \A f \in Files : Under(files[f], Kept)
  /\ \A p \in Processes : KeyOf(p)
  /\ keychain # NoKey /\ keyFile # NoKey => keyFile \in passed

LEMMA InitLasting == Init => Lasting
  <1> SUFFICES ASSUME Init PROVE Lasting
    OBVIOUS
  <1>0. Under(Nothing, Kept)
    BY DEF Under, Encrypted, Nothing
  <1>1. \E given \in SUBSET Given :
          proc = [p \in Processes |->
            [pc |-> "idle", then |-> "begin", at |-> 1, base |-> Nothing, text |-> Nothing,
             key |-> IF p \in given THEN GivenKey ELSE NoKey, cfg |-> FALSE, value |-> Absent]]
    BY DEF Init
  <1>2. ASSUME NEW p \in Processes PROVE KeyOf(p)
    <2>1. /\ proc[p].pc = "idle" /\ proc[p].base = Nothing /\ proc[p].text = Nothing
          /\ proc[p].key \in {GivenKey, NoKey}
      BY <1>1
    <2> QED
      BY <1>0, <2>1 DEF KeyOf, Kept
  <1>3. PICK present \in SUBSET Names :
          /\ setting /\ present \cap Sensitive # {} => Answer # NoKey
          /\ files = [f \in Files |->
               [n \in Names |->
                 IF f = ".env" /\ n \in present
                   THEN [value |-> First,
                         under |-> IF setting /\ n \in Sensitive THEN Answer ELSE Plain]
                   ELSE Absent]]
    BY DEF Init
  <1>4. ASSUME NEW f \in Files, NEW n \in Encrypted(files[f]) PROVE files[f][n].under \in Kept
    <2>1. n \in Names /\ files[f][n] # Absent /\ files[f][n].under # Plain
      BY DEF Encrypted
    <2>2. files[f][n] = [value |-> First,
                         under |-> IF setting /\ n \in Sensitive THEN Answer ELSE Plain]
      BY <1>3, <2>1
    <2>3. files[f][n].under = IF setting /\ n \in Sensitive THEN Answer ELSE Plain
      BY <2>2
    <2> QED
      BY <2>1, <2>3 DEF Kept, Answer
  <1>5. ~(keychain # NoKey /\ keyFile # NoKey)
    BY DEF Init
  <1> QED
    BY <1>2, <1>4, <1>5 DEF Lasting, Under

\* The steps that make a key.
LEMMA MakeKeys ==
  ASSUME TypeInv, TypeInv', Lasting, NEW p \in Processes, MakeInKeychain(p) \/ MakeKeyFile(p)
  PROVE  Lasting'
  <1>t. /\ TypeOK /\ proc[p] \in Process /\ files' = files /\ proc[p].key \in KeyIds \cup {NoKey}
        /\ files \in [Files -> Content] /\ \A q \in Processes : proc[q].base \in Content /\ proc[q].text \in Content
        /\ p \in KeyIds
    BY DEF TypeInv, TypeOK, Process, KeyIds, MakeInKeychain, MakeKeyFile
  <1>p. KeyOf(p) /\ \A q \in Processes : KeyOf(q)
    BY DEF Lasting
  <1>n. NoKey \notin KeyIds
    BY EmptyAssumption
  <1>1. CASE /\ Found(p, p) /\ p \in Kept' /\ Kept \ {NoKey} \subseteq Kept' /\ Overtake(p)
             /\ (keychain # NoKey /\ keyFile # NoKey => keyFile \in passed)'
    <2>1. \A base \in Content : Under(base, Kept) => Under(base, Kept')
      BY <1>1, StaysUnder
    <2>2. \A f \in Files : Under(files'[f], Kept')
      BY <1>t, <2>1 DEF Lasting
    <2>3. ASSUME NEW q \in Processes, q # p PROVE KeyOf(q)'
      <3>1. proc'[q] = proc[q] /\ (proc[q].pc \in {"make", "makeFile"} => q \in overtaken')
        BY <1>t, <1>1, <2>3 DEF Found, TypeOK, Overtake, Active
      <3> QED
        BY <1>t, <1>p, <1>1, <2>1, <3>1 DEF KeyOf
    <2>4. KeyOf(p)'
      <3>1. /\ proc'[p].pc \in {"begin", "open", "seal"} /\ proc'[p].key = p
            /\ proc'[p].base = proc[p].base /\ proc'[p].text = proc[p].text
        BY <1>t, <1>1, FoundIs DEF Turn, Process
      <3> QED
        BY <1>t, <1>p, <1>1, <2>1, <3>1 DEF KeyOf
    <2> QED
      BY <1>1, <2>2, <2>3, <2>4 DEF Lasting
  <1>2. CASE Goto(p, "file") /\ UNCHANGED <<keychain, keyFile, overtaken, passed>>
    <2>1. Kept' = Kept
      BY <1>2 DEF Kept
    <2>2. \A q \in Processes \ {p} : proc'[q] = proc[q]
      BY <1>t, <1>2 DEF Goto, TypeOK
    <2>3. /\ proc'[p].pc = "file" /\ proc'[p].key = proc[p].key
          /\ proc'[p].base = proc[p].base /\ proc'[p].text = proc[p].text
      BY <1>t, <1>2, GotoIs DEF Moves, Turn, Labels
    <2>4. ASSUME NEW q \in Processes PROVE KeyOf(q)'
      BY <1>p, <1>2, <2>1, <2>2, <2>3 DEF KeyOf
    <2> QED
      BY <1>t, <1>2, <2>1, <2>4 DEF Lasting
  <1>3. CASE MakeInKeychain(p)
    <2>1. CASE Goto(p, "file") /\ UNCHANGED <<keychain, overtaken, passed>>
      BY <1>2, <1>3, <2>1 DEF MakeInKeychain
    <2>2. CASE /\ keychain' = p
               /\ passed' = passed \cup PassedByKeychain(p)
               /\ Overtake(p) /\ Found(p, p)
      <3>1. keychain = NoKey \/ p \in overtaken
        BY <1>3, <1>p DEF KeyOf, MakeInKeychain
      <3>2. keyFile' = keyFile
        BY <1>3 DEF MakeInKeychain
      <3>3. p \in Kept' /\ Kept \ {NoKey} \subseteq Kept'
        BY <2>2, <3>1, <3>2 DEF Kept, PassedByKeychain
      <3>4. (keychain # NoKey /\ keyFile # NoKey => keyFile \in passed)'
        BY <2>2, <3>2 DEF PassedByKeychain
      <3> QED
        BY <1>1, <2>2, <3>3, <3>4
    <2> QED
      BY <1>3, <2>1, <2>2 DEF MakeInKeychain
  <1>4. CASE MakeKeyFile(p)
    <2>1. keyFile = NoKey \/ p \in overtaken
      BY <1>4, <1>p DEF KeyOf, MakeKeyFile
    <2>2. /\ Found(p, p) /\ Overtake(p) /\ keyFile' = p /\ keychain' = keychain
          /\ passed' = passed \cup PassedByFile(p)
      BY <1>4 DEF MakeKeyFile
    <2>3. p \in Kept' /\ Kept \ {NoKey} \subseteq Kept'
      BY <2>1, <2>2 DEF Kept, PassedByFile
    <2>4. (keychain # NoKey /\ keyFile # NoKey => keyFile \in passed)'
      BY <1>t, <1>n, <2>2 DEF PassedByFile
    <2> QED
      BY <1>1, <2>2, <2>3, <2>4
  <1> QED
    BY <1>3, <1>4

\* The steps that make none.
LEMMA OtherKeys ==
  ASSUME CopyInv, TypeInv', Lasting, NEW p \in Processes,
         Proceed(p) \/ DiskRefuses(p) \/ Crash(p), ~MakeInKeychain(p), ~MakeKeyFile(p)
  PROVE  Lasting'
  <1>t. /\ TypeOK /\ Steps(p) /\ proc[p] \in Process /\ Kept' = Kept /\ overtaken \subseteq overtaken'
        /\ keychain' = keychain /\ keyFile' = keyFile /\ passed' = passed
        /\ files \in [Files -> Content] /\ proc[p].base \in Content /\ proc[p].text \in Content
        /\ ~Converts(p) => job[p].name \in Names /\ job[p].cmd \in {"set", "unset", "run"}
        /\ keychain \in KeyIds \cup {NoKey} /\ keyFile \in KeyIds \cup {NoKey} /\ proc[p].key \in KeyIds \cup {NoKey}
        /\ Target(p) \in Files /\ Cascade[proc[p].at] \in Files
    <2>1. UNCHANGED <<keychain, keyFile, passed>> /\ overtaken \subseteq overtaken'
      BY DEF Proceed, Begin, BeginConverting, AskKeychain, ReadKeyFile,
         ReadLayer, OpenLayer, ReadFile, Store, Seal, Convert, Write, LoadConfig, Truncate, Save,
         DiskRefuses, Crash, Fail, shared, history, Overtake
    <2> QED
      BY <2>1, JobTyped DEF CopyInv, TypeInv, TypeOK, Process, KeyIds, Kept
  <1>p. KeyOf(p) /\ \A f \in Files : Under(files[f], Kept)
    BY DEF Lasting
  <1>f. \A f \in Files : Under(files'[f], Kept)
    <2>1. CASE Write(p)
      <3>1. \A f \in Files : files'[f] \in {files[f], proc[p].text}
        BY <1>t, <2>1 DEF Write, Written
      <3> QED
        BY <1>p, <3>1 DEF KeyOf
    <2>2. CASE ~Write(p)
      <3>1. files' = files
        BY <2>2 DEF Proceed, Begin, BeginConverting, AskKeychain, ReadKeyFile,
           ReadLayer, OpenLayer, ReadFile, Store, Seal, Convert, LoadConfig, Truncate, Save,
           DiskRefuses, Crash, Fail, shared, history
      <3> QED
        BY <1>p, <3>1
    <2> QED
      BY <2>1, <2>2
  <1> DEFINE Others == \A q \in Processes \ {p} : proc'[q] = proc[q]
  <1> SUFFICES Others /\ KeyOf(p)'
    <2>1. ASSUME NEW q \in Processes, q # p PROVE KeyOf(q)'
      BY <1>t, <2>1 DEF KeyOf, Lasting
    <2> QED
      BY <1>t, <1>f, <2>1 DEF Lasting
  \* Steps that leave the command its copy and its key, on its way to making none.
  <1>k. ASSUME Others, proc'[p].base = proc[p].base, proc'[p].text = proc[p].text, proc'[p].key = proc[p].key,
               proc'[p].pc \notin {"make", "makeFile"}
        PROVE  Others /\ KeyOf(p)'
    BY <1>t, <1>p, <1>k DEF KeyOf
  <1>g. ASSUME NEW label \in Labels \ {"make", "makeFile"}, Goto(p, label) PROVE Others /\ KeyOf(p)'
    BY <1>t, <1>g, <1>k, GotoIs DEF Moves, Turn
  <1>d. ASSUME NEW key \in KeyIds \cup {NoKey}, Found(p, key), key \in Kept \cup {NoKey} PROVE Others /\ KeyOf(p)'
    <2>1. /\ Others /\ proc'[p].base = proc[p].base /\ proc'[p].text = proc[p].text /\ proc'[p].key = key
          /\ proc'[p].pc \in {"begin", "open", "seal"}
      BY <1>t, <1>d, FoundIs DEF Turn, Process
    <2> QED
      BY <1>t, <1>p, <1>d, <2>1 DEF KeyOf
  <1>w. ASSUME NEW label \in {"begin", "seal"}, WithKey(p, label) PROVE Others /\ KeyOf(p)'
    BY <1>t, <1>w, <1>k, WithKeyIs DEF Moves, Turn
  <1>u. ASSUME NEW under \in KeyIds \cup {Plain}, PutText(p, under), ~Converts(p), under \in Kept \cup {Plain}
        PROVE  Others /\ KeyOf(p)'
    <2>1. /\ Others /\ proc'[p].base = proc[p].base /\ proc'[p].key = proc[p].key /\ proc'[p].pc = "write"
          /\ proc'[p].text = [proc[p].text EXCEPT ![job[p].name] = [value |-> p, under |-> under]]
      BY <1>t, <1>u, PutTextIs DEF Turn
    <2>2. job[p].name \in Names /\ p \in Sources
      BY <1>t, <1>u DEF Sources
    <2>3. Under(proc'[p].text, Kept)
      <3> DEFINE text == proc[p].text
      <3>1. text \in Content /\ Under(text, Kept)
        BY <1>t, <1>p DEF KeyOf
      <3> HIDE DEF text
      <3>2. Under([text EXCEPT ![job[p].name] = [value |-> p, under |-> under]], Kept)
        BY <1>u, <2>2, <3>1, Unders
      <3> QED
        BY <2>1, <3>2 DEF text
    <2> QED
      BY <1>t, <1>p, <2>1, <2>3 DEF KeyOf
  <1>n. ASSUME NextFile(p, proc[p]) PROVE Others /\ KeyOf(p)'
    BY <1>t, <1>k, <1>n, NextFileIs DEF Moves, Turn
  <1>1. CASE Begin(p) \/ BeginConverting(p)
    <2>1. \/ WithKey(p, "begin") \/ Goto(p, "layer") \/ Goto(p, "read") \/ Goto(p, "failed")
      BY <1>1 DEF Begin, BeginConverting, Converts
    <2> QED
      BY <1>g, <1>w, <2>1 DEF Labels
  <1>2. CASE AskKeychain(p)
    <2>1. CASE Goto(p, "make") /\ keychain = NoKey
      <3>1. /\ Others /\ proc'[p].base = proc[p].base /\ proc'[p].text = proc[p].text /\ proc'[p].key = proc[p].key
            /\ proc'[p].pc = "make"
        BY <1>t, <2>1, GotoIs DEF Moves, Turn, Labels
      <3> QED
        BY <1>t, <1>p, <2>1, <3>1 DEF KeyOf
    <2>2. CASE Goto(p, "file")
      BY <1>g, <2>2 DEF Labels
    <2>3. CASE Found(p, keychain)
      BY <1>t, <1>d, <2>3 DEF Kept
    <2> QED
      BY <1>2, <2>1, <2>2, <2>3 DEF AskKeychain
  <1>3. CASE ReadKeyFile(p)
    <2>1. CASE Goto(p, "makeFile") /\ keyFile = NoKey
      <3>1. /\ Others /\ proc'[p].base = proc[p].base /\ proc'[p].text = proc[p].text /\ proc'[p].key = proc[p].key
            /\ proc'[p].pc = "makeFile"
        BY <1>t, <2>1, GotoIs DEF Moves, Turn, Labels
      <3> QED
        BY <1>t, <1>p, <2>1, <3>1 DEF KeyOf
    <2>2. CASE Found(p, NoKey) \/ Found(p, keyFile)
      BY <1>t, <1>d, <2>2 DEF Kept
    <2> QED
      BY <1>3, <2>1, <2>2 DEF ReadKeyFile
  <1>4. CASE ReadLayer(p)
    <2>1. /\ Others /\ proc'[p].base = files[Cascade[proc[p].at]] /\ proc'[p].text = proc[p].text
          /\ proc'[p].key = proc[p].key /\ proc'[p].pc \in {"ask", "convert", "open"}
      BY <1>t, <1>4, ReadLayerIs DEF Turn
    <2> QED
      BY <1>t, <1>p, <2>1 DEF KeyOf
  <1>5. CASE OpenLayer(p)
    <2>1. job[p].cmd = "run"
      BY <1>t, <1>5 DEF OpenLayer, Steps, Needs
    <2> QED
      BY <1>t, <1>5, <1>k, <2>1, OpenLayerIs DEF Moves, Turn
  <1>6. CASE ReadFile(p)
    <2>1. ~Converts(p)
      BY <1>t, <1>6 DEF ReadFile, Steps
    <2>2. /\ Others /\ proc'[p].base = files[Target(p)]
          /\ proc'[p].text = [files[Target(p)] EXCEPT ![job[p].name] = Absent]
          /\ proc'[p].key = proc[p].key /\ proc'[p].pc \in {"store", "write", "done"}
      BY <1>t, <1>6, <2>1, ReadFileIs DEF Turn
    <2>3. Under([files[Target(p)] EXCEPT ![job[p].name] = Absent], Kept)
      BY <1>t, <1>p, <2>1, Unders
    <2> QED
      BY <1>t, <1>p, <2>2, <2>3 DEF KeyOf
  <1>7. CASE Store(p) \/ Seal(p)
    <2>1. ~Converts(p)
      BY <1>t, <1>7 DEF Store, Seal, Steps, Needs, Converts
    <2>2. WithKey(p, "seal") \/ \E under \in KeyIds \cup {Plain} : PutText(p, under) /\ under \in Kept \cup {Plain}
      BY <1>t, <1>p, <1>7 DEF Store, Seal, KeyOf
    <2> QED
      BY <1>u, <1>w, <2>1, <2>2
  <1>8. CASE Convert(p)
    <2>1. proc[p].key # NoKey
      BY <1>t, <1>8 DEF Convert, Steps
    <2>2. CASE Moves(p, "failed")
      BY <1>k, <2>2 DEF Moves, Turn
    <2>3. CASE NextFile(p, proc[p])
      BY <1>n, <2>3
    <2>4. CASE Turn(p, "write", proc[p].then, proc[p].at, proc[p].base, Converted(p),
                    proc[p].key, proc[p].cfg, proc[p].value)
      <3>1. Under(Converted(p), Kept)
        BY <1>t, <1>p, <2>1, Unders DEF Converted, KeyOf
      <3> QED
        BY <1>t, <1>p, <2>4, <3>1 DEF Turn, KeyOf
    <2> QED
      BY <1>t, <1>8, <2>1, <2>2, <2>3, <2>4, ConvertIs
  <1>9. CASE Write(p)
    BY <1>t, <1>9, <1>k, <1>n, WriteIs DEF Moves, Turn
  <1>10. CASE LoadConfig(p)
    BY <1>t, <1>10, <1>k, LoadConfigIs DEF Moves, Turn
  <1>11. CASE Truncate(p) \/ Save(p) \/ DiskRefuses(p) \/ Crash(p)
    <2>1. Goto(p, "save") \/ Goto(p, "done") \/ Goto(p, "failed")
      BY <1>11 DEF Truncate, Save, DiskRefuses, Crash, Fail
    <2> QED
      BY <1>g, <2>1 DEF Labels
  <1> QED
    BY <1>1, <1>2, <1>3, <1>4, <1>5, <1>6, <1>7, <1>8, <1>9, <1>10, <1>11 DEF Proceed

LEMMA KeyNext == CopyInv /\ TypeInv' /\ Lasting /\ [Next]_vars => Lasting'
  <1> SUFFICES ASSUME CopyInv, TypeInv', Lasting, [Next]_vars PROVE Lasting'
    OBVIOUS
  <1>1. CASE UNCHANGED vars
    <2>1. UNCHANGED <<files, keychain, keyFile, proc, overtaken, passed>>
      BY <1>1 DEF vars, shared, history
    <2> QED
      BY <2>1 DEF Lasting, KeyOf, Kept
  <1>2. ASSUME NEW p \in Processes, Proceed(p) \/ DiskRefuses(p) \/ Crash(p) PROVE Lasting'
    <2>1. CASE MakeInKeychain(p) \/ MakeKeyFile(p)
      BY <2>1, MakeKeys DEF CopyInv
    <2>2. CASE ~MakeInKeychain(p) /\ ~MakeKeyFile(p)
      BY <1>2, <2>2, OtherKeys
    <2> QED
      BY <2>1, <2>2
  <1> QED
    BY <1>1, <1>2 DEF Next

LEMMA FoundKeys == CopyInv /\ Lasting => KeysFound
  <1> SUFFICES ASSUME CopyInv, Lasting, NEW f \in Files, NEW n \in Encrypted(files[f])
               PROVE  files[f][n].under \in {Answer, GivenKey} \cup passed
    BY DEF KeysFound
  <1>1. files[f] \in Content
    BY DEF CopyInv, TypeInv, TypeOK
  <1>2. files[f][n].under \in Kept
    BY DEF Lasting, Under
  <1>3. files[f][n].under # NoKey
    BY <1>1, Texts, EmptyAssumption DEF Encrypted, Content
  <1> QED
    BY <1>2, <1>3 DEF Kept, Answer, Lasting

-----------------------------------------------------------------------------
(* EncryptionHolds, the setting: what each file and each copy is of, while *)
(* the one command that reconfigures is on its way.                        *)

Matches(content, on) ==
  \A n \in Sensitive : content[n] # Absent => (content[n].under # Plain <=> on)

LEMMA Matching ==
  ASSUME NEW base \in Content
  PROVE  /\ \A key \in KeyIds : Matches(EncryptAll(base, key), TRUE)
         /\ Matches(DecryptAll(base), FALSE)
         /\ \A n \in Names, on \in BOOLEAN : Matches(base, on) => Matches([base EXCEPT ![n] = Absent], on)
         /\ \A n \in Names, v \in Sources, u \in KeyIds \cup {Plain}, on \in BOOLEAN :
              Matches(base, on) /\ (n \in Sensitive => (u # Plain <=> on)) =>
                Matches([base EXCEPT ![n] = [value |-> v, under |-> u]], on)
  <1>t. \A n \in Sensitive : n \in Names /\ (base[n] # Absent => base[n] \in Text)
    BY ValueAssumption DEF Content
  <1>1. ASSUME NEW key \in KeyIds, NEW n \in Sensitive, EncryptAll(base, key)[n] # Absent
        PROVE  EncryptAll(base, key)[n].under # Plain
    <2>1. EncryptAll(base, key)[n] =
            IF base[n] # Absent /\ n \notin Encrypted(base) THEN [base[n] EXCEPT !.under = key] ELSE base[n]
      BY <1>t DEF EncryptAll
    <2>2. base[n] # Absent
      BY <1>1, <2>1
    <2>3. CASE n \notin Encrypted(base)
      <3>1. [base[n] EXCEPT !.under = key].under = key
        BY <1>t, <2>2 DEF Text
      <3> QED
        BY <2>1, <2>2, <2>3, <3>1, EmptyAssumption
    <2>4. CASE n \in Encrypted(base)
      BY <2>1, <2>4 DEF Encrypted
    <2> QED
      BY <2>3, <2>4
  <1>2. ASSUME NEW n \in Sensitive, DecryptAll(base)[n] # Absent PROVE DecryptAll(base)[n].under = Plain
    <2>1. DecryptAll(base)[n] = IF n \in Encrypted(base) THEN [base[n] EXCEPT !.under = Plain] ELSE base[n]
      BY <1>t DEF DecryptAll
    <2>2. CASE n \in Encrypted(base)
      <3>1. [base[n] EXCEPT !.under = Plain].under = Plain
        BY <1>t, <2>2 DEF Text, Encrypted
      <3> QED
        BY <2>1, <2>2, <3>1
    <2>3. CASE n \notin Encrypted(base)
      BY <1>t, <1>2, <2>1, <2>3 DEF Encrypted
    <2> QED
      BY <2>2, <2>3
  <1>3. ASSUME NEW n \in Names, NEW on \in BOOLEAN, Matches(base, on)
        PROVE  Matches([base EXCEPT ![n] = Absent], on)
    BY <1>t, <1>3 DEF Matches, Content
  <1>4. ASSUME NEW n \in Names, NEW v \in Sources, NEW u \in KeyIds \cup {Plain}, NEW on \in BOOLEAN,
               Matches(base, on), n \in Sensitive => (u # Plain <=> on)
        PROVE  Matches([base EXCEPT ![n] = [value |-> v, under |-> u]], on)
    <2> DEFINE t == [value |-> v, under |-> u]
    <2>1. t.under = u
      OBVIOUS
    <2> HIDE DEF t
    <2>2. \A m \in Sensitive : [base EXCEPT ![n] = t][m] = IF m = n THEN t ELSE base[m]
      BY <1>t DEF Content
    <2>3. Matches([base EXCEPT ![n] = t], on)
      BY <1>4, <2>1, <2>2 DEF Matches
    <2> QED
      BY <2>3 DEF t
  <1> QED
    BY <1>1, <1>2, <1>3, <1>4 DEF Matches

LEMMA ConvertedMatches ==
  ASSUME TypeOK, NEW p \in Processes, Converts(p), proc[p].key # NoKey
  PROVE  Matches(Converted(p), job[p].cmd = "encrypt")
  <1>1. proc[p].base \in Content /\ proc[p].key \in KeyIds
    BY DEF TypeOK, Process
  <1>2. CASE job[p].cmd = "encrypt"
    BY <1>1, <1>2, Matching DEF Converted
  <1>3. CASE job[p].cmd = "decrypt"
    BY <1>1, <1>3, Matching DEF Converted
  <1> QED
    BY <1>2, <1>3 DEF Converts

\* What a command that stores a value has in hand is of the setting it read.
Storing(p) ==
  /\ Needs(p, "seal") => setting
  /\ proc[p].pc \in {"store", "write"} \/ Needs(p, "seal") => Matches(proc[p].text, setting)

LEMMA StoringNext ==
  ASSUME CopyInv, TypeInv', NEW p \in Processes, Proceed(p) \/ DiskRefuses(p) \/ Crash(p), calm',
         ~Converts(p), Storing(p), Matches(files[Target(p)], setting)
  PROVE  Storing(p)'
  <1>t. /\ TypeOK /\ Steps(p) /\ proc[p] \in Process /\ setting \in BOOLEAN
        /\ files \in [Files -> Content] /\ proc[p].text \in Content /\ Target(p) \in Files
        /\ job[p].name \in Names /\ job[p].cmd \in {"set", "unset", "run"}
        /\ keychain \in KeyIds \cup {NoKey} /\ keyFile \in KeyIds \cup {NoKey} /\ proc[p].key \in KeyIds \cup {NoKey}
        /\ p \in KeyIds \cup {NoKey} /\ p \in Sources
    BY JobTyped DEF CopyInv, TypeInv, TypeOK, Process, KeyIds, Sources
  <1>v. ASSUME proc'[p].pc \notin {"store", "write"}, ~Needs(p, "seal")' PROVE Storing(p)'
    BY <1>v DEF Storing
  <1>g. ASSUME NEW label \in Labels \ {"store", "write", "seal"}, Goto(p, label), label \notin Keying
        PROVE  Storing(p)'
    BY <1>t, <1>g, <1>v, GotoIs DEF Moves, Turn, Needs
  <1>u. ASSUME NEW under \in KeyIds \cup {Plain}, PutText(p, under), setting' = setting,
               Matches(proc[p].text, setting), job[p].name \in Sensitive => (under # Plain <=> setting)
        PROVE  Storing(p)'
    <2>1. /\ proc'[p].pc = "write"
          /\ proc'[p].text = [proc[p].text EXCEPT ![job[p].name] = [value |-> p, under |-> under]]
      BY <1>t, <1>u, PutTextIs DEF Turn
    <2> DEFINE text == proc[p].text
    <2>2. text \in Content /\ Matches(text, setting)
      BY <1>t, <1>u
    <2> HIDE DEF text
    <2>3. Matches([text EXCEPT ![job[p].name] = [value |-> p, under |-> under]], setting)
      <3>1. \A n \in Names, v \in Sources, u \in KeyIds \cup {Plain}, on \in BOOLEAN :
              Matches(text, on) /\ (n \in Sensitive => (u # Plain <=> on)) =>
                Matches([text EXCEPT ![n] = [value |-> v, under |-> u]], on)
        BY <2>2, Matching
      <3> QED
        BY <1>t, <1>u, <2>2, <3>1
    <2>4. Matches(proc'[p].text, setting')
      BY <1>u, <2>1, <2>3 DEF text
    <2> QED
      BY <2>1, <2>4 DEF Storing, Needs, Keying
  <1>1. CASE Begin(p) \/ BeginConverting(p)
    <2>1. Goto(p, "layer") \/ Goto(p, "read")
      BY <1>t, <1>1 DEF Begin, BeginConverting, Steps, Needs
    <2> QED
      BY <1>g, <2>1 DEF Labels, Keying
  <1>2. CASE AskKeychain(p) \/ MakeInKeychain(p) \/ ReadKeyFile(p) \/ MakeKeyFile(p)
    <2>1. /\ proc[p].pc \in Keying /\ setting' = setting
          /\ \/ \E key \in KeyIds \cup {NoKey} : Found(p, key)
             \/ \E label \in Keying : Goto(p, label)
      BY <1>t, <1>2 DEF AskKeychain, MakeInKeychain, ReadKeyFile, MakeKeyFile, Keying, shared
    <2>2. /\ proc'[p].pc \in Keying \cup {proc[p].then} /\ proc'[p].then = proc[p].then
          /\ proc'[p].text = proc[p].text
      BY <1>t, <2>1, FoundIs, GotoIs DEF Moves, Turn, Keying, Labels
    <2>3. Needs(p, "seal")' = Needs(p, "seal") /\ proc'[p].pc \notin {"store", "write"}
      BY <1>t, <2>1, <2>2 DEF Needs, Keying, Process
    <2> QED
      BY <2>1, <2>2, <2>3 DEF Storing
  <1>3. CASE ReadLayer(p)
    <2>1. PICK then \in {"begin", "open", "seal"}, pc \in {"ask", "convert", "open"} :
            /\ Turn(p, pc, then, proc[p].at, files[Cascade[proc[p].at]], proc[p].text,
                    proc[p].key, proc[p].cfg, proc[p].value)
            /\ pc = "ask" => then = "open"
            /\ pc = "convert" <=> Converts(p)
      BY <1>t, <1>3, ReadLayerIs
    <2> QED
      BY <1>v, <2>1 DEF Turn, Needs, Keying
  <1>4. CASE OpenLayer(p)
    <2>1. job[p].cmd = "run"
      BY <1>t, <1>4 DEF OpenLayer, Steps, Needs
    <2>2. proc'[p].pc \in {"failed", "layer", "read", "done"}
      BY <1>t, <1>4, <2>1, OpenLayerIs DEF Moves, Turn
    <2> QED
      BY <1>v, <2>2 DEF Needs, Keying
  <1>5. CASE ReadFile(p)
    <2>1. /\ proc'[p].text = [files[Target(p)] EXCEPT ![job[p].name] = Absent]
          /\ proc'[p].pc \in {"store", "write", "done"}
      BY <1>t, <1>5, ReadFileIs DEF Turn
    <2>s. setting' = setting
      BY <1>5 DEF ReadFile, shared
    <2>2. Matches([files[Target(p)] EXCEPT ![job[p].name] = Absent], setting)
      <3> DEFINE base == files[Target(p)]
      <3>1. base \in Content /\ Matches(base, setting)
        BY <1>t
      <3> HIDE DEF base
      <3>2. \A n \in Names, on \in BOOLEAN : Matches(base, on) => Matches([base EXCEPT ![n] = Absent], on)
        BY <3>1, Matching
      <3>3. Matches([base EXCEPT ![job[p].name] = Absent], setting)
        BY <1>t, <3>1, <3>2
      <3> QED
        BY <3>3 DEF base
    <2> QED
      BY <2>1, <2>s, <2>2 DEF Storing, Needs, Keying
  <1>6. CASE Store(p)
    <2>1. proc[p].pc = "store" /\ setting' = setting /\ Matches(proc[p].text, setting)
      BY <1>6 DEF Store, shared, Storing
    <2>2. CASE setting /\ WithKey(p, "seal")
      <3>1. proc'[p].text = proc[p].text /\ proc'[p].pc \notin {"store", "write"}
        BY <1>t, <2>2, WithKeyIs DEF Moves, Turn
      <3> QED
        BY <2>1, <2>2, <3>1 DEF Storing
    <2>3. CASE PutText(p, Plain) /\ ~(setting /\ job[p].name \in Sensitive)
      BY <1>u, <2>1, <2>3
    <2> QED
      BY <1>6, <2>2, <2>3 DEF Store
  <1>7. CASE Seal(p)
    <2>1. /\ proc[p].key # NoKey /\ PutText(p, proc[p].key) /\ setting' = setting
          /\ setting /\ Matches(proc[p].text, setting)
      BY <1>7 DEF Seal, shared, Storing, Needs, CopyInv, TypeInv, TypeOK
    <2>2. proc[p].key # Plain
      BY <1>t, <2>1, EmptyAssumption
    <2> QED
      BY <1>t, <1>u, <2>1, <2>2
  <1>8. CASE Convert(p)
    BY <1>t, <1>8 DEF Convert, Steps, Needs
  <1>9. CASE Write(p)
    <2>1. proc'[p].pc \in {"done", "load"}
      BY <1>t, <1>9, WriteIs DEF Moves, Turn
    <2> QED
      BY <1>v, <2>1 DEF Needs, Keying
  <1>10. CASE LoadConfig(p)
    <2>1. proc'[p].pc \in {"done", "truncate"}
      BY <1>t, <1>10, LoadConfigIs DEF Moves, Turn
    <2> QED
      BY <1>v, <2>1 DEF Needs, Keying
  <1>11. CASE Truncate(p) \/ Save(p) \/ DiskRefuses(p) \/ Crash(p)
    <2>1. Goto(p, "save") \/ Goto(p, "done") \/ Goto(p, "failed")
      BY <1>11 DEF Truncate, Save, DiskRefuses, Crash, Fail
    <2> QED
      BY <1>g, <2>1 DEF Labels, Keying
  <1> QED
    BY <1>1, <1>2, <1>3, <1>4, <1>5, <1>6, <1>7, <1>8, <1>9, <1>10, <1>11 DEF Proceed

\* A command that is idle was not overtaken; a conversion starts with the first file.
Early(p) == proc[p].pc \in {"idle", "begin"} \cup Keying

Fresh(p) ==
  /\ proc[p].pc = "idle" => p \notin overtaken
  /\ Converts(p) /\ Early(p) => proc[p].at = 1

\* What every step of a command does to it and to the others.
LEMMA Progress ==
  ASSUME TypeInv, NEW p \in Processes, Proceed(p) \/ DiskRefuses(p) \/ Crash(p)
  PROVE  /\ job' = job /\ \A q \in Processes \ {p} : proc'[q] = proc[q]
         /\ overtaken' \subseteq overtaken \cup {q \in Processes \ {p} : Active(q)}
         /\ proc'[p].pc # "idle"
         /\ Converts(p) /\ Early(p)' => Early(p) /\ proc'[p].at = proc[p].at
  <1>t. /\ TypeOK /\ Steps(p) /\ proc[p] \in Process
        /\ ~Converts(p) => job[p].name \in Names /\ job[p].cmd \in {"set", "unset", "run"}
        /\ keychain \in KeyIds \cup {NoKey} /\ keyFile \in KeyIds \cup {NoKey} /\ proc[p].key \in KeyIds \cup {NoKey}
        /\ p \in KeyIds \cup {NoKey}
    BY JobTyped DEF TypeInv, TypeOK, Process, KeyIds
  <1>j. job' = job /\ overtaken' \subseteq overtaken \cup {q \in Processes \ {p} : Active(q)}
    BY DEF Proceed, Begin, BeginConverting, AskKeychain, MakeInKeychain, ReadKeyFile, MakeKeyFile,
       ReadLayer, OpenLayer, ReadFile, Store, Seal, Convert, Write, LoadConfig, Truncate, Save,
       DiskRefuses, Crash, Fail, shared, history, Overtake
  <1> DEFINE Onward == /\ \A q \in Processes \ {p} : proc'[q] = proc[q]
                       /\ proc'[p].pc # "idle"
                       /\ Converts(p) /\ Early(p)' => Early(p) /\ proc'[p].at = proc[p].at
  <1> SUFFICES Onward
    BY <1>j
  <1>g. ASSUME NEW label \in Labels \ {"idle"}, Goto(p, label), label \notin Keying \cup {"begin"} \/ Early(p)
        PROVE  Onward
    BY <1>t, <1>g, GotoIs DEF Moves, Turn, Early
  <1>d. ASSUME NEW key \in KeyIds \cup {NoKey}, Found(p, key), Early(p) PROVE Onward
    BY <1>t, <1>d, FoundIs DEF Turn, Early, Process
  <1>w. ASSUME NEW label \in {"begin", "seal"}, WithKey(p, label), Converts(p) => Early(p) PROVE Onward
    BY <1>t, <1>w, WithKeyIs DEF Moves, Turn, Early
  <1>u. ASSUME NEW under \in KeyIds \cup {Plain}, PutText(p, under), ~Converts(p) PROVE Onward
    BY <1>t, <1>u, PutTextIs DEF Turn
  <1>n. ASSUME NextFile(p, proc[p]) PROVE Onward
    BY <1>t, <1>n, NextFileIs DEF Moves, Turn, Early, Keying
  <1>1. CASE Begin(p) \/ BeginConverting(p)
    <2>1. /\ Early(p)
          /\ WithKey(p, "begin") \/ Goto(p, "layer") \/ Goto(p, "read") \/ Goto(p, "failed")
      BY <1>1 DEF Begin, BeginConverting, Converts, Early
    <2> QED
      BY <1>g, <1>w, <2>1 DEF Labels
  <1>2. CASE AskKeychain(p) \/ MakeInKeychain(p) \/ ReadKeyFile(p) \/ MakeKeyFile(p)
    <2>1. /\ Early(p)
          /\ \/ \E key \in KeyIds \cup {NoKey} : Found(p, key)
             \/ \E label \in Keying : Goto(p, label)
      BY <1>t, <1>2 DEF AskKeychain, MakeInKeychain, ReadKeyFile, MakeKeyFile, Keying, Early
    <2> QED
      BY <1>d, <1>g, <2>1 DEF Labels, Keying
  <1>3. CASE ReadLayer(p)
    <2>1. PICK then \in {"begin", "open", "seal"}, pc \in {"ask", "convert", "open"} :
            /\ Turn(p, pc, then, proc[p].at, files[Cascade[proc[p].at]], proc[p].text,
                    proc[p].key, proc[p].cfg, proc[p].value)
            /\ pc = "convert" <=> Converts(p)
      BY <1>t, <1>3, ReadLayerIs
    <2> QED
      BY <2>1 DEF Turn, Early, Keying
  <1>4. CASE OpenLayer(p)
    <2>1. job[p].cmd = "run"
      BY <1>t, <1>4 DEF OpenLayer, Steps, Needs
    <2> QED
      BY <1>t, <1>4, <2>1, OpenLayerIs DEF Moves, Turn, Converts
  <1>5. CASE ReadFile(p)
    <2>1. ~Converts(p)
      BY <1>t, <1>5 DEF ReadFile, Steps
    <2> QED
      BY <1>t, <1>5, <2>1, ReadFileIs DEF Turn
  <1>6. CASE Store(p) \/ Seal(p)
    <2>1. ~Converts(p)
      BY <1>t, <1>6 DEF Store, Seal, Steps, Needs, Converts
    <2>2. WithKey(p, "seal") \/ \E under \in KeyIds \cup {Plain} : PutText(p, under)
      BY <1>t, <1>6 DEF Store, Seal
    <2> QED
      BY <1>u, <1>w, <2>1, <2>2
  <1>7. CASE Convert(p)
    <2>1. proc[p].key # NoKey
      BY <1>t, <1>7 DEF Convert, Steps
    <2>2. CASE Turn(p, "write", proc[p].then, proc[p].at, proc[p].base, Converted(p),
                    proc[p].key, proc[p].cfg, proc[p].value)
      BY <2>2 DEF Turn, Early, Keying
    <2>3. CASE Moves(p, "failed")
      BY <2>3 DEF Moves, Turn, Early, Keying
    <2> QED
      BY <1>t, <1>7, <1>n, <2>1, <2>2, <2>3, ConvertIs
  <1>8. CASE Write(p)
    BY <1>t, <1>8, <1>n, WriteIs DEF Moves, Turn, Early, Keying
  <1>9. CASE LoadConfig(p)
    BY <1>t, <1>9, LoadConfigIs DEF Moves, Turn, Early, Keying
  <1>10. CASE Truncate(p) \/ Save(p) \/ DiskRefuses(p) \/ Crash(p)
    <2>1. Goto(p, "save") \/ Goto(p, "done") \/ Goto(p, "failed")
      BY <1>10 DEF Truncate, Save, DiskRefuses, Crash, Fail
    <2> QED
      BY <1>g, <2>1 DEF Labels, Keying
  <1> QED
    BY <1>1, <1>2, <1>3, <1>4, <1>5, <1>6, <1>7, <1>8, <1>9, <1>10 DEF Proceed

LEMMA FreshNext ==
  ASSUME TypeInv, \A q \in Processes : Fresh(q), NEW p \in Processes, Proceed(p) \/ DiskRefuses(p) \/ Crash(p)
  PROVE  \A q \in Processes : Fresh(q)'
  <1>1. Fresh(p)'
    BY Progress DEF Fresh, Converts
  <1>2. ASSUME NEW q \in Processes, q # p PROVE Fresh(q)'
    BY <1>2, Progress DEF Fresh, Converts, Early, Active
  <1> QED
    BY <1>1, <1>2

\* What the setting says of a file while a command that will rewrite it is on its way.
Form(p, f) ==
  IF proc[p].pc = "save" THEN proc[p].cfg
  ELSE IF /\ Converts(p)
          /\ \/ proc[p].pc \in {"load", "truncate"}
             \/ proc[p].pc \in {"layer", "convert", "write"} /\ proc[p].at = 2 /\ f = ".env"
    THEN job[p].cmd = "encrypt"
    ELSE setting

Reforming(p) ==
  /\ p \notin overtaken
  /\ \A f \in Files : Matches(files[f], Form(p, f))
  /\ proc[p].pc \in {"truncate", "save"} /\ Converts(p) => proc[p].cfg = (job[p].cmd = "encrypt")
  /\ proc[p].pc = "truncate" /\ ~Converts(p) => proc[p].cfg = setting

Calmed ==
  /\ \A p, q \in Processes : p # q /\ Active(p) /\ Active(q) => ~Reconfigures(p)
  /\ (\A p \in Processes : Active(p) => ~Reconfigures(p)) => \A f \in Files : Matches(files[f], setting)
  /\ \A p \in Processes : Active(p) /\ Reconfigures(p) => Reforming(p)
  /\ \A p \in Processes : Active(p) /\ ~Converts(p) => Storing(p)

CalmInv == (\A p \in Processes : Fresh(p)) /\ (calm => Calmed)

LEMMA InitCalmed == Init => CalmInv
  <1> SUFFICES ASSUME Init PROVE CalmInv
    OBVIOUS
  <1>1. \E given \in SUBSET Given :
          proc = [p \in Processes |->
            [pc |-> "idle", then |-> "begin", at |-> 1, base |-> Nothing, text |-> Nothing,
             key |-> IF p \in given THEN GivenKey ELSE NoKey, cfg |-> FALSE, value |-> Absent]]
    BY DEF Init
  <1>2. ASSUME NEW p \in Processes PROVE proc[p].pc = "idle" /\ proc[p].at = 1
    BY <1>1
  <1>3. PICK present \in SUBSET Names :
          /\ setting /\ present \cap Sensitive # {} => Answer # NoKey
          /\ files = [f \in Files |->
               [n \in Names |->
                 IF f = ".env" /\ n \in present
                   THEN [value |-> First,
                         under |-> IF setting /\ n \in Sensitive THEN Answer ELSE Plain]
                   ELSE Absent]]
    BY DEF Init
  <1>4. ASSUME NEW f \in Files, NEW n \in Sensitive, files[f][n] # Absent
        PROVE  files[f][n].under # Plain <=> setting
    <2>1. /\ n \in present /\ n \in Names
          /\ files[f][n] = [value |-> First, under |-> IF setting /\ n \in Sensitive THEN Answer ELSE Plain]
      BY <1>3, <1>4, ValueAssumption
    <2>2. files[f][n].under = IF setting THEN Answer ELSE Plain
      BY <2>1
    <2>3. setting => Answer \in KeyIds
      BY <1>3, <2>1 DEF Init, Answer, KeyIds
    <2> QED
      BY <2>2, <2>3, EmptyAssumption
  <1>5. \A p \in Processes : ~Active(p)
    BY <1>2 DEF Active
  <1>6. \A f \in Files : Matches(files[f], setting)
    BY <1>4 DEF Matches
  <1>7. \A p \in Processes : Fresh(p)
    BY <1>2 DEF Fresh, Init
  <1> QED
    BY <1>5, <1>6, <1>7 DEF CalmInv, Calmed

\* What was calm after a step was so before.
LEMMA WasCalm ==
  ASSUME TypeInv, TypeInv', NEW p \in Processes, Proceed(p) \/ DiskRefuses(p) \/ Crash(p), calm'
  PROVE  /\ calm
         /\ DiskRefuses(p) \/ Crash(p) => ~Apart(p)
         /\ Begin(p) => \A q \in Processes \ {p} : Active(q) => ~Reconfigures(p) /\ ~Reconfigures(q)
         /\ Seal(p) => proc[p].key # NoKey
  <1>t. calm \in BOOLEAN /\ calm' \in BOOLEAN
    BY DEF TypeInv, TypeOK
  <1>1. CASE Begin(p) \/ Seal(p) \/ DiskRefuses(p) \/ Crash(p)
    BY <1>t, <1>1 DEF Begin, Seal, DiskRefuses, Crash
  <1>2. CASE ~(Begin(p) \/ Seal(p) \/ DiskRefuses(p) \/ Crash(p))
    <2>1. calm' = calm \/ calm' = FALSE
      BY <1>2 DEF Proceed, BeginConverting, AskKeychain, MakeInKeychain, ReadKeyFile, MakeKeyFile,
         ReadLayer, OpenLayer, ReadFile, Store, Convert, Write, LoadConfig, Truncate, Save, history
    <2> QED
      BY <1>t, <1>2, <2>1
  <1> QED
    BY <1>1, <1>2

\* Which steps change what the others rely on.
LEMMA Shares ==
  ASSUME TypeInv, NEW p \in Processes, Proceed(p) \/ DiskRefuses(p) \/ Crash(p)
  PROVE  /\ Write(p) \/ files' = files
         /\ Truncate(p) \/ Save(p) \/ setting' = setting
         /\ ~Reconfigures(p) => setting' = setting
  <1>1. Write(p) \/ files' = files
    BY DEF Proceed, Begin, BeginConverting, AskKeychain, MakeInKeychain, ReadKeyFile, MakeKeyFile,
       ReadLayer, OpenLayer, ReadFile, Store, Seal, Convert, LoadConfig, Truncate, Save,
       DiskRefuses, Crash, Fail, shared, history
  <1>2. Truncate(p) \/ Save(p) \/ setting' = setting
    BY DEF Proceed, Begin, BeginConverting, AskKeychain, MakeInKeychain, ReadKeyFile, MakeKeyFile,
       ReadLayer, OpenLayer, ReadFile, Store, Seal, Convert, Write, LoadConfig,
       DiskRefuses, Crash, Fail, shared, history
  <1>3. Truncate(p) \/ Save(p) => Reconfigures(p)
    BY DEF TypeInv, Steps, Truncate, Save
  <1> QED
    BY <1>1, <1>2, <1>3

\* A command that leaves the setting alone.
LEMMA CalmOther ==
  ASSUME CopyInv, TypeInv', CalmInv, calm', NEW p \in Processes, ~Reconfigures(p),
         Proceed(p) \/ DiskRefuses(p) \/ Crash(p)
  PROVE  Calmed'
  <1>t. /\ TypeInv /\ TypeOK /\ Calmed /\ setting' = setting /\ job' = job
        /\ \A q \in Processes \ {p} : proc'[q] = proc[q]
        /\ ~Converts(p) /\ Target(p) \in Files
    BY Shares, WasCalm, Progress, JobTyped DEF CopyInv, TypeInv, CalmInv, Reconfigures
  <1>1. \A q \in Processes : Active(q) => ~Reconfigures(q)
    <2>1. CASE Begin(p)
      BY <2>1, <1>t, WasCalm
    <2>2. CASE ~Begin(p)
      <3>1. Active(p)
        BY <2>2 DEF Proceed, BeginConverting, AskKeychain, MakeInKeychain, ReadKeyFile, MakeKeyFile,
           ReadLayer, OpenLayer, ReadFile, Store, Seal, Convert, Write, LoadConfig, Truncate, Save,
           DiskRefuses, Crash, Active
      <3> QED
        BY <1>t, <3>1 DEF Calmed
    <2> QED
      BY <2>1, <2>2
  <1>2. \A f \in Files : Matches(files[f], setting)
    BY <1>t, <1>1 DEF Calmed
  <1>3. Storing(p)
    <2>1. CASE proc[p].pc = "idle"
      BY <2>1 DEF Storing, Needs, Keying
    <2>2. CASE Active(p)
      BY <1>t, <2>2 DEF Calmed
    <2>3. CASE proc[p].pc \in {"done", "failed"}
      BY <2>3 DEF Storing, Needs, Keying
    <2> QED
      BY <2>1, <2>2, <2>3 DEF Active
  <1>4. Storing(p)'
    BY <1>t, <1>2, <1>3, StoringNext
  <1>5. ASSUME NEW f \in Files PROVE Matches(files'[f], setting')
    <2>1. CASE Write(p)
      <3>1. Matches(proc[p].text, setting)
        BY <1>3, <2>1 DEF Write, Storing
      <3>2. files'[f] \in {files[f], proc[p].text}
        BY <1>t, <2>1 DEF Write, Written, TypeOK
      <3> QED
        BY <1>t, <1>2, <3>1, <3>2
    <2>2. CASE files' = files
      BY <1>t, <1>2, <2>2
    <2> QED
      BY <2>1, <2>2, Shares, <1>t
  <1>6. \A q \in Processes : Reconfigures(q)' = Reconfigures(q) /\ Converts(q)' = Converts(q)
    BY <1>t DEF Reconfigures, Converts
  <1>7. \A q \in Processes \ {p} : Active(q)' = Active(q)
    BY <1>t DEF Active
  <1>8. ASSUME NEW q \in Processes PROVE Active(q)' => ~Reconfigures(q)'
    BY <1>1, <1>6, <1>7
  <1>9. ASSUME NEW q \in Processes, Active(q)', ~Converts(q)' PROVE Storing(q)'
    <2>1. CASE q = p
      BY <1>4, <2>1
    <2>2. CASE q # p
      <3>1. Storing(q)
        BY <1>t, <1>6, <1>7, <1>9, <2>2 DEF Calmed
      <3> QED
        BY <1>t, <2>2, <3>1 DEF Storing, Needs
    <2> QED
      BY <2>1, <2>2
  <1> QED
    BY <1>5, <1>8, <1>9 DEF Calmed

\* A command that rewrites the setting, which in the calm is the only one.
LEMMA CalmSelf ==
  ASSUME CopyInv, TypeInv', CalmInv, calm', NEW p \in Processes, Reconfigures(p),
         Proceed(p) \/ DiskRefuses(p) \/ Crash(p)
  PROVE  Calmed'
  <1>t. /\ TypeInv /\ TypeOK /\ TypeOK' /\ Calmed /\ Fresh(p) /\ Steps(p) /\ Copies(p) /\ job' = job
        /\ \A q \in Processes \ {p} : proc'[q] = proc[q]
        /\ proc'[p].pc # "idle" /\ proc[p] \in Process /\ proc'[p] \in Process
        /\ overtaken' \subseteq overtaken \cup {q \in Processes \ {p} : Active(q)}
        /\ Target(p) \in Files /\ job[p].cmd # "run" /\ setting \in BOOLEAN
        /\ ~Converts(p) => job[p].cmd = "set"
        /\ keychain \in KeyIds \cup {NoKey} /\ keyFile \in KeyIds \cup {NoKey} /\ proc[p].key \in KeyIds \cup {NoKey}
        /\ p \in KeyIds \cup {NoKey}
    BY WasCalm, Progress, JobTyped DEF CopyInv, TypeInv, TypeOK, CalmInv, Reconfigures, Converts, Process, KeyIds
  <1>b. Begin(p) \/ Active(p)
    BY DEF Proceed, BeginConverting, AskKeychain, MakeInKeychain, ReadKeyFile, MakeKeyFile,
       ReadLayer, OpenLayer, ReadFile, Store, Seal, Convert, Write, LoadConfig, Truncate, Save,
       DiskRefuses, Crash, Active
  <1>c. Converts(p)' = Converts(p) /\ \A q \in Processes : Reconfigures(q)' = Reconfigures(q)
    BY <1>t DEF Reconfigures, Converts
  <1>a. \A q \in Processes \ {p} : ~Active(q) /\ ~Active(q)'
    <2>1. \A q \in Processes \ {p} : ~Active(q)
      BY <1>b, <1>t, WasCalm DEF Calmed
    <2> QED
      BY <2>1, <1>t DEF Active
  <1>r. Reforming(p)
    <2>1. CASE Begin(p)
      <3>1. proc[p].pc = "idle"
        BY <2>1 DEF Begin
      <3>2. \A f \in Files : Matches(files[f], setting)
        BY <1>a, <1>t, <3>1 DEF Calmed, Active
      <3>3. \A f \in Files : Form(p, f) = setting
        BY <3>1 DEF Form
      <3> QED
        BY <1>t, <3>1, <3>2, <3>3 DEF Reforming, Fresh
    <2> QED
      BY <1>b, <1>t, <2>1 DEF Calmed
  <1>s. ~Converts(p) => Storing(p)
    <2>1. CASE Begin(p)
      BY <2>1 DEF Begin, Storing, Needs, Keying
    <2> QED
      BY <1>b, <1>t, <2>1 DEF Calmed
  <1>o. p \notin overtaken'
    BY <1>t, <1>r DEF Reforming
  <1> SUFFICES Reforming(p)' /\ (~Converts(p) => Storing(p)')
    <2>1. ~Active(p)' => \A f \in Files : Matches(files'[f], setting')
      <3>1. ~Active(p)' => \A f \in Files : Form(p, f)' = setting'
        BY DEF Active, Form
      <3> QED
        BY <3>1 DEF Reforming
    <2> QED
      BY <1>a, <1>c, <2>1 DEF Calmed
  <1>1. ~Converts(p) => Storing(p)'
    <2>1. CASE ~Converts(p) /\ proc[p].pc # "save"
      <3>1. Form(p, Target(p)) = setting
        BY <2>1 DEF Form
      <3>2. Matches(files[Target(p)], setting)
        BY <1>r, <1>t, <3>1 DEF Reforming
      <3> QED
        BY <1>s, <1>t, <2>1, <3>2, StoringNext, WasCalm
    <2>2. CASE ~Converts(p) /\ proc[p].pc = "save"
      <3>1. Goto(p, "done") \/ Goto(p, "failed")
        BY <2>2 DEF Proceed, Begin, BeginConverting, AskKeychain, MakeInKeychain, ReadKeyFile, MakeKeyFile,
           ReadLayer, OpenLayer, ReadFile, Store, Seal, Convert, Write, LoadConfig, Truncate, Save,
           DiskRefuses, Crash, Fail
      <3>2. proc'[p].pc \in {"done", "failed"}
        BY <1>t, <3>1, GotoIs DEF Moves, Turn, Labels
      <3> QED
        BY <3>2 DEF Storing, Needs, Keying
    <2> QED
      BY <2>1, <2>2
  <1> SUFFICES Reforming(p)'
    BY <1>1
  <1>e. Converts(p) /\ Early(p) => proc[p].at = 1
    BY <1>t DEF Fresh
  <1>x. \A f \in Files : Matches(files[f], Form(p, f))
    BY <1>r DEF Reforming
  \* Steps that change neither a file nor the setting nor what is to be of the file.
  <1>q. ASSUME files' = files, setting' = setting, \A f \in Files : Form(p, f)' = Form(p, f),
               proc'[p].pc \notin {"truncate", "save"}
        PROVE  Reforming(p)'
    BY <1>o, <1>q, <1>x DEF Reforming
  <1>z. ASSUME proc[p].pc \in {"idle", "begin", "read", "store", "seal"} \cup Keying,
               files' = files, setting' = setting,
               \/ proc'[p].pc \in {"begin", "read", "store", "seal", "open", "done", "failed"} \cup Keying
               \/ proc'[p].pc = "write" /\ ~Converts(p)
        PROVE  Reforming(p)'
    <2>1. \A f \in Files : Form(p, f) = setting
      BY <1>z DEF Form, Keying
    <2>2. \A f \in Files : Form(p, f)' = setting
      BY <1>c, <1>z DEF Form, Keying
    <2> QED
      BY <1>q, <1>z, <2>1, <2>2 DEF Keying
  <1>2. CASE Begin(p) \/ BeginConverting(p)
    <2>1. /\ proc[p].pc \in {"idle", "begin"} /\ files' = files /\ setting' = setting
          /\ WithKey(p, "begin") \/ Goto(p, "read") \/ Goto(p, "failed") \/ (Converts(p) /\ Goto(p, "layer"))
      BY <1>t, <1>2 DEF Begin, BeginConverting, shared, Steps, Needs
    <2>2. CASE Converts(p) /\ Goto(p, "layer")
      <3>1. proc'[p].pc = "layer" /\ proc'[p].at = 1
        BY <1>t, <1>e, <2>1, <2>2, GotoIs DEF Moves, Turn, Labels, Early
      <3>2. \A f \in Files : Form(p, f) = setting /\ Form(p, f)' = setting
        BY <2>1, <3>1 DEF Form
      <3> QED
        BY <1>q, <2>1, <3>1, <3>2
    <2>3. CASE WithKey(p, "begin")
      <3>1. proc'[p].pc \in {"begin", "ask"}
        BY <1>t, <2>3, WithKeyIs DEF Moves, Turn
      <3> QED
        BY <1>z, <2>1, <3>1 DEF Keying
    <2>4. CASE Goto(p, "read") \/ Goto(p, "failed")
      <3>1. proc'[p].pc \in {"read", "failed"}
        BY <1>t, <2>4, GotoIs DEF Moves, Turn, Labels
      <3> QED
        BY <1>z, <2>1, <3>1
    <2> QED
      BY <2>1, <2>2, <2>3, <2>4
  <1>3. CASE AskKeychain(p) \/ MakeInKeychain(p) \/ ReadKeyFile(p) \/ MakeKeyFile(p)
    <2>1. /\ proc[p].pc \in Keying /\ files' = files /\ setting' = setting
          /\ \/ \E key \in KeyIds \cup {NoKey} : Found(p, key)
             \/ \E label \in Keying : Goto(p, label)
      BY <1>t, <1>3 DEF AskKeychain, MakeInKeychain, ReadKeyFile, MakeKeyFile, Keying, shared
    <2>2. proc'[p].pc \in Keying \cup {"begin", "open", "seal"}
      BY <1>t, <2>1, FoundIs, GotoIs DEF Moves, Turn, Keying, Labels, Process
    <2> QED
      BY <1>z, <2>1, <2>2
  <1>4. CASE ReadLayer(p)
    <2>1. Converts(p) /\ proc[p].pc = "layer" /\ files' = files /\ setting' = setting
      BY <1>t, <1>4 DEF ReadLayer, Steps, shared
    <2>2. proc'[p].pc = "convert" /\ proc'[p].at = proc[p].at
      BY <1>t, <1>4, <2>1, ReadLayerIs DEF Turn
    <2>3. \A f \in Files : Form(p, f)' = Form(p, f)
      BY <1>c, <1>t, <2>1, <2>2 DEF Form
    <2> QED
      BY <1>q, <2>1, <2>2, <2>3
  <1>5. CASE OpenLayer(p)
    BY <1>t, <1>5 DEF OpenLayer, Steps, Needs
  <1>6. CASE ReadFile(p)
    <2>1. ~Converts(p) /\ proc[p].pc = "read" /\ files' = files /\ setting' = setting
      BY <1>t, <1>6 DEF ReadFile, Steps, shared
    <2>2. proc'[p].pc \in {"store", "write", "done"}
      BY <1>t, <1>6, <2>1, ReadFileIs DEF Turn
    <2> QED
      BY <1>z, <2>1, <2>2
  <1>7. CASE Store(p) \/ Seal(p)
    <2>1. ~Converts(p) /\ proc[p].pc \in {"store", "seal"} /\ files' = files /\ setting' = setting
      BY <1>t, <1>7 DEF Store, Seal, Steps, Needs, Converts, shared
    <2>2. WithKey(p, "seal") \/ \E under \in KeyIds \cup {Plain} : PutText(p, under)
      BY <1>t, <1>7 DEF Store, Seal
    <2>3. CASE WithKey(p, "seal")
      <3>1. proc'[p].pc \in {"seal", "ask"}
        BY <1>t, <2>3, WithKeyIs DEF Moves, Turn
      <3> QED
        BY <1>z, <2>1, <3>1 DEF Keying
    <2>4. ASSUME NEW under \in KeyIds \cup {Plain}, PutText(p, under) PROVE Reforming(p)'
      <3>1. job[p].name \in Names
        BY <1>t, <2>1, JobTyped
      <3>2. proc'[p].pc = "write"
        BY <1>t, <2>4, <3>1, PutTextIs DEF Turn
      <3> QED
        BY <1>z, <2>1, <3>2
    <2> QED
      BY <2>2, <2>3, <2>4
  <1>8. CASE Convert(p) \/ (Write(p) /\ Converts(p))
    <2> DEFINE enc == job[p].cmd = "encrypt"
    <2>1. /\ Converts(p) /\ proc[p].pc \in {"convert", "write"} /\ setting' = setting
          /\ proc[p].key # NoKey /\ proc[p].at \in 1..2 /\ Matches(Converted(p), enc)
      <3>1. Converts(p) /\ proc[p].pc \in {"convert", "write"} /\ setting' = setting /\ proc[p].key # NoKey
        BY <1>t, <1>8 DEF Convert, Write, Steps, shared, Needs
      <3> QED
        BY <1>t, <3>1, ConvertedMatches DEF Process
    <2>2. Target(p) = Cascade[proc[p].at] /\ Cascade[1] = ".env" /\ Cascade[2] = ".env.local"
      BY <2>1 DEF Target, Converts, Cascade
    <2>3. \A f \in Files : f = ".env" \/ f = ".env.local"
      BY DEF Files
    \* The file is as it will be, and the command goes on to the next one.
    <2>4. ASSUME NextFile(p, proc[p]), \A f \in Files : f # Target(p) => files'[f] = files[f],
                 Matches(files'[Target(p)], enc)
          PROVE  Reforming(p)'
      <3>1. CASE proc[p].at = 1 /\ proc'[p].pc = "layer" /\ proc'[p].at = 2
        <4>1. Form(p, ".env")' = enc /\ Form(p, ".env.local")' = setting /\ Form(p, ".env.local") = setting
          BY <1>t, <1>c, <2>1, <3>1 DEF Form
        <4>2. Matches(files'[".env"], enc) /\ Matches(files'[".env.local"], setting)
          BY <1>x, <2>2, <2>4, <3>1, <4>1 DEF Files
        <4>3. \A f \in Files : Matches(files'[f], Form(p, f)')
          BY <2>3, <4>1, <4>2
        <4> QED
          BY <1>o, <3>1, <4>3 DEF Reforming
      <3>2. CASE proc[p].at = 2 /\ proc'[p].pc = "load"
        <4>1. Form(p, ".env")' = enc /\ Form(p, ".env.local")' = enc /\ Form(p, ".env") = enc
          BY <1>t, <1>c, <2>1, <3>2 DEF Form
        <4>2. Matches(files'[".env"], enc) /\ Matches(files'[".env.local"], enc)
          BY <1>x, <2>2, <2>4, <3>2, <4>1 DEF Files
        <4>3. \A f \in Files : Matches(files'[f], Form(p, f)')
          BY <2>3, <4>1, <4>2
        <4> QED
          BY <1>o, <3>2, <4>3 DEF Reforming
      <3> QED
        BY <1>t, <2>4, <3>1, <3>2, NextFileIs DEF Turn, Moves
    <2>5. CASE Convert(p)
      <3>1. /\ proc[p].pc = "convert" /\ files' = files /\ proc[p].base = files[Target(p)]
        BY <1>t, <1>r, <2>5 DEF Convert, shared, Copies, Holding, Same, Reforming
      <3>2. CASE Moves(p, "failed") /\ calm' = FALSE
        BY <3>2
      <3>3. CASE Converted(p) = proc[p].base /\ NextFile(p, proc[p])
        BY <2>1, <2>4, <3>1, <3>3
      <3>4. CASE Turn(p, "write", proc[p].then, proc[p].at, proc[p].base, Converted(p),
                      proc[p].key, proc[p].cfg, proc[p].value)
        <4>1. proc'[p].pc = "write" /\ proc'[p].at = proc[p].at
          BY <3>4 DEF Turn
        <4>2. \A f \in Files : Form(p, f)' = Form(p, f)
          BY <1>c, <1>t, <2>1, <3>1, <4>1 DEF Form
        <4> QED
          BY <1>q, <2>1, <3>1, <4>1, <4>2
      <3> QED
        BY <1>t, <2>1, <2>5, <3>2, <3>3, <3>4, ConvertIs
    <2>6. CASE Write(p)
      <3>1. proc[p].text = Converted(p) /\ NextFile(p, proc[p])
        BY <1>t, <2>1, <2>6 DEF Write, Copies, Ready
      <3>2. files'[Target(p)] = Converted(p) /\ \A f \in Files : f # Target(p) => files'[f] = files[f]
        BY <1>t, <2>6, <3>1 DEF Write, Written, TypeOK
      <3> QED
        BY <2>1, <2>4, <3>1, <3>2
    <2> QED
      BY <1>8, <2>5, <2>6
  <1>9. CASE Write(p) /\ ~Converts(p)
    <2>1. proc[p].pc = "write" /\ setting' = setting /\ Matches(proc[p].text, setting)
      BY <1>s, <1>9 DEF Write, Storing
    <2>2. proc'[p].pc \in {"done", "load"}
      BY <1>t, <1>9, WriteIs DEF Turn, Moves
    <2>3. \A f \in Files : Form(p, f) = setting /\ Form(p, f)' = setting
      BY <1>c, <1>9, <2>1, <2>2 DEF Form
    <2>4. \A f \in Files : files'[f] \in {files[f], proc[p].text}
      BY <1>t, <1>9 DEF Write, Written, TypeOK
    <2>5. \A f \in Files : Matches(files'[f], Form(p, f)')
      BY <1>x, <2>1, <2>3, <2>4
    <2> QED
      BY <1>o, <2>2, <2>5 DEF Reforming
  <1>10. CASE LoadConfig(p)
    <2> DEFINE cfg == IF Converts(p) THEN job[p].cmd = "encrypt" ELSE setting
    <2>1. /\ proc[p].pc = "load" /\ files' = files /\ setting' = setting
          /\ \A f \in Files : Form(p, f) = cfg
      BY <1>10 DEF LoadConfig, shared, Form
    <2>2. CASE cfg = setting /\ proc'[p].pc = "done"
      <3>1. \A f \in Files : Form(p, f)' = setting
        BY <2>1, <2>2 DEF Form
      <3> QED
        BY <1>q, <2>1, <2>2, <3>1
    <2>3. CASE proc'[p].pc = "truncate" /\ proc'[p].cfg = cfg
      <3>1. \A f \in Files : Form(p, f)' = cfg
        BY <1>c, <1>t, <2>1, <2>3 DEF Form
      <3>2. \A f \in Files : Matches(files'[f], Form(p, f)')
        BY <1>x, <2>1, <3>1
      <3> QED
        BY <1>o, <1>c, <1>t, <2>1, <2>3, <3>2 DEF Reforming
    <2> QED
      BY <1>t, <1>10, <2>2, <2>3, LoadConfigIs DEF Moves, Turn
  <1>11. CASE Truncate(p)
    <2>1. proc[p].pc = "truncate" /\ files' = files
      BY <1>11 DEF Truncate
    <2>2. proc'[p].pc = "save" /\ proc'[p].cfg = proc[p].cfg
      BY <1>t, <1>11, GotoIs DEF Truncate, Moves, Turn, Labels
    <2>3. \A f \in Files : Form(p, f) = proc[p].cfg
      BY <1>r, <2>1 DEF Form, Reforming
    <2>4. \A f \in Files : Form(p, f)' = proc[p].cfg
      BY <2>2 DEF Form
    <2>5. \A f \in Files : Matches(files'[f], Form(p, f)')
      BY <1>x, <2>1, <2>3, <2>4
    <2> QED
      BY <1>o, <1>c, <1>r, <1>t, <2>1, <2>2, <2>5 DEF Reforming
  <1>12. CASE Save(p)
    <2>1. proc[p].pc = "save" /\ files' = files /\ setting' = proc[p].cfg
      BY <1>12 DEF Save
    <2>2. proc'[p].pc = "done"
      BY <1>t, <1>12, GotoIs DEF Save, Moves, Turn, Labels
    <2>3. \A f \in Files : Form(p, f) = proc[p].cfg /\ Form(p, f)' = proc[p].cfg
      BY <2>1, <2>2 DEF Form
    <2>4. \A f \in Files : Matches(files'[f], Form(p, f)')
      BY <1>x, <2>1, <2>3
    <2> QED
      BY <1>o, <2>2, <2>4 DEF Reforming
  <1>13. CASE DiskRefuses(p) \/ Crash(p)
    <2>1. files' = files /\ setting' = setting /\ Goto(p, "failed")
      BY <1>13 DEF DiskRefuses, Crash, Fail, shared
    <2>2. proc'[p].pc = "failed"
      BY <1>t, <2>1, GotoIs DEF Moves, Turn, Labels
    <2>3. ~Apart(p)
      BY <1>13, <1>t, WasCalm
    <2>4. \A f \in Files : Form(p, f) = setting /\ Form(p, f)' = setting
      BY <2>1, <2>2, <2>3 DEF Form, Apart
    <2> QED
      BY <1>q, <2>1, <2>2, <2>4
  <1> QED
    BY <1>2, <1>3, <1>4, <1>5, <1>6, <1>7, <1>8, <1>9, <1>10, <1>11, <1>12, <1>13 DEF Proceed

LEMMA CalmNext == CopyInv /\ TypeInv' /\ CalmInv /\ [Next]_vars => CalmInv'
  <1> SUFFICES ASSUME CopyInv, TypeInv', CalmInv, [Next]_vars PROVE CalmInv'
    OBVIOUS
  <1>1. CASE UNCHANGED vars
    <2>1. UNCHANGED <<files, setting, job, proc, overtaken, calm>>
      BY <1>1 DEF vars, shared, history
    <2>2. \A p \in Processes : /\ Fresh(p)' = Fresh(p) /\ Reforming(p)' = Reforming(p) /\ Storing(p)' = Storing(p)
                               /\ Active(p)' = Active(p) /\ Reconfigures(p)' = Reconfigures(p)
                               /\ Converts(p)' = Converts(p)
      BY <2>1 DEF Fresh, Early, Reforming, Form, Storing, Needs, Active, Reconfigures, Converts
    <2> QED
      BY <2>1, <2>2 DEF CalmInv, Calmed
  <1>2. ASSUME NEW p \in Processes, Proceed(p) \/ DiskRefuses(p) \/ Crash(p) PROVE CalmInv'
    <2>1. \A q \in Processes : Fresh(q)'
      BY <1>2, FreshNext DEF CopyInv, CalmInv
    <2>2. calm' => Calmed'
      BY <1>2, CalmOther, CalmSelf
    <2> QED
      BY <2>1, <2>2 DEF CalmInv
  <1> QED
    BY <1>1, <1>2 DEF Next

LEMMA MatchedIs == CopyInv /\ CalmInv => SettingMatches
  BY DEF CalmInv, Calmed, SettingMatches, Matches, Files

\* Every ciphertext opens with the key a command finds or with PENV_LOCAL_KEY's, except
\* under a key that was passed over for another or replaced by one, and the sensitive values are encrypted exactly when the setting says so, if the
\* commands that rewrite it ran alone and to their end (localcrypt::kept, file_key,
\* stored; crypt::run; config::save).
THEOREM Encryption == Spec => []EncryptionHolds
  <1>1. Init => CopyInv /\ Lasting /\ CalmInv
    BY InitCopies, InitLasting, InitCalmed
  <1>2. CopyInv /\ Lasting /\ CalmInv /\ [Next]_vars => (CopyInv /\ Lasting /\ CalmInv)'
    <2>1. CopyInv /\ [Next]_vars => TypeInv'
      BY CopyNext DEF CopyInv
    <2> QED
      BY <2>1, CopyNext, KeyNext, CalmNext
  <1>3. CopyInv /\ Lasting /\ CalmInv => EncryptionHolds
    BY FoundKeys, MatchedIs DEF EncryptionHolds
  <1> QED
    BY <1>1, <1>2, <1>3, PTL DEF Spec

=============================================================================
