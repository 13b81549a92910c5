-------------------------------- MODULE Undo ---------------------------------
(***************************************************************************)
(* The undo engine (gr/undo.c) of one buffer, driven by the line editing   *)
(* primitives (gr/line.c) and marked by the saving of the file             *)
(* (gr/file.c).                                                            *)
(*                                                                         *)
(* The log's records are linked backwards (u_last), so the undo and redo   *)
(* lists are stacks.  A record says how to take its change back: DELETE    *)
(* what was inserted, INSERT what was deleted, REPLACE, GOTO the cursor    *)
(* position, START for the point of a save.  Records of one command are    *)
(* numbered from 0 (u_chain), and do_undo pops records until it has popped *)
(* one numbered 0; each pass of its loop is a step.                        *)
(*                                                                         *)
(* The text is the sequence of the buffer's characters, the end of every   *)
(* line among them, and a cursor position (line and column) is the number  *)
(* of characters before it: Len(text) is the line below the last.          *)
(***************************************************************************)
EXTENDS Naturals, Sequences, FiniteSets, SequencesExt

CONSTANTS Letters, Spaces, NL, \* characters: isalnum, blanks and '\n'
          None,                \* no character, no text
          Torn,                \* a file that a save left incomplete
          Strings,             \* what a macro may insert
          Bottom,              \* edits that may reach the end of the last
                               \* line: "insert" below it, "delete" of it
          Typing,              \* whether self_insert is used
          Elsewhere,           \* whether the cursor may move unrecorded
          Redo,                \* whether redo is used
          Moves, Pasts,        \* the arguments move and pastwrite of undo
          Saves,               \* outcomes of a save: "ok", "write", "close"
          MaxText, MaxLog      \* bounds: characters, records of undo

Blank == Spaces \cup {NL}
Char  == Letters \cup Blank

(* pastwrite, whether to undo past a save: 0, negative, positive.          *)
PastWrite == {"no", "ask", "yes"}

ASSUME UndoConstants ==
    /\ Letters \cap Blank = {} /\ NL \notin Spaces /\ None \notin Char
    /\ Torn \notin Seq(Char) /\ None \notin Seq(Char)
    /\ Strings \subseteq Seq(Char) /\ <<>> \notin Strings
    /\ Bottom \subseteq {"insert", "delete"}
    /\ Typing \in BOOLEAN /\ Elsewhere \in BOOLEAN /\ Redo \in BOOLEAN
    /\ Moves \subseteq BOOLEAN /\ Pasts \subseteq PastWrite
    /\ Saves \subseteq {"ok", "write", "close"}
    /\ MaxText \in Nat /\ MaxLog \in Nat

VARIABLES
    text, dot,          \* the lines of the buffer; cur_line and cur_col
    undo, redo,         \* b_undo and b_redo: the records from u_last back
    undoChain,          \* b_undo.u_chain
    redoChain,          \* b_redo.u_chain
    ustate, past, move, \* x_undo_state and the arguments of the do_undo
    nummod, changed,    \* b_nummod, BF_CHANGED
    disk,               \* the file
    uchar,              \* b_uchar: the last character typed
    cmd,                \* history: what the command under way has done
    base                \* history: the text before the last editing command

buffer  == <<text, dot>>
log     == <<undo, redo, undoChain, redoChain>>
command == <<ustate, past, move>>
marks   == <<nummod, changed>>
ghost   == <<cmd, base>>
vars == <<buffer, log, command, marks, disk, uchar, ghost>>

Edits == {"INSERT", "DELETE", "REPLACE"}

(* A record: its operation, position, the characters to remove, those to   *)
(* put back, its number in the command; and, as history, the text that was *)
(* before the change.                                                      *)
Record(op, at, n, s, was) ==
    [op |-> op, at |-> at, len |-> n, text |-> s, chain |-> 0, was |-> was]

(* llinepad: a cursor below the last line is given a line.                 *)
Padded(t, p) == IF p = Len(t) THEN Append(t, NL) ELSE t
PadRecords(t, p) ==
    IF p < Len(t) THEN <<>>
    ELSE <<Record("GOTO", p, 0, <<>>, t), Record("DELETE", p, 1, <<>>, t)>>

Paste(t, p, s) == IF s = <<>> THEN t
                  ELSE SubSeq(t, 1, p) \o s \o SubSeq(Padded(t, p), p + 1, Len(Padded(t, p)))

(* ldeletedot: the end of the last line goes only with the whole line.     *)
Cut(t, p, n) ==
    LET whole == p = 0 \/ t[p] = NL
        m == IF p + n = Len(t) /\ ~whole THEN n - 1 ELSE n
    IN  SubSeq(t, 1, p) \o SubSeq(t, p + m + 1, Len(t))

(* The text after the change of r is taken back.                           *)
TakenBack(t, r) == Paste(Cut(t, r.at, r.len), r.at, r.text)

(* linserts: the string goes in line by line.  Each line records the       *)
(* characters before its end, the cursor and then the end, if it has one.  *)
LineEnds(s) == {i \in 1..Len(s) : s[i] = NL \/ i = Len(s)}
LineRecords(t, p, s, e) ==
    LET b == CHOOSE i \in {0} \cup LineEnds(s) :
                 i < e /\ \A j \in LineEnds(s) : j < e => j <= i
        n == (IF s[e] = NL THEN e - 1 ELSE e) - b
        Sofar(i) == Paste(t, p, SubSeq(s, 1, i))
    IN  (IF n > 0 THEN <<Record("DELETE", p + b, n, <<>>, Sofar(b))>> ELSE <<>>)
        \o <<Record("GOTO", p + b, 0, <<>>, Sofar(b + n))>>
        \o (IF s[e] = NL THEN <<Record("DELETE", p + e - 1, 1, <<>>, Sofar(e - 1))>>
                         ELSE <<>>)
Inserted(t, p, s) ==
    LET recs[e \in 0..Len(s)] ==
            IF e = 0 THEN IF s = <<>> THEN <<>> ELSE PadRecords(t, p)
            ELSE recs[e - 1] \o (IF e \in LineEnds(s)
                                   THEN LineRecords(Padded(t, p), p, s, e)
                                   ELSE <<>>)
    IN  recs[Len(s)]

(* ldeletedot: the characters go into the record.                          *)
Deleted(t, p, n) == <<Record("INSERT", p, 0, SubSeq(t, p + 1, p + n), t)>>

(* uwrite_op: the records are linked and numbered.                         *)
Numbered(recs, chain) ==
    [i \in 1..Len(recs) |-> [recs[i] EXCEPT !.chain = chain + i - 1]]

----------------------------------------------------------------------------
Init == /\ text \in {<<>>, <<NL>>} /\ dot = 0
        /\ undo = <<>> /\ redo = <<>> /\ undoChain = 0 /\ redoChain = 0
        /\ ustate = "normal" /\ past = "no" /\ move = FALSE
        /\ nummod = 0 /\ changed = FALSE
        /\ disk = text /\ uchar = None
        /\ cmd = "fresh" /\ base = None

(* keyboard.c and k_end: a command starts with u_chain.                    *)
Key == /\ ustate = "normal"
       /\ cmd # "fresh"
       /\ undoChain' = 0 /\ redoChain' = 0
       /\ cmd' = "fresh" /\ base' = None
       /\ UNCHANGED <<buffer, undo, redo, command, marks, disk, uchar>>

Editing == /\ ustate = "normal"
           /\ cmd \in {"fresh", "edit"}
           /\ cmd' = "edit"
           /\ base' = IF cmd = "fresh" THEN text ELSE base
           /\ UNCHANGED command

EditsOf(recs) == Cardinality({i \in 1..Len(recs) : recs[i].op \in Edits})

MutLogKeepsRedo(recs) ==
    /\ Len(undo) + Len(recs) <= MaxLog
    /\ undo' = undo \o Numbered(recs, undoChain)
    /\ undoChain' = undoChain + Len(recs)
    /\ nummod' = nummod + EditsOf(recs)
    /\ UNCHANGED <<redo, redoChain>>

(* undo_check and uwrite_op in US_NORMAL.                                  *)
Log(recs) ==
    /\ Len(undo) + Len(recs) <= MaxLog
    /\ undo' = undo \o Numbered(recs, undoChain)
    /\ undoChain' = undoChain + Len(recs)
    /\ redo' = <<>>
    /\ nummod' = nummod + EditsOf(recs)
    /\ UNCHANGED redoChain

(* Of the classes of characters that typing collapses by, letters and      *)
(* blanks are kept; punctuation and escapes would collapse as they do.     *)
SameClass(c, d) == c # None /\ ((c \in Blank) <=> (d \in Blank))

MutCollapses(c) == /\ undo # <<>>
                   /\ SameClass(uchar, c)
                   /\ Last(undo).op \in {"DELETE", "GOTO"}

(* u_delete while x_selfinsert: a character of the class of the last one   *)
(* typed is added to the last record, if that is a DELETE.                 *)
Collapses(c) == /\ undo # <<>>
                /\ SameClass(uchar, c)
                /\ Last(undo).op = "DELETE"

Collapse(recs) ==
    LET top == Last(undo) IN
    /\ Len(undo) + Len(recs) <= MaxLog
    /\ undo' = Front(undo) \o <<[top EXCEPT !.len = @ + 1]>>
                           \o Numbered(recs, undoChain)
    /\ undoChain' = undoChain + Len(recs)
    /\ redo' = <<>>
    /\ UNCHANGED <<redoChain, nummod>>

Inserting == dot = Len(text) => "insert" \in Bottom

(* self_insert in insert mode: linsertc, or lnewline for a newline, which  *)
(* records no cursor position.  The character may be added to the record   *)
(* of the line it was given.                                               *)
SelfInsert(c) ==
    LET pad == PadRecords(text, dot)
        del == Record("DELETE", dot, 1, <<>>, Padded(text, dot))
        go  == Record("GOTO", dot, 0, <<>>, Paste(text, dot, <<c>>))
        tail == IF c = NL THEN <<>> ELSE <<go>>
    IN  /\ Typing
        /\ Editing
        /\ Inserting
        /\ Len(Padded(text, dot)) < MaxText
        /\ CASE pad # <<>> /\ SameClass(uchar, c) ->
                    Log(<<pad[1], [pad[2] EXCEPT !.len = 2]>> \o tail)
             [] pad = <<>> /\ Collapses(c) -> Collapse(tail)
             [] OTHER -> Log(pad \o <<del>> \o tail)
        /\ text' = Paste(text, dot, <<c>>)
        /\ dot' = dot + 1
        /\ changed' = TRUE
        /\ uchar' = c
        /\ UNCHANGED disk

(* insert: linserts.                                                       *)
Insert(s) == /\ Editing
             /\ Inserting
             /\ Len(Padded(text, dot)) + Len(s) <= MaxText
             /\ Log(Inserted(text, dot, s))
             /\ text' = Paste(text, dot, s)
             /\ dot' = dot + Len(s)
             /\ changed' = TRUE
             /\ UNCHANGED <<disk, uchar>>

(* delete_char and the like: ldeletedot.                                   *)
Delete(n) == /\ Editing
             /\ dot + n <= Len(text)
             /\ dot + n = Len(text) => "delete" \in Bottom
             /\ Log(Deleted(text, dot, n))
             /\ text' = Cut(text, dot, n)
             /\ changed' = TRUE
             /\ UNCHANGED <<dot, disk, uchar>>

(* self_insert in overstrike mode: lwrite, which appends at the end of a   *)
(* line.                                                                   *)
Overwrite(c) ==
    LET t == Padded(text, dot)
        n == IF t[dot + 1] # NL THEN 1 ELSE 0
    IN
    /\ Editing
    /\ Inserting
    /\ c # NL
    /\ Len(t) + 1 - n <= MaxText
    /\ Log(PadRecords(text, dot)
               \o <<Record("REPLACE", dot, 1, SubSeq(t, dot + 1, dot + n), t)>>)
    /\ text' = Paste(Cut(t, dot, n), dot, <<c>>)
    /\ dot' = dot + 1
    /\ changed' = TRUE
    /\ uchar' = c
    /\ UNCHANGED disk

(* The movement primitives: u_dot.                                         *)
MoveTo(d) == /\ Editing
             /\ d # dot
             /\ Log(<<Record("GOTO", dot, 0, <<>>, text)>>)
             /\ dot' = d
             /\ UNCHANGED <<text, changed, disk, uchar>>

(* A change of window: another window on the buffer has its own cursor.    *)
ChangeWindow(d) == /\ Elsewhere
                   /\ ustate = "normal"
                   /\ d # dot
                   /\ dot' = d
                   /\ UNCHANGED <<text, log, command, marks, disk, uchar, ghost>>

(* file_write: nothing to do for an unmodified buffer.  A file that could  *)
(* not be written leaves the buffer as it was; one that could not be       *)
(* closed counts as written.                                               *)
SaveFails == /\ "write" \in Saves
             /\ ustate = "normal" /\ cmd \in {"fresh", "edit"}
             /\ nummod # 0
             /\ disk' = Torn
             /\ UNCHANGED <<buffer, log, command, marks, uchar, ghost>>

MutSave(outcome) ==
    /\ outcome \in Saves \ {"write"}
    /\ Editing
    /\ nummod # 0
    /\ Len(undo) < MaxLog
    /\ undoChain' = undoChain
    /\ undo' = undo
    /\ redo' = <<>>
    /\ nummod' = 0
    /\ changed' = FALSE
    /\ disk' = IF outcome = "ok" THEN text ELSE Torn
    /\ UNCHANGED <<buffer, redoChain, uchar>>

Save(outcome) ==
    /\ outcome \in Saves \ {"write"}
    /\ Editing
    /\ nummod # 0
    /\ Len(undo) < MaxLog
    /\ undo' = undo \o Numbered(<<Record("START", dot, 0, <<>>, text)>>, undoChain)
    /\ undoChain' = undoChain + 1
    /\ redo' = <<>>
    /\ nummod' = 0
    /\ changed' = FALSE
    /\ disk' = IF outcome = "ok" THEN text ELSE Torn
    /\ UNCHANGED <<buffer, redoChain, uchar>>
----------------------------------------------------------------------------
(* do_undo, from a key of its own.                                         *)
Begin(r, p, m) ==
    /\ ustate = "normal"
    /\ ustate' = (IF r THEN "redo" ELSE "undo") /\ past' = p /\ move' = m
    /\ undoChain' = 0 /\ redoChain' = 0
    /\ IF cmd = "edit" /\ ~r
          THEN cmd' = "undone" /\ base' = base
          ELSE cmd' = "other" /\ base' = None
    /\ UNCHANGED <<buffer, undo, redo, marks, disk, uchar>>

BeginUndo == \E p \in Pasts, m \in Moves : Begin(FALSE, p, m)
BeginRedo == Redo /\ \E p \in Pasts, m \in Moves : Begin(TRUE, p, m)

Source == IF ustate = "redo" THEN redo ELSE undo

(* The record leaves its list, and what its undoing records goes to the    *)
(* redo list, or to the undo list in a redo.                               *)
Popped(recs) ==
    IF ustate = "undo"
      THEN /\ undo' = Front(undo)
           /\ redo' = redo \o Numbered(recs, redoChain)
           /\ redoChain' = redoChain + Len(recs) /\ UNCHANGED undoChain
      ELSE /\ redo' = Front(redo)
           /\ undo' = undo \o Numbered(recs, undoChain)
           /\ undoChain' = undoChain + Len(recs) /\ UNCHANGED redoChain

MutContinue(r) == ustate' = IF r.chain > 1 THEN ustate ELSE "normal"

(* The loop of do_undo, after a record.                                    *)
Continue(r) ==
    LET chain == IF move /\ r.op \notin {"INSERT", "DELETE"} THEN 1 ELSE r.chain
    IN  ustate' = IF chain # 0 THEN ustate ELSE "normal"

MutUncounted == nummod - 1

(* b_nummod counts down, to 0 at the least, in a redo as in an undo.       *)
Uncounted == IF nummod = 0 THEN 0 ELSE nummod - 1

Undoing == /\ ustate # "normal"
           /\ UNCHANGED <<past, move, disk, uchar>>

(* undo_command, UO_INSERT, UO_DELETE and UO_REPLACE.  A text of up to 64  *)
(* bytes is inserted again at once, as here; a longer one in pieces.       *)
UndoEdit ==
    LET r == Last(Source)
        cut == IF r.len = 0 THEN <<>> ELSE Deleted(text, r.at, r.len)
        put == Inserted(Cut(text, r.at, r.len), r.at, r.text)
    IN  /\ Undoing
        /\ Source # <<>>
        /\ r.op \in Edits
        /\ Popped(cut \o put)
        /\ text' = TakenBack(text, r)
        /\ dot' = IF ustate = "undo" THEN r.at ELSE r.at + Len(r.text)
        /\ nummod' = Uncounted
        /\ changed' = TRUE
        /\ Continue(r)
        /\ UNCHANGED ghost

UndoGoto ==
    LET r == Last(Source)
    IN  /\ Undoing
        /\ Source # <<>>
        /\ r.op = "GOTO"
        /\ Popped(<<>>)
        /\ dot' = r.at
        /\ Continue(r)
        /\ UNCHANGED <<text, marks, ghost>>

(* The end of a do_undo that could not go on: undo_command returned -1.    *)
Stop == /\ ustate' = "normal"
        /\ cmd' = "other" /\ base' = None

MutUndoStart ==
    LET r == Last(Source)
    IN  /\ Undoing
        /\ Source # <<>>
        /\ r.op = "START"
        /\ Popped(<<>>)
        /\ IF past = "no" THEN Stop ELSE Continue(r) /\ UNCHANGED ghost
        /\ UNCHANGED <<buffer, marks>>

(* The mark of a save, which "ask" leaves to the user.                     *)
UndoStart ==
    LET r == Last(Source)
    IN  /\ Undoing
        /\ Source # <<>>
        /\ r.op = "START"
        /\ \/ past # "no" /\ Popped(<<>>) /\ Continue(r) /\ UNCHANGED ghost
           \/ past # "yes" /\ Stop /\ UNCHANGED log
        /\ UNCHANGED <<buffer, marks>>

UndoNothing == /\ Undoing
               /\ Source = <<>>
               /\ Stop
               /\ changed' = FALSE
               /\ UNCHANGED <<buffer, log, nummod>>

Next == \/ Key
        \/ \E c \in Char : SelfInsert(c) \/ Overwrite(c)
        \/ \E s \in Strings : Insert(s)
        \/ \E n \in 1..2 : Delete(n)
        \/ \E d \in 0..Len(text) : MoveTo(d) \/ ChangeWindow(d)
        \/ SaveFails
        \/ \E outcome \in Saves : Save(outcome)
        \/ BeginUndo \/ BeginRedo
        \/ UndoEdit \/ UndoGoto \/ UndoStart \/ UndoNothing

Spec == Init /\ [][Next]_vars
----------------------------------------------------------------------------
RecordOK(r) == /\ r.op \in Edits \cup {"GOTO", "START"}
               /\ r.at \in Nat /\ r.len \in Nat /\ r.chain \in Nat
               /\ r.text \in Seq(Char) /\ r.was \in Seq(Char)

(* Every variable has its type; the cursor is in the text, wherever undo   *)
(* and redo have put it, and only a do_undo under way has no command.      *)
TypeOK ==
    /\ text \in Seq(Char) /\ dot \in 0..Len(text)
    /\ text # <<>> => Last(text) = NL
    /\ \A i \in 1..Len(undo) : RecordOK(undo[i])
    /\ \A i \in 1..Len(redo) : RecordOK(redo[i])
    /\ undoChain \in Nat /\ redoChain \in Nat
    /\ ustate \in {"normal", "undo", "redo"} /\ past \in PastWrite /\ move \in BOOLEAN
    /\ nummod \in Nat /\ changed \in BOOLEAN
    /\ disk = Torn \/ disk \in Seq(Char)
    /\ uchar \in Char \cup {None}
    /\ cmd \in {"fresh", "edit", "undone", "other"}
    /\ base = None \/ base \in Seq(Char)
    /\ ustate # "normal" => cmd \in {"undone", "other"}

(* The text at which the record stk[i] stands: that of the record above.   *)
Above(stk, i) == IF i = Len(stk) THEN text ELSE stk[i + 1].was

Replays(stk) ==
    \A i \in 1..Len(stk) :
        /\ stk[i].at + stk[i].len <= Len(Above(stk, i))
        /\ TakenBack(Above(stk, i), stk[i]) = stk[i].was

(* Each record of the undo and redo lists fits the text it will meet, and  *)
(* takes back exactly the change it was written for, through any mixture   *)
(* of edits, saves, undos and redos (undo_command, uwrite_op, undo_check). *)
(* The redo list counts where redo is used.                                *)
Replayable == Replays(undo) /\ (Redo => Replays(redo))

(* With undo confined to the time since the last save, the last START      *)
(* record marks the text that is in the file (u_terminate, undo_command).  *)
MarkStands ==
    \A i \in 1..Len(undo) :
        undo[i].op = "START" /\ (\A j \in (i + 1)..Len(undo) : undo[j].op # "START")
            => undo[i].was = disk

(* A buffer with no modifications counted, which file_write declines to    *)
(* write and buf_isdirty lets go, is as the file (b_nummod).               *)
Unmodified == ustate = "normal" /\ nummod = 0 => text = disk

(* A buffer that differs from its file is shown as changed (BF_CHANGED).   *)
ChangedShown == text # disk => changed

(* An undo right after a command that changed the text brings back the     *)
(* text the command found (the chain numbers of uwrite_op and do_undo).    *)
UndoRestores == ustate = "normal" /\ cmd = "undone" => text = base
==============================================================================
