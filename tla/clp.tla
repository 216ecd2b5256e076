-------------------------------- MODULE clp --------------------------------
(***************************************************************************)
(* The command-line parser of src/utils/src/clp.c: the line editor fed one *)
(* character at a time from the UART interrupt (clp_rxChar), the tokenizer *)
(* and the menu dispatcher (clp_parse, clp_findEntry).  The menu is the    *)
(* list gs_clp.p_first .. p_next, given as a sequence of entries in list   *)
(* order; an entry's parent is its index in that sequence, 0 for NULL.     *)
(* Characters are one-letter strings; NUL is the terminator.               *)
(***************************************************************************)
EXTENDS Naturals, Sequences, SequencesExt

CONSTANTS
  CLP_COMMAND_LINE_LEN,  \* size of gs_clp.c_cmdLine
  Chars,                 \* printable characters typed, " " among them
  Menu,                  \* entries [cmd, parent, cb] in list order
  NUL, EOL, BS,          \* '\0', '\r' or '\n', and 127
  CLP_PRINT_MARGIN,      \* column limit of the help output
  HelpOffsets,           \* start offsets clp_menuPrintHelp passes
  HelpChars,             \* characters of help strings, CR and LF among them
  MaxHelpLen,            \* longest help string checked
  CR, LF                 \* '\r' and '\n' inside a help string

Entries == 1 .. Len(Menu)

\* p_args of clp_parse holds 10 pointers: at most 9 tokens are counted.
MaxArgs == 9

VARIABLES
  c_cmdLine,             \* gs_clp.c_cmdLine, positions 1 .. LEN
  i_cmdLineWriteIndex,   \* gs_clp.i_cmdLineWriteIndex
  p_currMenuParent,      \* gs_clp.p_currMenuParent, 0 for NULL
  \* history: the line as typed with backspaces applied, the last callback
  \* call [ctx, toks, entry, args], and whether clp_parse read a NULL token
  typed, lastCall, argNull,
  \* clp_printHelp in progress: the help string h, the start offset, the
  \* index of p_currentHelpWord, the line printed last and the characters
  \* shown so far (history); NoHelp while clp_parse is not printing help
  help

vars == <<c_cmdLine, i_cmdLineWriteIndex, p_currMenuParent, typed, lastCall, argNull, help>>

EmptyLine == [i \in 1 .. CLP_COMMAND_LINE_LEN |-> NUL]

\* strlen(gs_clp.c_cmdLine); without a terminator it runs off the buffer.
Strlen(buf) ==
  LET z == SelectInSeq(buf, LAMBDA ch : ch = NUL)
  IN IF z = 0 THEN Len(buf) ELSE z - 1

\* The string the parser is handed.
LineOf(buf) == SubSeq(buf, 1, Strlen(buf))

\* strtok_r(line, " ") called until it returns NULL: the maximal runs of
\* non-space characters, each a sequence of characters.
RECURSIVE Tokenize(_, _)
Tokenize(s, cur) ==
  IF s = <<>> THEN (IF cur = <<>> THEN <<>> ELSE <<cur>>)
  ELSE IF Head(s) = " "
       THEN (IF cur = <<>> THEN Tokenize(Tail(s), <<>>)
                           ELSE <<cur>> \o Tokenize(Tail(s), <<>>))
       ELSE Tokenize(Tail(s), Append(cur, Head(s)))

\* clp_findEntry: the first entry in list order with this parent and command.
clp_findEntry(tok, parent) ==
  LET hits == {e \in Entries : Menu[e].parent = parent /\ Menu[e].cmd = tok}
  IN IF hits = {} THEN 0
     ELSE CHOOSE e \in hits : \A f \in hits : e <= f

\* The for(;;) of clp_parse: descend while the next argument names a child
\* of the current match; the result is <<match, index of next argument>>.
\* Mutant: the search stays in the context the line started from.
RECURSIVE Descend_sameCtx(_, _, _, _)
Descend_sameCtx(args, i, ctx, match) ==
  LET e == clp_findEntry(args[i], ctx)
  IN IF e = 0 THEN <<match, i>>
     ELSE IF Len(args) <= i THEN <<e, i + 1>>
     ELSE Descend_sameCtx(args, i + 1, ctx, e)

RECURSIVE Descend(_, _, _, _)
Descend(args, i, ctx, match) ==
  LET e == clp_findEntry(args[i], ctx)
  IN IF e = 0 THEN <<match, i>>
     ELSE IF Len(args) <= i THEN <<e, i + 1>>
     ELSE Descend(args, i + 1, e, e)

-----------------------------------------------------------------------------
(* The help printer: clp_printHelp and clp_printHelpLine.  The output of   *)
(* one entry's help is a sequence of lines, each the characters printed    *)
(* after the caller's offset; a line ends at each "\r\n" printed.          *)

\* p_help[k] (0-based); the terminator past the end.
Ch(h, k) == IF k < Len(h) THEN h[k + 1] ELSE NUL

\* clp_printHelpLine(p_help + k, n): up to n characters, CRs skipped, stop
\* after an LF; the characters printed and the count consumed.
RECURSIVE HelpLine(_, _, _, _, _)
HelpLine(h, k, n, j, acc) ==
  IF j >= n THEN <<acc, j>>
  ELSE IF Ch(h, k + j) = CR THEN HelpLine(h, k, n, j + 1, acc)
  ELSE IF Ch(h, k + j) = LF THEN <<acc, j + 1>>
  ELSE HelpLine(h, k, n, j + 1, Append(acc, Ch(h, k + j)))

\* The roll-back loop: from w back to the last space, or to k.
RECURSIVE BreakAt(_, _, _)
BreakAt(h, w, k) == IF Ch(h, w) = " " \/ w = k THEN w ELSE BreakAt(h, w - 1, k)

\* Mutant: the skip is a do-while and always steps over one character.
RECURSIVE SkipSpaces_doWhile(_, _)
SkipSpaces_doWhile(h, k) ==
  IF Ch(h, k + 1) = " " THEN SkipSpaces_doWhile(h, k + 1) ELSE k + 1

\* "Skip any leading spaces".
RECURSIVE SkipSpaces(_, _)
SkipSpaces(h, k) == IF Ch(h, k) = " " THEN SkipSpaces(h, k + 1) ELSE k

\* Mutant: the break position is one column past the margin.
WrapStep_wide(h, k, off) ==
  LET w == BreakAt(h, k - off + CLP_PRINT_MARGIN + 1, k)
      n == CLP_PRINT_MARGIN - off - 1
      r == IF w > k THEN HelpLine(h, k, w - k, 0, <<>>) ELSE HelpLine(h, k, n, 0, <<>>)
  IN <<IF w <= k /\ r[2] >= n THEN Append(r[1], "-") ELSE r[1],
       SkipSpaces(h, k + r[2])>>

\* One line of the else branch of clp_printHelp: break at the last space
\* before the margin, or fill the line and add a hyphen; then skip the
\* spaces that follow.  The line printed and the new p_currentHelpWord.
WrapStep(h, k, off) ==
  LET w == BreakAt(h, k - off + CLP_PRINT_MARGIN, k)
      n == CLP_PRINT_MARGIN - off - 1
      r == IF w > k THEN HelpLine(h, k, w - k, 0, <<>>) ELSE HelpLine(h, k, n, 0, <<>>)
  IN <<IF w <= k /\ r[2] >= n THEN Append(r[1], "-") ELSE r[1],
       SkipSpaces(h, k + r[2])>>

\* Help strings checked.  The offsets (the constant HelpOffsets) are those
\* clp_menuPrintHelp passes: the longest command plus 3, plus 2 more for a
\* child.
HelpTexts == BoundedSeq(HelpChars, MaxHelpLen)

\* Characters of the help string that appear in the output as they are.
Shown(c) == c \notin {" ", "-", CR, LF}

NoHelp == [h |-> <<>>, off |-> 0, k |-> 0, line |-> <<>>, shown |-> <<>>]

\* The unknown-command branch of clp_parse: clp_menuPrintHelp calls
\* clp_printHelp(p_help, i_currentPos) for an entry; its help string and
\* offset are inputs.
clp_printHelp ==
  \E t \in HelpTexts, o \in HelpOffsets :
    help' = [h |-> t, off |-> o, k |-> 0, line |-> <<>>, shown |-> <<>>]

\* The line printed from p_currentHelpWord = k by one pass of the while loop
\* of clp_printHelp, and the new p_currentHelpWord.  i_currentPos is the
\* offset at the start of every line (the caller's columns, then the
\* filling spaces).  In the first case a complete print leaves the loop by
\* break, with k at the end.
HelpIteration(h, k, off) ==
  IF off + (Len(h) - k) < CLP_PRINT_MARGIN
  THEN LET r == HelpLine(h, k, Len(h) - k, 0, <<>>) IN <<r[1], k + r[2]>>
  ELSE WrapStep(h, k, off)

\* One pass of the while loop, while p_currentHelpWord is inside the string.
clp_printHelp_iter ==
  /\ help # NoHelp
  /\ help.k < Len(help.h)
  /\ LET st == HelpIteration(help.h, help.k, help.off)
     IN help' = [help EXCEPT !.k = st[2], !.line = st[1],
                             !.shown = @ \o SelectSeq(st[1], Shown)]
  /\ UNCHANGED <<c_cmdLine, i_cmdLineWriteIndex, p_currMenuParent, typed, lastCall, argNull>>

\* The loop ends: the final new line, clp_outputPrompt, and clp_parse and
\* clp_rxChar return.  (The model prints one help string per command.)
clp_printHelp_done ==
  /\ help # NoHelp
  /\ help.k >= Len(help.h)
  /\ help' = NoHelp
  /\ UNCHANGED <<c_cmdLine, i_cmdLineWriteIndex, p_currMenuParent, typed, lastCall, argNull>>

Init ==
  /\ c_cmdLine = EmptyLine
  /\ i_cmdLineWriteIndex = 0
  /\ p_currMenuParent = 0
  /\ typed = <<>>
  /\ lastCall = [ctx |-> 0, toks |-> <<>>, entry |-> 0, args |-> <<>>]
  /\ argNull = FALSE
  /\ help = NoHelp

-----------------------------------------------------------------------------

\* clp_parse on a line.  With no token at all p_args[0] is NULL and
\* strcmp(NULL, "..") is undefined; the model follows an embedded build
\* that reads garbage there and reports an unknown command.
clp_parse(line) ==
  LET toks == Tokenize(line, <<>>)
      args == SubSeq(toks, 1, IF Len(toks) > MaxArgs THEN MaxArgs ELSE Len(toks))
  IN IF args = <<>>
     THEN argNull' = TRUE /\ clp_printHelp /\ UNCHANGED <<p_currMenuParent, lastCall>>
     ELSE IF args[1] = <<".", ".">>
     THEN /\ p_currMenuParent' = IF p_currMenuParent = 0 THEN 0
                                 ELSE Menu[p_currMenuParent].parent
          /\ UNCHANGED <<lastCall, argNull, help>>
     ELSE LET r == Descend(args, 1, p_currMenuParent, 0)
              match == r[1]
          IN /\ IF match = 0
                  THEN clp_printHelp /\ UNCHANGED <<p_currMenuParent, lastCall>>
                  ELSE IF Menu[match].cb
                  THEN /\ lastCall' = [ctx |-> p_currMenuParent, toks |-> args,
                                       entry |-> match,
                                       args |-> SubSeq(args, r[2], Len(args))]
                       /\ UNCHANGED <<p_currMenuParent, help>>
                  ELSE /\ p_currMenuParent' = match
                       /\ UNCHANGED <<lastCall, help>>
             /\ UNCHANGED argNull

\* clp_rxChar, end of line: parse a non-empty line, then clear the buffer.
clp_rxChar_eol ==
  /\ IF Strlen(c_cmdLine) > 0
       THEN clp_parse(LineOf(c_cmdLine))
       ELSE UNCHANGED <<p_currMenuParent, lastCall, argNull, help>>
  /\ c_cmdLine' = EmptyLine
  /\ i_cmdLineWriteIndex' = 0
  /\ typed' = <<>>

\* Mutant: backspace without the check for an empty buffer.
clp_rxChar_bs_noGuard ==
  /\ c_cmdLine' = [c_cmdLine EXCEPT ![i_cmdLineWriteIndex + 1] = NUL]
  /\ i_cmdLineWriteIndex' = i_cmdLineWriteIndex - 1
  /\ typed' = IF typed = <<>> THEN <<>> ELSE Front(typed)
  /\ UNCHANGED <<p_currMenuParent, lastCall, argNull, help>>

\* clp_rxChar, character 127: clear at the write index, then step back.
clp_rxChar_bs ==
  /\ i_cmdLineWriteIndex > 0
  /\ c_cmdLine' = [c_cmdLine EXCEPT ![i_cmdLineWriteIndex + 1] = NUL]
  /\ i_cmdLineWriteIndex' = i_cmdLineWriteIndex - 1
  /\ typed' = Front(typed)
  /\ UNCHANGED <<p_currMenuParent, lastCall, argNull, help>>

\* Mutant: the overflow check leaves only the last slot free.
clp_rxChar_char_lateReset(ch) ==
  LET idx == i_cmdLineWriteIndex + 1
  IN /\ IF idx > CLP_COMMAND_LINE_LEN - 1
          THEN /\ c_cmdLine' = EmptyLine
               /\ i_cmdLineWriteIndex' = 0
               /\ typed' = <<>>
          ELSE /\ c_cmdLine' = [c_cmdLine EXCEPT ![i_cmdLineWriteIndex + 1] = ch]
               /\ i_cmdLineWriteIndex' = idx
               /\ typed' = Append(typed, ch)
     /\ UNCHANGED <<p_currMenuParent, lastCall, argNull, help>>

\* clp_rxChar, any other character: store it; a line reaching the last
\* two slots is thrown away.
clp_rxChar_char(ch) ==
  LET idx == i_cmdLineWriteIndex + 1
  IN /\ IF idx > CLP_COMMAND_LINE_LEN - 2
          THEN /\ c_cmdLine' = EmptyLine
               /\ i_cmdLineWriteIndex' = 0
               /\ typed' = <<>>
          ELSE /\ c_cmdLine' = [c_cmdLine EXCEPT ![i_cmdLineWriteIndex + 1] = ch]
               /\ i_cmdLineWriteIndex' = idx
               /\ typed' = Append(typed, ch)
     /\ UNCHANGED <<p_currMenuParent, lastCall, argNull, help>>

\* clp_rxChar runs in the UART receive interrupt and is not entered again
\* before clp_parse has returned.
Next ==
  \/ /\ help = NoHelp
     /\ \/ clp_rxChar_eol
        \/ clp_rxChar_bs
        \/ \E ch \in Chars : clp_rxChar_char(ch)
  \/ clp_printHelp_iter
  \/ clp_printHelp_done

Spec == Init /\ [][Next]_vars


-----------------------------------------------------------------------------
(* Properties.                                                             *)

TypeOK ==
  /\ c_cmdLine \in [1 .. CLP_COMMAND_LINE_LEN -> Chars \cup {NUL}]
  /\ i_cmdLineWriteIndex \in 0 .. CLP_COMMAND_LINE_LEN - 1
  /\ p_currMenuParent \in Entries \cup {0}
  /\ argNull \in BOOLEAN

(* The line buffer never loses its terminator: the write index stays two   *)
(* short of the end (clp.c:953), everything past it is NUL, and at most    *)
(* one character beyond it is left over, so strlen sees the written        *)
(* characters and at most one more.                                        *)
LineBufferBounded ==
  /\ i_cmdLineWriteIndex <= CLP_COMMAND_LINE_LEN - 2
  /\ \A i \in i_cmdLineWriteIndex + 2 .. CLP_COMMAND_LINE_LEN : c_cmdLine[i] = NUL
  /\ Strlen(c_cmdLine) \in {i_cmdLineWriteIndex, i_cmdLineWriteIndex + 1}

\* The commands on the way from entry ctx down to entry e, or NULL when ctx
\* is not above e.
RECURSIVE PathFrom(_, _)
PathFrom(ctx, e) ==
  IF e = ctx THEN <<>>
  ELSE IF e = 0 THEN NUL
  ELSE LET up == PathFrom(ctx, Menu[e].parent)
       IN IF up = NUL THEN NUL ELSE Append(up, Menu[e].cmd)

\* The entry a command line names from context ctx: the deepest entry whose
\* path from ctx is a prefix of the arguments.
Named(ctx, args) ==
  LET cand == {e \in Entries : PathFrom(ctx, e) # NUL /\ PathFrom(ctx, e) # <<>>
                               /\ IsPrefix(PathFrom(ctx, e), args)}
  IN IF cand = {} THEN 0
     ELSE CHOOSE e \in cand : \A f \in cand : Len(PathFrom(ctx, f)) <= Len(PathFrom(ctx, e))

(* clp_parse calls the callback of the entry the arguments name from the   *)
(* current context (the deepest entry reached by following them down the  *)
(* menu), with the arguments left after that entry's path.                *)
DispatchMatchesMenu ==
  lastCall.entry # 0 =>
    /\ lastCall.entry = Named(lastCall.ctx, lastCall.toks)
    /\ lastCall.toks = PathFrom(lastCall.ctx, lastCall.entry) \o lastCall.args

(* The line clp_parse is handed is the line as typed, with each backspace  *)
(* erasing the character before it (the comment at clp.c:927).            *)
LineIsTyped == LineOf(c_cmdLine) = typed

(* clp_parse dereferences only tokens that exist: a line it is handed has  *)
(* at least one token, so p_args[0] is not NULL at clp.c:279.             *)
ParseHasToken == ~argNull

(* clp_printHelp keeps the help output inside CLP_PRINT_MARGIN: with the   *)
(* caller's offset, no line it prints is longer than the margin.           *)
HelpWithinMargin == help.off + Len(help.line) <= CLP_PRINT_MARGIN

(* clp_printHelp loses and reorders nothing: apart from the spaces and the *)
(* line breaks it replaces by new lines, and the hyphens it adds, the      *)
(* characters printed so far are those of the help string up to           *)
(* p_currentHelpWord, in order.                                            *)
HelpTextKept == help.shown = SelectSeq(SubSeq(help.h, 1, help.k), Shown)

(* The while loop of clp_printHelp always gets on: from any point inside  *)
(* the string the next pass moves p_currentHelpWord forward, so a help     *)
(* print ends after at most Len(h) passes and clp_parse returns, for any   *)
(* command clp.h accepts.  The hyphen branch (clp.c:591) asks             *)
(* clp_printHelpLine for CLP_PRINT_MARGIN - i_currentPos - 1 characters:   *)
(* at offset CLP_PRINT_MARGIN - 1 that is 0, and the loop prints hyphens   *)
(* without advancing.                                                      *)
HelpLoopProgresses ==
  help # NoHelp /\ help.k < Len(help.h) =>
    HelpIteration(help.h, help.k, help.off)[2] > help.k

=============================================================================
