----------------------------- MODULE MCTerminal -----------------------------
(* A small instance of Terminal. *)
EXTENDS Terminal

\* A control character in a paste.
CTL == "^A"

MCSymbols == {ESC, LEAD, CONT, "[", "O", "200", "201", "M-", "<up>", "<unknown>", "A", "~",
              "a", "quit", "detach", CTL}

\* A character, one of two bytes, a key of each kind, C-x C-c and detach-client as
\* one key each, and pastes: none at all, one with a byte that ends sequences, one
\* whose frame is just within the limit, one whose frame is too long, and one that
\* is cut.
MCEvents == {Key(<<"a">>), Key(<<LEAD, CONT>>), Key(<<ESC>>), Key(<<"M-", "a">>), Key(<<"<up>">>),
             Key(<<"quit">>), Key(<<"detach">>),
             Insert(<<>>), Insert(<<"A">>), Insert(<<CTL, "a">>), Insert(<<CTL, CTL>>),
             Insert(<<"a", "a", "a">>)}
MCQuitKeys == {Key(<<"quit">>)}
MCDetachKeys == {Key(<<"detach">>)}

\* A control character is six bytes of JSON.
MCFrameSize(e) == Len(e.data) + 5 * Len(SelectSeq(e.data, LAMBDA c : c = CTL))
=============================================================================
