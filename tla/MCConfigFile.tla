---------------------------- MODULE MCConfigFile ----------------------------
(* Small instances of ConfigFile for TLC. *)
EXTENDS ConfigFile

MCTypedChars == {"x", "#", "\"", "=", " ", NL}

(* Good, commented, repeated and malformed lines; a section, a key and a     *)
(* value that are as long as their buffers; a comment longer than what fgets *)
(* takes at once, whose tail reads as an entry of its own.                   *)
MCEditLines ==
    { <<"[", "client", "]", NL>>, <<"[", " ", "other", "]", "x", NL>>, <<"[", "client", NL>>,
      <<"[", "x", "x", " ", "]", NL>>, <<"[", "x", "x", "x", "]", NL>>,
      <<"#", "x", NL>>, <<" ", NL>>,
      <<"username", " ", "=", "y", "#", "x", NL>>,
      <<" ", "tap_name", "=", "\"", "#", "\"", NL>>,
      <<"password", "=", "x", "x", "x", "x", NL>>, <<"x", "x", "x", "=", NL>>,
      <<"=", "x", NL>>, <<"x", NL>>,
      <<"#", "x", "x", "x", "x", "x", "x", "x", "username", "=", "z", NL>> }

(* Up to three of them. *)
MCEdits == {FlattenSeq(lines) : lines \in SeqOf(MCEditLines, 3)}
=============================================================================
