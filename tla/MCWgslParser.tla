---------------------------- MODULE MCWgslParser ----------------------------
(* Small texts for WgslParser: each is about a few functions of the grammar. *)
EXTENDS WgslParser

MCNames == {"x"}

Header == <<"fn", "x", "(", ")", "->", "void", "{">>
T(first, kinds, left) == [first |-> first, kinds |-> kinds, left |-> left]

\* Global variables, constants and aliases; decorations of all kinds, and what they
\* are in front of; struct members; function headers.
Globals == {
  T(<<>>, {"var", "const", "type", "x", ":", "f32", ";", "=", "int"}, 5),
  T(<<"[[">>, {"location", "block", "stage", "(", ")", "int", "]]", ",", ";", "const"}, 5),
  T(<<"[[", "location", "(", "int", ")", "]]">>,
    {"[[", "block", "]]", "var", "const", "struct", "fn", "type", "return"}, 4),
  T(<<"[[", "block", "]]", "struct", "x", "{", "}">>, {";", "var", "x", ":"}, 6),
  T(<<"[[", "block", "]]", "fn", "x", "(", ")", "->", "void", "{", "}">>, {}, 0),
  T(<<"[[", "block", "]]", "fn", "x", "(", ")", "{", "}">>, {}, 0),
  T(<<"[[", "block", "]]", "var", "x", ":", "x", ";">>, {}, 0),
  T(<<"struct", "x", "{">>, {"[[", "offset", "(", "int", ")", "]]", "x", ":", "f32", ";", "}"}, 4),
  T(<<"fn">>, {"x", "(", ")", ":", "f32", ",", "->", "void", "{", "}", ";"}, 5),
  T(<<>>, {"return", ";", "}", "if", "x", "{", "fn"}, 4)}

\* Statements, and what follows an error in one.
Statements == {
  T(Header, {"return", "break", "x", "(", ")", "}", "{", ";"}, 4),
  T(Header \o <<"if">>, {"elseif", "else", "x", "(", ")", "}", "{"}, 4),
  T(Header \o <<"switch", "(", "x", ")", "{">>,
    {"case", "default", "int", "float", ",", ":", "}", "{", "fallthrough", ";"}, 6),
  T(Header, {"for", "loop", "continuing", "(", ")", ";", "{", "}", "x", "="}, 5),
  T(Header \o <<"for", "(", ";", ";">>, {")", "{", "}", "x"}, 4),
  T(Header \o <<"x", "(">>, {"(", ")", "{", "}", ";", "[", "]"}, 4),
  T(Header \o <<"if", "(", "]">>, {"(", ")", "{", ";", "x"}, 4)}

Expressions == {
  T(Header \o <<"return">>, {"x", "-", "+", "<", "(", ")", "[", "]", ";", "}"}, 3),
  T(Header \o <<"return">>,
    {"x", "f32", "int", "float", "f", ",", "bitcast", "<", ">", "(", ")", "=="}, 5),
  T(<<"const", "x", ":", "f32", "=">>, {"f32", "(", ")", ",", "int", "float", "f", ";"}, 6),
  T(<<"const", "x", ":", "f32", "=", "f32", "(", "f32", "(", "f32", "(">>, {"int", ")", ";"}, 4)}

Types == {
  T(<<"type", "x", "=">>,
    {"vec", "<", ">", "ptr", "in", ",", "array", "f32", "sampler", "storage", "format", "int", ";"}, 4),
  T(<<"var", "x", ":">>,
    {"[[", "stride", "access", "(", ")", "int", "read", "]]", ",", "array", "x", ";"}, 5)}

MCTexts == Globals \cup Statements \cup Expressions \cup Types
=============================================================================
