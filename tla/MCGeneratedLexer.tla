-------------------------- MODULE MCGeneratedLexer --------------------------
(***************************************************************************)
(* Model-checking instance of GeneratedLexer over the DFA of module        *)
(* MCLexerFixture; each configuration picks the code model, the options   *)
(* and the form of the transitions.                                        *)
(***************************************************************************)
EXTENDS GeneratedLexer, MCLexerFixture

Ref == INSTANCE Tokenizer WITH out <- tokens, Rules <- MCRules, EofName <- "Eof"

(* The generated lexer emits exactly the longest-match tokenization of the *)
(* whole input, one token at a time and in order, and eventually all of it *)
(* including $, however YYFILL splits the input and wherever the caller    *)
(* re-enters a push-model lexer.                                           *)
RefinesTokenizer == Ref!Spec

=============================================================================
