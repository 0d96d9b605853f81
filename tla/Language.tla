------------------------------ MODULE Language ------------------------------
(***************************************************************************)
(* tui/i18n.c and the part of main() that starts it: the message table,    *)
(* the language it is in, the language files, and the first run, which is  *)
(* told by a missing language.conf.                                        *)
(*                                                                         *)
(* The table is one block of memory that grows by realloc, so a block      *)
(* stands for it whatever its size; realloc may return any block that is   *)
(* not allocated, the one just freed included. Freeing a block twice makes *)
(* the heap corrupt: the program aborts there, or goes on and may fault at *)
(* any later step. So may a read of a table that was freed. What texts say *)
(* is reduced to the language they are in; memory never runs out.          *)
(* Nothing in the repository opens the language selector but the first run;*)
(* SelectLanguage is what it does when it is opened later.                 *)
(***************************************************************************)
EXTENDS Integers, FiniteSets

CONSTANTS
    Languages,      \* codes of the languages offered
    EN,             \* English, of the texts built in
    Detectable,     \* languages a value of LANG can lead to
    Blocks,         \* blocks the allocator may return
    NULL

ASSUME LanguageAssumption ==
    /\ EN \in Detectable /\ Detectable \subseteq Languages /\ NULL \notin Blocks

VARIABLES
    phase,              \* of the program: "off", "choose", "remember" or "on"
    current_language,
    messages,           \* the block of the table, or NULL
    texts,              \* the language its texts are in
    heap,               \* allocated blocks
    corrupt,            \* a block was freed twice
    changed,            \* history: the language was changed while there was a table
    po,                 \* the language files: "absent", "empty" or "full"
    language_conf       \* language.conf exists

memoryVars == <<current_language, messages, texts, heap, corrupt, changed>>
langVars   == <<phase, memoryVars, po, language_conf>>

LangInit ==
    /\ phase = "off" /\ language_conf = FALSE
    /\ current_language = EN /\ messages = NULL /\ texts = EN
    /\ heap = {} /\ corrupt = FALSE /\ changed = FALSE
    /\ po \in [Languages -> {"absent", "empty", "full"}]

-----------------------------------------------------------------------------
(* i18n_load_messages, after the old table was freed: a file that is       *)
(* missing gives the English texts, one without messages no table at all.  *)
Tables(l, allocated) == IF po[l] = "empty" THEN {NULL} ELSE Blocks \ allocated
TextsOf(l) == IF po[l] = "full" THEN l ELSE EN

(* i18n_is_first_run, which main() asks after i18n_init. When i18n_init     *)
(* cannot make its directory, main() returns: the program stays off.       *)
FirstRun == ~language_conf

LangStart ==
    /\ phase = "off"
    /\ \E l \in Detectable : \E b \in Tables(l, heap) :
          /\ current_language' = l /\ texts' = TextsOf(l)
          /\ messages' = b /\ heap' = {b} \ {NULL}
    /\ phase' = IF FirstRun THEN "choose" ELSE "on"
    /\ UNCHANGED <<corrupt, changed, po, language_conf>>

(* i18n_set_language: the load frees the table, and then the pointer saved *)
(* before is freed again.                                                  *)
FreesBadly(allocated, b) == b # NULL /\ b \notin allocated

SetLanguageThen(l, old) ==
    /\ \E b \in Tables(l, heap \ {messages}) :
          LET loaded == (heap \ {messages}) \union ({b} \ {NULL})
          IN  /\ messages' = b /\ heap' = loaded \ old
              /\ corrupt' = (\/ corrupt \/ FreesBadly(heap, messages)
                             \/ FreesBadly(loaded, messages))
    /\ current_language' = l /\ texts' = TextsOf(l)
    /\ changed' = (changed \/ messages # NULL)
    /\ UNCHANGED <<po, language_conf>>

SetLanguageSavedLate(l) == SetLanguageThen(l, {messages'})
SetLanguage(l) == SetLanguageThen(l, {messages})

(* The dialog of the first run; then language.conf is written, or cannot be. *)
LangChoose(l) == phase = "choose" /\ SetLanguage(l) /\ phase' = "remember"
LangCancel == phase = "choose" /\ phase' = "remember" /\ UNCHANGED <<memoryVars, po, language_conf>>

LangRemember ==
    /\ phase = "remember" /\ phase' = "on"
    /\ language_conf' \in {language_conf, TRUE}
    /\ UNCHANGED <<memoryVars, po>>

SelectLanguage(l) == phase = "on" /\ SetLanguage(l) /\ UNCHANGED phase

(* i18n_create_language_template, or a translator. *)
InstallFile(l, state) ==
    /\ po[l] # state /\ po' = [po EXCEPT ![l] = state]
    /\ UNCHANGED <<phase, memoryVars, language_conf>>

(* The program ends: it leaves, is killed, or faults. i18n_cleanup frees   *)
(* the table; what the end leaves of the memory does not matter.           *)
LangEnds ==
    /\ phase # "off" /\ phase' = "off"
    /\ current_language' = EN /\ messages' = NULL /\ texts' = EN
    /\ heap' = {} /\ corrupt' = FALSE /\ changed' = FALSE
    /\ UNCHANGED <<po, language_conf>>

LangNext ==
    \/ LangStart \/ LangCancel \/ LangRemember \/ LangEnds
    \/ \E l \in Languages : LangChoose(l) \/ SelectLanguage(l)
    \/ \E l \in Languages, state \in {"absent", "empty", "full"} : InstallFile(l, state)

-----------------------------------------------------------------------------
LangTypeOK ==
    /\ phase \in {"off", "choose", "remember", "on"}
    /\ current_language \in Languages /\ texts \in Languages
    /\ messages \in Blocks \union {NULL} /\ heap \subseteq Blocks
    /\ corrupt \in BOOLEAN /\ changed \in BOOLEAN
    /\ po \in [Languages -> {"absent", "empty", "full"}]
    /\ language_conf \in BOOLEAN

(* The program holds the block of its message table and no other, whatever *)
(* files are missing or empty and whichever way the first run goes: unless *)
(* the language was changed while there was a table, nothing leaks, the    *)
(* table is not freed memory, and nothing was freed twice.                 *)
TableOwnsItsBlock ==
    /\ heap \subseteq {messages}
    /\ ~changed => heap = {messages} \ {NULL} /\ ~corrupt
=============================================================================
