----------------------------- MODULE Translations ---------------------------
(***************************************************************************)
(* The dictionaries of the web interface and the choice among them           *)
(* (web/lib/i18n).  A table is the set of sections it translates: a text is  *)
(* looked up by section and key, and the tables that have a section have the *)
(* same keys in it.                                                          *)
(***************************************************************************)

\* The reference locale.
en == {"nav", "home", "about", "privacy", "admin", "setup", "mailbox", "api", "banner"}

\* The base tables ...
zhCN == {"nav", "home", "about", "privacy", "mailbox"}
zhTW == {"nav", "home", "about", "privacy", "mailbox"}
ja == {"nav", "home", "about", "privacy", "mailbox"}
ko == {"nav", "home", "about", "privacy", "mailbox"}
es == {"nav", "home", "about", "privacy", "mailbox"}
fr == {"nav", "home", "about", "privacy", "mailbox"}
de == {"nav", "home", "about", "privacy", "mailbox"}
pt == {"nav", "home", "about", "privacy", "mailbox"}
ru == {"nav", "home", "about", "privacy", "mailbox"}
ar == {"nav", "home", "about", "privacy", "mailbox"}
hi == {"nav", "home", "about", "privacy", "mailbox"}
it == {"nav", "home", "about", "privacy", "mailbox"}
tr == {"nav", "home", "about", "privacy", "mailbox"}
id == {"nav", "home", "about", "privacy", "mailbox"}
vi == {"nav", "home", "about", "privacy", "mailbox"}

\* ... and those added for the administration, the wizard and the API page.
extraZhCN == {"banner", "admin", "setup", "api"}
extraZhTW == {"banner", "admin", "setup", "api"}
extraJa == {"banner", "admin", "setup", "api"}
extraKo == {"banner", "admin", "setup", "api"}
extraEs == {"banner", "admin", "setup", "api"}
extraFr == {"banner", "admin", "setup", "api"}
extraDe == {"banner", "admin", "setup", "api"}
extraPt == {"banner", "admin", "setup", "api"}
extraRu == {"banner", "admin", "setup", "api"}
extraAr == {"banner", "admin", "setup", "api"}
extraHi == {"banner", "admin", "setup", "api"}
extraIt == {"banner", "admin", "setup", "api"}
extraTr == {"banner", "admin", "setup", "api"}
extraId == {"banner", "admin", "setup", "api"}
extraVi == {"banner", "admin", "setup", "api"}

Languages == {"en", "zh-CN", "zh-TW", "ja", "ko", "es", "fr", "de", "pt",
              "ru", "ar", "hi", "it", "tr", "id", "vi"}

BASE_DICTS ==
  [code \in Languages |->
    CASE code = "en" -> en [] code = "zh-CN" -> zhCN [] code = "zh-TW" -> zhTW
      [] code = "ja" -> ja [] code = "ko" -> ko [] code = "es" -> es
      [] code = "fr" -> fr [] code = "de" -> de [] code = "pt" -> pt
      [] code = "ru" -> ru [] code = "ar" -> ar [] code = "hi" -> hi
      [] code = "it" -> it [] code = "tr" -> tr [] code = "id" -> id
      [] code = "vi" -> vi]

EXTRA_DICTS ==
  [code \in Languages \ {"en"} |->
    CASE code = "zh-CN" -> extraZhCN [] code = "zh-TW" -> extraZhTW
      [] code = "ja" -> extraJa [] code = "ko" -> extraKo
      [] code = "es" -> extraEs [] code = "fr" -> extraFr
      [] code = "de" -> extraDe [] code = "pt" -> extraPt
      [] code = "ru" -> extraRu [] code = "ar" -> extraAr
      [] code = "hi" -> extraHi [] code = "it" -> extraIt
      [] code = "tr" -> extraTr [] code = "id" -> extraId
      [] code = "vi" -> extraVi]

deepMerge(base, extra) == base \union extra

DICTS ==
  [code \in DOMAIN BASE_DICTS |->
    deepMerge(BASE_DICTS[code], IF code = "en" THEN {} ELSE EXTRA_DICTS[code])]

Codes == DOMAIN DICTS

DEFAULT_LANG == "en"

\* The language whose table the text comes from.
lookup(lang, section) == IF lang \in Codes /\ section \in DICTS[lang] THEN lang ELSE DEFAULT_LANG

\* A language tag: the whole of it, what is before the first "-", and whether it
\* names Taiwan, Hong Kong or Macao.
Tag(code, base, traditional) == [code |-> code, base |-> base, traditional |-> traditional]

resolveLang(raw) ==
  IF raw.code \in Codes THEN raw.code
  ELSE IF raw.base = "zh" THEN IF raw.traditional THEN "zh-TW" ELSE "zh-CN"
  ELSE IF raw.base \in Codes THEN raw.base ELSE DEFAULT_LANG

-----------------------------------------------------------------------------
(* The provider (I18nProvider) in one browser tab.                           *)

\* lang: the hook; module: the mirror the helpers outside React read; document:
\* the lang and dir attributes; saved: localStorage.
Prerendered(saved) ==
  [lang |-> DEFAULT_LANG, module |-> DEFAULT_LANG, document |-> DEFAULT_LANG, saved |-> saved]

\* Before the first paint: what is saved or what the browser prefers.
LayoutEffect(u, detected) == [u EXCEPT !.module = detected, !.document = detected]

\* After every render with another language, and after the first.
MirrorEffect(u) == [u EXCEPT !.module = u.lang, !.document = u.lang]

\* Mutant of Render: the effect has no dependency and runs once.
RenderOnce(u, lang) == [u EXCEPT !.lang = lang]

Render(u, lang) == MirrorEffect([u EXCEPT !.lang = lang])

\* The effects of the first render run, with its language, before the second.
I18nProvider(saved, preferred) ==
  LET detected == IF saved \in Codes THEN saved ELSE resolveLang(preferred)
      first == MirrorEffect(LayoutEffect(Prerendered(saved), detected))
  IN IF detected = DEFAULT_LANG THEN first ELSE Render(first, detected)

setLang(u, code) == Render([u EXCEPT !.module = code, !.document = code, !.saved = code], code)
=============================================================================
