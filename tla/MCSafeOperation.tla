-------------------------- MODULE MCSafeOperation --------------------------
EXTENDS SafeOperation, TLC

CONSTANTS i1, i2, r1, r2, w1, w2

Actors == Permutations({r1, r2}) \cup Permutations({w1, w2})

\* A page without a title whose Yoast noindex flag is "2", which is read as
\* false and stored as "0" when it is put back.
MetaFields == {"title", "noindex"}
MetaTexts == {"none", "draft", "0", "2"}
JsonValues == {"null", "draft", "false"}
MetaReadAs == [none |-> "null", draft |-> "draft"] @@ ("0" :> "false") @@ ("2" :> "false")
MetaStoredAs == [null |-> "none", draft |-> "draft", false |-> "0"]
MetaOriginal == [title |-> "none", noindex |-> "2"]

\* A page without a title.
TitleField == {"title"}
TitleTexts == {"none", "draft"}
TitleValues == {"null", "draft"}
TitleReadAs == [none |-> "null", draft |-> "draft"]
TitleStoredAs == [null |-> "none", draft |-> "draft"]
TitleOriginal == [title |-> "none"]

\* The preview proposes a title.
TitleDraft == [title |-> "draft"]
=============================================================================
