-------------------------- MODULE SettingsSections --------------------------
(* Which of SettingsForm's choices each section of the settings pages makes. *)

Hook(follow, base, rebases, sends) ==
    [follow |-> follow, base |-> base, rebases |-> rebases, sends |-> sends,
     secrets |-> "none", blanks |-> "sent", via |-> "useUpdateOption"]

\* The same with keys, tokens or secrets among its options.
With(secrets, blanks, section) ==
    [section EXCEPT !.secrets = secrets, !.blanks = blanks]

-----------------------------------------------------------------------------
(* Forms built on useSettingsForm *)

useSettingsForm == Hook("values", "ref", "form", "changed")

PricingSection == useSettingsForm
QuotaSettingsSection == useSettingsForm
SystemInfoSection == useSettingsForm

-----------------------------------------------------------------------------
(* Forms built on useResetForm *)

useResetForm == Hook("values", "prop", "nothing", "changed")

BasicAuthSection == useResetForm
PasskeySection == useResetForm
SystemBehaviorSection == useResetForm
GrokSettingsCard == useResetForm
PerformanceSection == useResetForm
NoticeSection == useResetForm
LogSettingsSection == useResetForm

\* SMTPToken is sent if it is not blank.
EmailSettingsSection == With("hidden", "kept", useResetForm)

\* WorkerValidKey is also sent when WorkerUrl, the address, is blank.
WorkerSettingsSection == With("hidden", "forced", useResetForm)

MonitoringSettingsSection == Hook("values", "own", "base", "changed")

-----------------------------------------------------------------------------
(* Forms with an effect of their own on the values of their options *)

ChatSettingsSection == Hook("values", "ref", "nothing", "changed")
JsonToggleSection == Hook("values", "ref", "nothing", "changed")

\* It has a save for each group of its options, and one for all: Keys are those
\* of one of them.  EpayKey and the secrets of Stripe, Creem and Xunhu are sent
\* if they are not blank.
PaymentSettingsSection ==
    With("hidden", "kept", Hook("values", "ref", "nothing", "changed"))

-----------------------------------------------------------------------------
(* Editors of a list that is an option, with an effect and a save of its own *)

listEditor == Hook("each", "prop", "nothing", "one")

ToolPriceSettings == listEditor
AnnouncementsSection == listEditor
ApiInfoSection == listEditor
FAQSection == listEditor
UptimeKumaSection == listEditor

-----------------------------------------------------------------------------
(* Forms with an effect on the object that holds their default values *)

\* Turnstile's site key and secret key, hidden, are compared with blanks.
BotProtectionSection ==
    With("hidden", "sent", Hook("any", "prop", "nothing", "changed"))

DashboardSection == Hook("any", "prop", "nothing", "changed")
SensitiveWordsSection == Hook("any", "prop", "nothing", "changed")
RateLimitSection == Hook("any", "prop", "nothing", "changed")
GlobalSettingsCard == Hook("any", "prop", "nothing", "changed")
HeaderNavigationSection == Hook("any", "prop", "nothing", "changed")
SidebarModulesSection == Hook("any", "prop", "nothing", "changed")

ClaudeSettingsCard == Hook("any", "ref", "nothing", "changed")
GeminiSettingsCard == Hook("any", "ref", "nothing", "changed")
RatioSettingsCard == Hook("any", "ref", "nothing", "changed")

SSRFSection == Hook("any", "ref", "base", "changed")

\* What has a default (the currency, the unit price, the minimum) is sent as
\* that default when it is empty: to these sections the two are one value.
wholeForm == Hook("any", "prop", "nothing", "all")

\* The API keys and the private keys are sent if they are not blank.
WaffoSettingsSection == With("hidden", "kept", wholeForm)

\* So are the private key and, although the server shows them, the two public
\* keys of the webhook.
WaffoPancakeSettingsSection == With("hidden", "kept", wholeForm)
WaffoPancakeWebhookKeys == With("shown", "kept", wholeForm)

-----------------------------------------------------------------------------
(* Forms filled in once, when they are mounted *)

CheckinSettingsSection == Hook("never", "prop", "form", "changed")
BlindBoxSettingsSection == Hook("never", "prop", "form", "changed")

\* The api_key, hidden, is compared with a blank.
IoNetDeploymentSettingsSection ==
    With("hidden", "sent", Hook("never", "prop", "form", "changed"))

FirstPurchaseDiscountSection ==
    [Hook("never", "prop", "form", "all") EXCEPT !.via = "useMutation"]

-----------------------------------------------------------------------------
AllSections ==
    {PricingSection, QuotaSettingsSection, SystemInfoSection,
     BasicAuthSection, PasskeySection, SystemBehaviorSection,
     EmailSettingsSection, WorkerSettingsSection, GrokSettingsCard,
     PerformanceSection, NoticeSection, LogSettingsSection,
     MonitoringSettingsSection, ChatSettingsSection, JsonToggleSection,
     PaymentSettingsSection, ToolPriceSettings, AnnouncementsSection,
     ApiInfoSection, FAQSection, UptimeKumaSection, BotProtectionSection,
     DashboardSection, SensitiveWordsSection, RateLimitSection,
     GlobalSettingsCard, HeaderNavigationSection, SidebarModulesSection,
     ClaudeSettingsCard, GeminiSettingsCard, RatioSettingsCard, SSRFSection,
     WaffoSettingsSection, WaffoPancakeSettingsSection,
     WaffoPancakeWebhookKeys,
     CheckinSettingsSection, IoNetDeploymentSettingsSection,
     BlindBoxSettingsSection, FirstPurchaseDiscountSection}
=============================================================================
