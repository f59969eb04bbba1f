SPECIFICATION Spec
CONSTANTS
    Texts <- MCTexts
    stoi <- MCStoi
    to_string <- MCToString
    find <- MCFind
    Addresses <- MCAddresses
    Files <- MCFiles
    MaxDevices = 3
    MaxFailures = 2
INVARIANTS RoundTrip HandlesAccounted FreedListUnused
PROPERTIES SettingsAsConfigured Starts
